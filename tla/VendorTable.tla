---------------------------- MODULE VendorTable ----------------------------
(***************************************************************************)
(* The vendor table of src/wayside/assets/oui.py.  A file is a sequence of *)
(* rows, or there is none; a row is the record of what its validation      *)
(* tells apart.  Prefixes are values: PrefixOf says which a layer two      *)
(* address has once separators and case are gone.                          *)
(***************************************************************************)
EXTENDS Naturals, Sequences

CONSTANTS
  PrefixOf,     \* layer two address -> its prefix, or Unknown
  Unknown,      \* a value that is not derivable
  NoTable       \* there is no file

\* Blank rows and comments are skipped.
TableRows(file) == {i \in DOMAIN file : file[i].form # "blank"}

\* load_oui_table: one bad row condemns the file (OuiTableError).
Loads(file) ==
  /\ file # NoTable
  /\ \A i \in TableRows(file) : file[i].form = "pair" /\ file[i].prefix # Unknown

\* Of two rows with one prefix the later one holds.
RowFor(prefix, file) ==
  CHOOSE i \in TableRows(file) :
    /\ file[i].prefix = prefix
    /\ \A j \in TableRows(file) : j > i => file[j].prefix # prefix

LookupVendor(mac, file) ==
  LET prefix == PrefixOf[mac]
  IN  IF prefix # Unknown /\ \E i \in TableRows(file) : file[i].prefix = prefix
      THEN file[RowFor(prefix, file)].vendor
      ELSE Unknown
=============================================================================
