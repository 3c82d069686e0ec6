------------------------------ MODULE Coverage ------------------------------
(***************************************************************************)
(* Does the capture window cover the observed polling?                     *)
(* measure_polling_cycles and coverage_warnings of src/wayside/coverage.py *)
(* over the window that analyze computes from the packets' timestamps.     *)
(*                                                                         *)
(* The capture is a sequence of packets with times, in file order, which   *)
(* need not be the order of the times; some of them are protocol events.   *)
(*                                                                         *)
(* Times are whole microseconds.  Both differences are rounded to six      *)
(* decimal places, which gives them exactly for such a capture.  For one   *)
(* with nanoseconds rounding keeps the order, so no cycle comes to exceed  *)
(* the window, but at equality with the limit an interval that is not a    *)
(* whole number of microseconds may fall on either side of it.             *)
(***************************************************************************)
EXTENDS Integers, Sequences, FiniteSets, FiniteSetsExt

CONSTANTS
  Time,         \* timestamps, in microseconds
  Session,      \* session identifiers
  Kinds,        \* the events a packet may yield
  MaxPackets    \* bound on the length of a capture

WindowMultiplierThreshold == 2
MinRequestsForCycle == 2
NoWindow == -1

\* Several dissectors may report one packet, in either direction.
Packet == [time : Time, session : Session, events : Kinds]

ASSUME CoverageAssumption ==
  /\ Time \subseteq Nat
  /\ Session \subseteq Nat /\ IsFiniteSet(Session)
  /\ Kinds \subseteq [requests : 0 .. 2, responses : 0 .. 2]
  /\ MaxPackets \in Nat

VARIABLES
  capture,     \* the packets
  task,        \* "grouping", "measuring", "assessing" or "assessed"
  ahead,       \* the next element of the loop
  sessions,    \* session -> times of its requests so far, in file order
  cycles,      \* the measured cycles, one per session, in ascending order
  warned       \* sessions whose cycle the window does not cover

coverageVars == <<capture, task, ahead, sessions, cycles, warned>>

-----------------------------------------------------------------------------
CoverageInit ==
  /\ \E n \in 0 .. MaxPackets : capture \in [1 .. n -> Packet]
  /\ task = "grouping"
  /\ ahead = 1
  /\ sessions = [s \in Session |-> <<>>]
  /\ cycles = <<>>
  /\ warned = {}

EndTask(from, to, len) ==
  /\ task = from
  /\ ahead > len
  /\ task' = to
  /\ ahead' = 1
  /\ UNCHANGED <<capture, sessions, cycles, warned>>

\* Every event with the direction "request" counts, of whatever protocol, so
\* the time of a packet that two dissectors report is kept twice.
RequestEvents(p) == p.events.requests

GroupEvents ==
  /\ task = "grouping"
  /\ ahead <= Len(capture)
  /\ LET p == capture[ahead]
     IN  sessions' = [sessions EXCEPT ![p.session] =
                        @ \o [k \in 1 .. RequestEvents(p) |-> p.time]]
  /\ ahead' = ahead + 1
  /\ UNCHANGED <<capture, task, cycles, warned>>

\* The longest interval between neighbours, in file order (Z-15).
Longest(t) == Max({t[i + 1] - t[i] : i \in 1 .. Len(t) - 1})

\* The identifiers in ascending order: the n-th has n that are not above it.
Rank(s) == Cardinality({r \in Session : r <= s})
InOrder == [n \in 1 .. Cardinality(Session) |-> CHOOSE s \in Session : Rank(s) = n]

Measurable(t) == Len(t) >= MinRequestsForCycle

MeasureSession ==
  /\ task = "measuring"
  /\ ahead <= Len(InOrder)
  /\ LET s == InOrder[ahead]
         t == sessions[s]
     IN  cycles' = IF Measurable(t)
                   THEN Append(cycles, [session_id |-> s,
                                        measured_cycle_s |-> Longest(t),
                                        request_count |-> Len(t)])
                   ELSE cycles
  /\ ahead' = ahead + 1
  /\ UNCHANGED <<capture, task, sessions, warned>>

Times == {capture[i].time : i \in DOMAIN capture}
WindowInFileOrder ==                                           \* mutant
  IF capture = <<>> THEN NoWindow
  ELSE capture[Len(capture)].time - capture[1].time
WindowDuration == IF capture = <<>> THEN NoWindow ELSE Max(Times) - Min(Times)

EqualityWarns(c) ==                                             \* mutant
  /\ c.measured_cycle_s # 0
  /\ WindowDuration <= WindowMultiplierThreshold * c.measured_cycle_s
TooShortFor(c) ==
  /\ c.measured_cycle_s # 0
  /\ WindowDuration < WindowMultiplierThreshold * c.measured_cycle_s

AssessCycle ==
  /\ task = "assessing"
  /\ ahead <= Len(cycles)
  /\ warned' = IF TooShortFor(cycles[ahead])
               THEN warned \cup {cycles[ahead].session_id} ELSE warned
  /\ ahead' = ahead + 1
  /\ UNCHANGED <<capture, task, sessions, cycles>>

CoverageNext ==
  \/ GroupEvents
  \/ EndTask("grouping", "measuring", Len(capture))
  \/ MeasureSession
  \/ EndTask("measuring", "assessing", Cardinality(Session))
  \/ AssessCycle
  \/ EndTask("assessing", "assessed", Len(cycles))

CoverageSpec == CoverageInit /\ [][CoverageNext]_coverageVars

-----------------------------------------------------------------------------
Assessed == task = "assessed"
Cycles == {cycles[i] : i \in DOMAIN cycles}

\* The requests of a session, straight from the capture: the k-th of packet i
\* is the pair of i and k.
RequestsOf(s) ==
  {q \in (DOMAIN capture) \X (1 .. 2) :
     capture[q[1]].session = s /\ q[2] <= capture[q[1]].events.requests}

\* The times of the file do not go back.
Chronological == \A i \in 1 .. Len(capture) - 1 :
                   capture[i].time <= capture[i + 1].time

\* The type of the state; the cycles name each session once, ascending.
CoverageTypeOK ==
  /\ capture \in Seq(Packet)
  /\ task \in {"grouping", "measuring", "assessing", "assessed"}
  /\ ahead \in 1 .. MaxPackets + Cardinality(Session) + 1
  /\ sessions \in [Session -> Seq(Time)]
  /\ cycles \in Seq([session_id : Session, measured_cycle_s : Int,
                     request_count : 2 .. 2 * MaxPackets])
  /\ \A i, j \in DOMAIN cycles :
       i < j => cycles[i].session_id < cycles[j].session_id
  /\ warned \subseteq {c.session_id : c \in Cycles}

(***************************************************************************)
(* "The capture window by definition spans every interval measured inside  *)
(* it" (module docstring): in whatever order the file holds its packets,   *)
(* no measured cycle exceeds the window, so a literal "shorter than the    *)
(* polling cycle" could never be true; and the requests a cycle counts are *)
(* exactly those of its session.                                           *)
(***************************************************************************)
WindowSpansCycles ==
  \A c \in Cycles :
    /\ c.measured_cycle_s <= WindowDuration
    /\ c.request_count = Cardinality(RequestsOf(c.session_id))

(***************************************************************************)
(* "Two repetitions are the smallest observation that tells a cycle from a *)
(* coincidence": a steady poller seen three times is never warned about,   *)
(* equality with the threshold included; one seen only at the two ends of  *)
(* the capture always is.  Both need a file whose times do not go back.    *)
(***************************************************************************)
TwoRepetitionsSuffice ==
  Assessed /\ Chronological =>
    \A s \in Session :
      LET times  == {capture[q[1]].time : q \in RequestsOf(s)}
          steady == \E first, next \in times :
                      /\ first < next
                      /\ times = {first, next, next + (next - first)}
          ends   == times # {} /\ times = {Min(Times), Max(Times)}
      IN  /\ steady => s \notin warned
          /\ ends /\ Cardinality(times) = 2 => s \in warned
=============================================================================
