----------------------------- MODULE TimeRequests -----------------------------
(***************************************************************************)
(* The race on the outstanding time request, command/time/time.c.  The     *)
(* refresh timer's callback writes outstanding_orig_time and               *)
(* have_outstanding_request while the event loop, on another thread or     *)
(* interrupted by the callback, may be between two lines of                *)
(* process_time_msg, which reads both and clears the flag.  Neither is     *)
(* protected.  Requests and responses are UDP datagrams: lost, duplicated, *)
(* delayed and reordered.                                                  *)
(*                                                                         *)
(* A request is known by its number; orig_time, which identifies it in the *)
(* code, grows from request to request.                                    *)
(***************************************************************************)
EXTENDS Integers, FiniteSets

CONSTANTS Requests,    \* the requests are 1 .. Requests
          InOrder      \* the callback's two stores become visible in program
                       \* order (interrupt on the event loop's own core);
                       \* if not, in either order (threads on two cores)

ASSUME RequestsAssumption == Requests \in Nat /\ InOrder \in BOOLEAN

None == 0
Request == 1 .. Requests

VARIABLES
  outstanding_orig_time, have_outstanding_request,
  asking,     \* the request the callback is preparing, or None
  stored,     \* which of its two stores are visible
  sent,       \* requests sent so far: 1 .. sent
  replies,    \* responses under way, any number of copies each
  handling,   \* the response process_time_msg is working on, or None
  line,       \* and where it is
  applied,    \* per request, how often its response became a sample
  eaten       \* requests whose response was refused for want of the flag
              \* although it was the newest and had not been used

flags == <<outstanding_orig_time, have_outstanding_request>>
timer == <<asking, stored, sent>>
loop  == <<handling, line>>
vars  == <<flags, timer, replies, loop, applied, eaten>>

Init == /\ outstanding_orig_time = None
        /\ have_outstanding_request = FALSE
        /\ asking = None /\ stored = {} /\ sent = 0
        /\ replies = {}
        /\ handling = None /\ line = "idle"
        /\ applied = [r \in Request |-> 0]
        /\ eaten = {}

-------------------------------------------------------------------------------
(* The timer's callback: prepare_time_request, then the datagram. *)

Fire == /\ asking = None /\ sent < Requests
        /\ asking' = sent + 1
        /\ stored' = {}
        /\ UNCHANGED <<flags, sent, replies, loop, applied, eaten>>

\* MUTANT of Visible: the flag is raised before the time is stored.
VisibleFlagFirst(store) == InOrder /\ store = "orig" => "flag" \in stored

\* Which store may become visible next.
Visible(store) == InOrder /\ store = "flag" => "orig" \in stored

\* MUTANT of Prepared: the clock is read again after the datagram is filled in.
PreparedLater == asking + 1

\* The time prepare_time_request stores is the one it put in the datagram.
Prepared == asking

StoreOrig == /\ asking # None /\ "orig" \notin stored /\ Visible("orig")
             /\ outstanding_orig_time' = Prepared
             /\ stored' = stored \cup {"orig"}
             /\ UNCHANGED <<have_outstanding_request, asking, sent, replies, loop, applied, eaten>>

StoreFlag == /\ asking # None /\ "flag" \notin stored /\ Visible("flag")
             /\ have_outstanding_request' = TRUE
             /\ stored' = stored \cup {"flag"}
             /\ UNCHANGED <<outstanding_orig_time, asking, sent, replies, loop, applied, eaten>>

\* The datagram leaves; the server's answer, echoing orig_time, is on its way.
Send == /\ stored = {"orig", "flag"}
        /\ sent' = asking
        /\ replies' = replies \cup {asking}
        /\ asking' = None /\ stored' = {}
        /\ UNCHANGED <<flags, loop, applied, eaten>>

Lose == \E r \in replies : /\ replies' = replies \ {r}
                           /\ UNCHANGED <<flags, timer, loop, applied, eaten>>

-------------------------------------------------------------------------------
(* The event loop: process_time_msg. *)

\* A response is taken from the event queue; a copy of it may follow.
Take == /\ line = "idle"
        /\ \E r \in replies : /\ handling' = r
                              /\ replies' \in {replies, replies \ {r}}
        /\ line' = "flag"
        /\ UNCHANGED <<flags, timer, applied, eaten>>

\* Dropped as stale.  The ghost variable notes whether it really was.
Drop == /\ line' = "idle" /\ handling' = None
        /\ eaten' = IF handling = outstanding_orig_time /\ applied[handling] = 0
                    THEN eaten \cup {handling} ELSE eaten
        /\ UNCHANGED <<flags, timer, replies, applied>>

\* if (!have_outstanding_request ||
CheckFlag == /\ line = "flag"
             /\ \/ /\ have_outstanding_request
                   /\ line' = "orig"
                   /\ UNCHANGED <<flags, timer, replies, handling, applied, eaten>>
                \/ ~have_outstanding_request /\ Drop

\* MUTANT of Echoes: any answer to an earlier request will do.
EchoesAny(r) == r <= outstanding_orig_time

Echoes(r) == r = outstanding_orig_time

\*     orig_time != outstanding_orig_time) return 0;
CheckOrig == /\ line = "orig"
             /\ \/ /\ Echoes(handling)
                   /\ line' = "clear"
                   /\ UNCHANGED <<flags, timer, replies, handling, applied, eaten>>
                \/ /\ ~Echoes(handling)
                   /\ Drop

\* MUTANT of Cleared: the flag stays up after an answer.
KeptUp == have_outstanding_request

Cleared == FALSE

ClearFlag == /\ line = "clear"
             /\ have_outstanding_request' = Cleared
             /\ line' = "apply"
             /\ UNCHANGED <<outstanding_orig_time, timer, replies, handling, applied, eaten>>

\* The rest of the handler adds the sample to the ring (see OffsetFilter).
Apply == /\ line = "apply"
         /\ applied' = [applied EXCEPT ![handling] = @ + 1]
         /\ line' = "idle" /\ handling' = None
         /\ UNCHANGED <<flags, timer, replies, eaten>>

Callback == Fire \/ StoreOrig \/ StoreFlag \/ Send
EventLoop == Take \/ CheckFlag \/ CheckOrig \/ ClearFlag \/ Apply

\* Requests is a bound: the last one has been sent and everything answered.
Quiet == /\ sent = Requests /\ replies = {} /\ line = "idle"
         /\ UNCHANGED vars

Next == Callback \/ Lose \/ EventLoop \/ Quiet

Spec == Init /\ [][Next]_vars

-------------------------------------------------------------------------------
(***************************************************************************)
(* Properties.                                                             *)
(***************************************************************************)

\* Types; the outstanding time is always that of the newest request that has
\* got as far as storing it, the one in its datagram.
TypeOK ==
  /\ outstanding_orig_time = IF "orig" \in stored THEN asking ELSE sent
  /\ have_outstanding_request \in BOOLEAN
  /\ asking \in Request \cup {None}
  /\ stored \subseteq {"orig", "flag"}
  /\ sent \in 0 .. Requests
  /\ replies \subseteq 1 .. sent
  /\ handling \in 0 .. sent
  /\ line \in {"idle", "flag", "orig", "clear", "apply"}
  /\ applied \in [Request -> Nat]
  /\ eaten \subseteq Request

\* The samples that reach the ring come from ever newer requests, and no
\* response becomes two samples: what the echoed orig_time is compared for
\* ("drop stale duplicate responses"), although the callback may overwrite
\* both variables between any two lines of the comparison.
SamplesNeverGoBack ==
  [][\A r \in Request : applied'[r] > applied[r] => \A n \in r .. Requests : applied[n] = 0]_vars

\* The race can cost samples: clearing the flag for one response clears it
\* for the request sent in between, whose answer is then dropped.  But each
\* sample lost so is paid for by one gained, so at least every second answer
\* that comes back in time is used.
RaceCostsNoMoreThanItGains ==
  Cardinality(eaten) <= Cardinality({r \in Request : applied[r] > 0})

===============================================================================
