------------------------- MODULE TimeRequests_proofs --------------------------
(***************************************************************************)
(* Where the callback's stores are seen in program order, no response      *)
(* becomes two samples and samples come from ever newer requests, for any  *)
(* number of requests and however callback and handler interleave; and the *)
(* race between them costs no more answers than are used.                  *)
(*                                                                         *)
(* The argument: a flag that is up belongs to a request no sample has come *)
(* from (FlagIsFresh); the handler carries that knowledge past its checks  *)
(* (CheckedIsFresh), and a flag raised behind its back belongs to a newer  *)
(* request than the one it is working on.  An answer lost to the race is   *)
(* paid for by the sample whose handler cleared the flag (PaidInv).        *)
(***************************************************************************)
EXTENDS TimeRequests, FiniteSetTheorems, TLAPS

Unused(r) == \A n \in Request : n >= r => applied[n] = 0

Types == /\ outstanding_orig_time \in Nat
         /\ have_outstanding_request \in BOOLEAN
         /\ asking \in Nat
         /\ sent \in Nat
         /\ replies \subseteq 1 .. sent
         /\ handling \in Nat
         /\ applied \in [Request -> Nat]

\* The timer is ahead of the server by at most the request it prepares.
TimerInv ==
  /\ asking \in {None, sent + 1}
  /\ asking = None => stored = {}
  /\ outstanding_orig_time \in {sent, sent + 1}
  /\ outstanding_orig_time = sent + 1 <=> (asking # None /\ "orig" \in stored)
  /\ "flag" \in stored => "orig" \in stored

HandlerInv ==
  /\ line \in {"idle", "flag", "orig", "clear", "apply"}
  /\ line = "idle" <=> handling = None
  /\ handling <= sent
  /\ Unused(sent + 1)

FlagIsFresh ==
  /\ have_outstanding_request /\ line # "apply" => Unused(outstanding_orig_time)
  /\ have_outstanding_request /\ line = "apply" => outstanding_orig_time > handling

CheckedIsFresh ==
  /\ line = "orig" => Unused(outstanding_orig_time)
  /\ line \in {"clear", "apply"} => Unused(handling)

FreshInv == Types /\ TimerInv /\ HandlerInv /\ FlagIsFresh /\ CheckedIsFresh

LEMMA InitFresh == Init => FreshInv
<1> SUFFICES ASSUME Init PROVE FreshInv OBVIOUS
<1> USE RequestsAssumption DEF Init, None, flags, timer, loop
<1>1. Types BY DEF Types
<1>2. TimerInv BY DEF TimerInv
<1>3. \A r \in Nat : Unused(r) BY DEF Unused
<1>4. HandlerInv BY <1>3 DEF HandlerInv
<1>5. FlagIsFresh /\ CheckedIsFresh BY DEF FlagIsFresh, CheckedIsFresh
<1> QED BY <1>1, <1>2, <1>4, <1>5 DEF FreshInv

\* Counting one more keeps a function of counts one.
LEMMA CountOne ==
  ASSUME NEW S, NEW f \in [S -> Nat], NEW h
  PROVE  [f EXCEPT ![h] = @ + 1] \in [S -> Nat]
<1>1. CASE h \in S BY <1>1
<1>2. CASE h \notin S BY <1>2
<1> QED BY <1>1, <1>2

LEMMA NextFresh ==
  ASSUME InOrder, FreshInv, [Next]_vars
  PROVE  FreshInv'
<1> USE RequestsAssumption DEF FreshInv, Types, TimerInv, HandlerInv, FlagIsFresh,
        CheckedIsFresh, Unused, Request, None, flags, timer, loop
<1>1. CASE Fire BY <1>1 DEF Fire
<1>2. CASE StoreOrig BY <1>2 DEF StoreOrig, Visible, Prepared
<1>3. CASE StoreFlag BY <1>3 DEF StoreFlag, Visible
<1>4. CASE Send
  <2>1. /\ stored = {"orig", "flag"} /\ stored' = {}
        /\ asking' = None /\ sent' = asking /\ replies' = replies \cup {asking}
        /\ UNCHANGED <<outstanding_orig_time, have_outstanding_request, handling, line, applied>>
    BY <1>4 DEF Send
  <2>2. Types'
    <3>1. asking = sent + 1 BY <2>1
    <3> QED BY <2>1, <3>1
  <2>3. TimerInv' BY <2>1
  <2>4. HandlerInv' BY <2>1
  <2>5. FlagIsFresh' BY <2>1
  <2>6. CheckedIsFresh' BY <2>1
  <2> QED BY <2>2, <2>3, <2>4, <2>5, <2>6
<1>5. CASE Lose BY <1>5 DEF Lose
<1>6. CASE Take BY <1>6 DEF Take
<1>7. CASE CheckFlag
  <2>1. /\ UNCHANGED <<outstanding_orig_time, have_outstanding_request, asking, stored,
                        sent, replies, applied>>
        /\ line = "flag"
        /\ \/ line' = "orig" /\ handling' = handling /\ have_outstanding_request
           \/ line' = "idle" /\ handling' = None
    BY <1>7 DEF CheckFlag, Drop
  <2>2. Types' BY <2>1
  <2>3. TimerInv' BY <2>1
  <2>4. HandlerInv' BY <2>1
  <2>5. FlagIsFresh' BY <2>1
  <2>6. CheckedIsFresh' BY <2>1
  <2> QED BY <2>2, <2>3, <2>4, <2>5, <2>6
<1>8. CASE CheckOrig
  <2>1. /\ UNCHANGED <<outstanding_orig_time, have_outstanding_request, asking, stored,
                        sent, replies, applied>>
        /\ line = "orig"
        /\ \/ line' = "clear" /\ handling' = handling /\ handling = outstanding_orig_time
           \/ line' = "idle" /\ handling' = None
    BY <1>8 DEF CheckOrig, Drop, Echoes
  <2>2. Types' BY <2>1
  <2>3. TimerInv' BY <2>1
  <2>4. HandlerInv' BY <2>1
  <2>5. FlagIsFresh' BY <2>1
  <2>6. CheckedIsFresh' BY <2>1
  <2> QED BY <2>2, <2>3, <2>4, <2>5, <2>6
<1>9. CASE ClearFlag BY <1>9 DEF ClearFlag, Cleared
<1>10. CASE Apply
  <2>1. /\ UNCHANGED <<outstanding_orig_time, have_outstanding_request, asking, stored,
                        sent, replies>>
        /\ line = "apply" /\ line' = "idle" /\ handling' = None
        /\ applied' = [applied EXCEPT ![handling] = @ + 1]
    BY <1>10 DEF Apply
  <2>2. Types'
    <3>1. applied' \in [Request -> Nat] BY <2>1, CountOne
    <3> QED BY <2>1, <3>1
  <2>3. TimerInv' BY <2>1
  <2>4. HandlerInv' BY <2>1
  <2>5. FlagIsFresh' BY <2>1
  <2>6. CheckedIsFresh' BY <2>1
  <2> QED BY <2>2, <2>3, <2>4, <2>5, <2>6
<1>11. CASE UNCHANGED vars BY <1>11 DEF vars
<1> QED BY <1>1, <1>2, <1>3, <1>4, <1>5, <1>6, <1>7, <1>8, <1>9, <1>10, <1>11
        DEF Next, Callback, EventLoop, Quiet

\* Only Apply adds a sample, and the handler knows its request is unused.
LEMMA NextForward ==
  ASSUME FreshInv, [Next]_vars
  PROVE  \A r \in Request : applied'[r] > applied[r] => \A n \in r .. Requests : applied[n] = 0
<1>1. CASE Apply
  <2>1. Unused(handling) /\ handling \in Nat
    BY <1>1 DEF FreshInv, Types, CheckedIsFresh, Apply
  <2>2. ASSUME NEW r \in Request, applied'[r] > applied[r]
        PROVE  r = handling
    BY <1>1, <2>2 DEF Apply, FreshInv, Types
  <2> QED BY <2>1, <2>2, RequestsAssumption DEF Unused, Request
<1>2. CASE ~Apply
  <2>1. applied' = applied
    BY <1>2 DEF Next, Callback, EventLoop, Quiet, Fire, StoreOrig, StoreFlag, Send, Lose,
                Take, CheckFlag, CheckOrig, ClearFlag, Drop, vars
  <2> QED BY <2>1 DEF FreshInv, Types
<1> QED BY <1>1, <1>2

\* No response is used twice and none after a newer one, for any number of
\* requests, as long as the two stores are seen in program order.
THEOREM SamplesComeInOrder == InOrder /\ Spec => SamplesNeverGoBack
<1> SUFFICES ASSUME InOrder PROVE Spec => SamplesNeverGoBack OBVIOUS
<1>1. Init => FreshInv BY InitFresh
<1>2. FreshInv /\ [Next]_vars => FreshInv' BY NextFresh
<1>3. FreshInv /\ [Next]_vars
        => [\A r \in Request :
              applied'[r] > applied[r] => \A n \in r .. Requests : applied[n] = 0]_vars
  BY NextForward
<1> QED BY <1>1, <1>2, <1>3, PTL DEF Spec, SamplesNeverGoBack

-------------------------------------------------------------------------------
(* Types, in whichever order the stores are seen. *)

TypeInv ==
  /\ TypeOK
  /\ asking \in {None, sent + 1}
  /\ asking = None => stored = {}
  /\ line # "idle" => handling # None

LEMMA TypeInvInit == Init => TypeInv
<1> SUFFICES ASSUME Init PROVE TypeInv
  OBVIOUS
<1>1. /\ sent = 0 /\ sent \in 0 .. Requests /\ handling \in 0 .. sent
      /\ asking = None /\ stored = {} /\ line = "idle"
      /\ outstanding_orig_time = sent
  BY RequestsAssumption DEF Init, None
<1>2. applied \in [Request -> Nat] /\ eaten \subseteq Request /\ replies \subseteq 1 .. sent
  BY DEF Init
<1>3. have_outstanding_request \in BOOLEAN
  BY DEF Init
<1> QED BY <1>1, <1>2, <1>3 DEF TypeInv, TypeOK

LEMMA DropTyped ==
  ASSUME TypeInv, line \in {"flag", "orig"}, Drop
  PROVE  eaten' \subseteq Request
<1>1. handling \in Request /\ eaten \subseteq Request
  BY RequestsAssumption DEF TypeInv, TypeOK, None, Request
<1> QED BY <1>1 DEF Drop

LEMMA TypeInvNext == TypeInv /\ [Next]_vars => TypeInv'
<1> SUFFICES ASSUME TypeInv, [Next]_vars PROVE TypeInv'
  OBVIOUS
<1>1. CASE Fire
  BY <1>1, RequestsAssumption DEF TypeInv, TypeOK, Fire, None, Request, flags, loop
<1>2. CASE StoreOrig
  BY <1>2 DEF TypeInv, TypeOK, StoreOrig, Prepared, loop
<1>3. CASE StoreFlag
  BY <1>3 DEF TypeInv, TypeOK, StoreFlag, loop
<1>4. CASE Send
  <2>1. asking = sent + 1 /\ sent' = asking /\ sent \in Nat /\ sent' \in 0 .. Requests
    BY <1>4, RequestsAssumption DEF TypeInv, TypeOK, Send, None, Request
  <2>2. replies' \subseteq 1 .. sent' /\ handling' \in 0 .. sent'
    BY <1>4, <2>1 DEF TypeInv, TypeOK, Send, loop
  <2> QED BY <1>4, <2>1, <2>2 DEF TypeInv, TypeOK, Send, None, flags, loop
<1>5. CASE Lose \/ Quiet \/ UNCHANGED vars
  BY <1>5 DEF TypeInv, TypeOK, Lose, Quiet, vars, flags, timer, loop
<1>6. CASE Take
  BY <1>6 DEF TypeInv, TypeOK, Take, flags, timer, None
<1>7. CASE CheckFlag \/ CheckOrig
  <2>1. line \in {"flag", "orig"}
    BY <1>7 DEF CheckFlag, CheckOrig
  <2>2. CASE Drop
    <3>1. handling' \in 0 .. sent' /\ line' = "idle"
      BY <2>2 DEF Drop, timer, None, TypeInv, TypeOK
    <3>2. eaten' \subseteq Request
      BY <2>1, <2>2, DropTyped
    <3>3. UNCHANGED <<flags, timer, replies, applied>>
      BY <2>2 DEF Drop
    <3> QED BY <3>1, <3>2, <3>3 DEF TypeInv, TypeOK, flags, timer
  <2>3. CASE ~Drop
    <3>1. /\ line' \in {"orig", "clear"}
          /\ UNCHANGED <<flags, timer, replies, handling, applied, eaten>>
      BY <1>7, <2>3 DEF CheckFlag, CheckOrig
    <3> QED BY <2>1, <3>1 DEF TypeInv, TypeOK, flags, timer
  <2> QED BY <2>2, <2>3
<1>8. CASE ClearFlag
  BY <1>8 DEF TypeInv, TypeOK, ClearFlag, Cleared, timer
<1>9. CASE Apply
  <2>1. applied' \in [Request -> Nat]
    BY <1>9, CountOne DEF TypeInv, TypeOK, Apply
  <2>2. /\ line' = "idle" /\ handling' = None
        /\ UNCHANGED <<flags, timer, replies, eaten>>
    BY <1>9 DEF Apply
  <2>3. handling' \in 0 .. sent
    BY <2>2 DEF TypeInv, TypeOK, None
  <2> QED BY <2>1, <2>2, <2>3 DEF TypeInv, TypeOK, flags, timer
<1> QED BY <1>1, <1>2, <1>3, <1>4, <1>5, <1>6, <1>7, <1>8, <1>9
        DEF Next, Callback, EventLoop

\* The outstanding time is that of the newest request whose time the callback
\* has stored, whichever of its two stores is seen first; and the rest of the
\* types.
THEOREM OutstandingIsNewest == Spec => []TypeOK
<1>1. TypeInv => TypeOK
  BY DEF TypeInv
<1> QED BY <1>1, TypeInvInit, TypeInvNext, PTL DEF Spec

-------------------------------------------------------------------------------
(* What the race costs, and what it gains. *)

Gained == {r \in Request : applied[r] > 0}

\* An answer to the newest request would be refused: somebody else's took the
\* flag.
Exposed ==
  /\ ~have_outstanding_request /\ ("orig" \in stored => "flag" \in stored)
  /\ outstanding_orig_time \in Request /\ outstanding_orig_time \notin eaten
  /\ applied[outstanding_orig_time] = 0
  /\ ~(line = "apply" /\ handling = outstanding_orig_time)

\* Each answer eaten has been paid for, and the one exposed is paid for too, by
\* a sample the handler has added or is about to add.
PaidInv ==
  /\ eaten \subseteq Request
  /\ Cardinality(eaten) <= Cardinality(Gained)
  /\ Exposed => Cardinality(eaten) + 1
                  <= Cardinality(Gained) + (IF line = "apply" THEN 1 ELSE 0)

LEMMA Counted ==
  \A S \in SUBSET Request : IsFiniteSet(S) /\ Cardinality(S) \in Nat
<1>1. IsFiniteSet(Request)
  BY FS_Interval, RequestsAssumption DEF Request
<1> QED BY <1>1, FS_Subset, FS_CardinalityType

LEMMA InitPaid == Init => PaidInv
<1> SUFFICES ASSUME Init PROVE PaidInv
  OBVIOUS
<1>1. eaten = {} /\ Cardinality(eaten) = 0 /\ outstanding_orig_time \notin Request
  BY FS_EmptySet DEF Init, Request, None
<1>2. Cardinality(Gained) \in Nat
  BY Counted DEF Gained
<1> QED BY <1>1, <1>2 DEF PaidInv, Exposed

LEMMA NextPaid ==
  ASSUME InOrder, TypeInv, FreshInv, PaidInv, [Next]_vars
  PROVE  PaidInv'
<1>1. /\ Cardinality(Gained) \in Nat /\ Cardinality(eaten) \in Nat /\ eaten \subseteq Request
  BY Counted DEF PaidInv, Gained
<1>2. ASSUME UNCHANGED <<applied, eaten, line, handling>>, Exposed' => Exposed
      PROVE  PaidInv'
  BY <1>2 DEF PaidInv, Gained
<1>3. CASE Fire
  BY <1>2, <1>3 DEF Fire, FreshInv, TimerInv, Exposed, flags, loop
<1>4. CASE StoreOrig
  <2>1. "flag" \notin stored /\ stored' = stored \cup {"orig"}
    BY <1>4 DEF StoreOrig, Visible, FreshInv, TimerInv
  <2> QED BY <1>2, <1>4, <2>1 DEF StoreOrig, Exposed, loop
<1>5. CASE StoreFlag
  BY <1>2, <1>5 DEF StoreFlag, Exposed, loop
<1>6. CASE Send
  BY <1>2, <1>6 DEF Send, Exposed, flags, loop
<1>7. CASE Lose \/ Quiet \/ UNCHANGED vars
  BY <1>2, <1>7 DEF Lose, Quiet, vars, Exposed, flags, timer, loop
<1>8. CASE Take
  <2>1. UNCHANGED <<applied, eaten, flags, timer>> /\ line' = "flag" /\ line = "idle"
    BY <1>8 DEF Take
  <2>2. Exposed' => Exposed
    BY <2>1 DEF Exposed, flags, timer
  <2> QED BY <2>1, <2>2 DEF PaidInv, Gained
<1>9. ASSUME Drop, line \in {"flag", "orig"},
             handling = outstanding_orig_time => ~have_outstanding_request
      PROVE  PaidInv'
  <2>1. UNCHANGED <<applied, flags, timer>> /\ line' = "idle"
    BY <1>9 DEF Drop
  <2>2. Gained' = Gained
    BY <2>1 DEF Gained
  <2>3. CASE eaten' = eaten
    <3>1. Exposed' => Exposed
      BY <1>9, <2>1, <2>3 DEF Exposed, flags, timer
    <3> QED BY <1>9, <2>1, <2>2, <2>3, <3>1 DEF PaidInv
  <2>4. CASE eaten' # eaten
    <3>1. /\ eaten' = eaten \cup {handling} /\ handling \notin eaten
          /\ handling = outstanding_orig_time /\ applied[handling] = 0
      BY <1>9, <2>4 DEF Drop
    <3>2. handling \in Request /\ "orig" \notin stored
      <4>1. handling \in 0 .. sent /\ sent \in 0 .. Requests /\ handling # None
        BY <1>9 DEF TypeInv, TypeOK
      <4>2. outstanding_orig_time = sent + 1 <=> (asking # None /\ "orig" \in stored)
        BY DEF FreshInv, TimerInv
      <4>3. "orig" \in stored => asking # None
        BY DEF FreshInv, TimerInv
      <4> QED BY <3>1, <4>1, <4>2, <4>3, RequestsAssumption DEF Request, None
    <3>3. Exposed
      BY <1>9, <3>1, <3>2 DEF Exposed
    <3>4. Cardinality(eaten') = Cardinality(eaten) + 1 /\ eaten' \subseteq Request
      BY <1>1, <3>1, <3>2, FS_AddElement, Counted
    <3>5. Cardinality(eaten) + 1 <= Cardinality(Gained)
      BY <1>1, <1>9, <3>3 DEF PaidInv
    <3>6. ~Exposed'
      BY <2>1, <3>1 DEF Exposed, flags
    <3> QED BY <2>2, <3>4, <3>5, <3>6 DEF PaidInv
  <2> QED BY <2>3, <2>4
<1>10. CASE CheckFlag
  <2>1. CASE Drop
    <3>1. ~have_outstanding_request \/ handling # outstanding_orig_time \/ line' # "idle"
      BY <1>10, <2>1 DEF CheckFlag, Drop
    <3> QED BY <1>9, <1>10, <2>1, <3>1 DEF CheckFlag, Drop
  <2>2. CASE ~Drop
    <3>1. UNCHANGED <<applied, eaten, handling, flags, timer>> /\ line' = "orig" /\ line = "flag"
      BY <1>10, <2>2 DEF CheckFlag
    <3>2. Exposed' => Exposed
      BY <3>1 DEF Exposed, flags, timer
    <3> QED BY <3>1, <3>2 DEF PaidInv, Gained
  <2> QED BY <2>1, <2>2
<1>11. CASE CheckOrig
  <2>1. CASE ~Echoes(handling)
    BY <1>9, <1>11, <2>1 DEF CheckOrig, Echoes
  <2>2. CASE Echoes(handling)
    <3>1. UNCHANGED <<applied, eaten, handling, flags, timer>> /\ line' = "clear" /\ line = "orig"
      BY <1>11, <2>2 DEF CheckOrig
    <3>2. Exposed' => Exposed
      BY <3>1 DEF Exposed, flags, timer
    <3> QED BY <3>1, <3>2 DEF PaidInv, Gained
  <2> QED BY <2>1, <2>2
<1>12. CASE ClearFlag
  <2>1. UNCHANGED <<applied, eaten>> /\ line' = "apply"
    BY <1>12 DEF ClearFlag
  <2> QED BY <1>1, <2>1 DEF PaidInv, Gained
<1>13. CASE Apply
  <2>1. /\ UNCHANGED <<eaten, flags, timer>> /\ line = "apply" /\ line' = "idle"
        /\ applied' = [applied EXCEPT ![handling] = @ + 1] /\ applied \in [Request -> Nat]
    BY <1>13 DEF Apply, FreshInv, Types
  <2>2. handling \in Request /\ applied[handling] = 0
    <3>1. handling \in Nat /\ handling # None /\ handling <= sent /\ Unused(handling)
          /\ Unused(sent + 1) /\ sent \in Nat
      BY <2>1 DEF FreshInv, Types, HandlerInv, CheckedIsFresh
    <3>2. handling \in Request
      BY <3>1, RequestsAssumption DEF TypeInv, TypeOK, None, Request
    <3> QED BY <3>1, <3>2 DEF Unused
  <2>3. Gained' = Gained \cup {handling} /\ handling \notin Gained
    BY <2>1, <2>2 DEF Gained
  <2>4. Cardinality(Gained') = Cardinality(Gained) + 1
    BY <2>3, FS_AddElement, Counted DEF Gained
  <2>5. Exposed' => Exposed
    BY <2>1, <2>2 DEF Exposed, flags, timer
  <2> QED BY <1>1, <2>1, <2>4, <2>5 DEF PaidInv
<1> QED BY <1>3, <1>4, <1>5, <1>6, <1>7, <1>8, <1>10, <1>11, <1>12, <1>13
        DEF Next, Callback, EventLoop

\* Where the two stores are seen in order, no more answers are lost to the race
\* than become samples, for any number of requests.
THEOREM RaceIsPaidFor == InOrder /\ Spec => []RaceCostsNoMoreThanItGains
<1> SUFFICES ASSUME InOrder PROVE Spec => []RaceCostsNoMoreThanItGains
  OBVIOUS
<1>1. Init => TypeInv /\ FreshInv /\ PaidInv
  BY InitFresh, InitPaid, TypeInvInit
<1>2. TypeInv /\ FreshInv /\ PaidInv /\ [Next]_vars => (TypeInv /\ FreshInv /\ PaidInv)'
  BY TypeInvNext, NextFresh, NextPaid
<1>3. PaidInv => RaceCostsNoMoreThanItGains
  BY DEF PaidInv, Gained, RaceCostsNoMoreThanItGains
<1> QED BY <1>1, <1>2, <1>3, PTL DEF Spec

===============================================================================
