----------------------- MODULE ServiceControllerProofs -----------------------
(***************************************************************************)
(* TLAPS proof that on_event's two channels balance (ResultsBalance) for  *)
(* every finite set of caller threads.                                    *)
(***************************************************************************)
EXTENDS ServiceController, FiniteSetTheorems, TLAPS

\* The records the request and result channels carry.
ReqRec == [from : Callers, ev : Events]

ResRec == [from : Callers \cup {NoCaller}, ev : Events \cup {"none"},
           val : {"ok", "err", "channel"}]

TypeInv ==
  /\ reqQ \in Seq(ReqRec)
  /\ resQ \in Seq(ResRec)
  /\ pc \in [Callers -> {"idle", "sent", "waiting", "done"}]
  /\ smAlive \in BOOLEAN

\* The inductive invariant: the channels are well formed, and balance.
IInv == TypeInv /\ ResultsBalance

\* Every set of callers is finite and has a cardinality.
LEMMA CallerSetFinite ==
  ASSUME NEW T \in SUBSET Callers
  PROVE  IsFiniteSet(T) /\ Cardinality(T) \in Nat
BY ServiceControllerAssumption, FS_Subset, FS_CardinalityType

\* Initially nobody is in on_event and both channels are empty.
THEOREM InitIInv == Init => IInv
<1> SUFFICES ASSUME Init PROVE IInv
  OBVIOUS
<1>1. Pending = {}
  BY DEF Init, Pending
<1>2. Cardinality(Pending) = 0
  BY <1>1, FS_EmptySet
<1>3. TypeInv
  BY DEF Init, TypeInv
<1> QED
  BY <1>2, <1>3 DEF Init, IInv, ResultsBalance

\* Every step of the callers and of the state machine keeps the balance.
THEOREM NextIInv == IInv /\ [Next]_vars => IInv'
<1> SUFFICES ASSUME IInv, [Next]_vars PROVE IInv'
  OBVIOUS
<1> USE DEF IInv, TypeInv
<1>0. /\ IsFiniteSet(Pending) /\ Cardinality(Pending) \in Nat
      /\ IsFiniteSet(Pending') /\ Cardinality(Pending') \in Nat
  BY CallerSetFinite DEF Pending
<1>1. ASSUME NEW c \in Callers, NEW e \in Events, Send(c, e) PROVE IInv'
  <2>1. CASE smAlive
    <3>1. Pending' = Pending \cup {c} /\ c \notin Pending
      BY <1>1, <2>1 DEF Send, Pending
    <3>2. Cardinality(Pending') = Cardinality(Pending) + 1
      BY <3>1, <1>0, FS_AddElement
    <3>3. TypeInv'
      <4>1. reqQ' = Append(reqQ, [from |-> c, ev |-> e]) /\ resQ' = resQ
            /\ pc' = [pc EXCEPT ![c] = "sent"] /\ smAlive' = smAlive
        BY <1>1, <2>1 DEF Send
      <4>2. [from |-> c, ev |-> e] \in ReqRec
        BY DEF ReqRec
      <4> QED
        BY <4>1, <4>2
    <3>4. Len(reqQ') = Len(reqQ) + 1 /\ resQ' = resQ /\ smAlive'
      BY <1>1, <2>1 DEF Send, ReqRec
    <3>5. ResultsBalance'
      BY <2>1, <3>2, <3>4, <1>0 DEF ResultsBalance
    <3> QED
      BY <3>3, <3>5
  <2>2. CASE ~smAlive
    <3>1. Pending' = Pending
      BY <1>1, <2>2 DEF Send, Pending
    <3> QED
      BY <1>1, <2>2, <3>1 DEF Send, ResultsBalance
  <2> QED
    BY <2>1, <2>2
<1>2. ASSUME NEW c \in Callers, LockRecv(c) PROVE IInv'
  <2>1. Pending' = Pending
    BY <1>2 DEF LockRecv, Pending
  <2> QED
    BY <1>2, <2>1 DEF LockRecv, ResultsBalance
<1>3. ASSUME NEW c \in Callers, Recv(c) PROVE IInv'
  <2>1. Pending' = Pending \ {c} /\ c \in Pending
    BY <1>3 DEF Recv, Pending
  <2>2. Cardinality(Pending') = Cardinality(Pending) - 1
    BY <2>1, <1>0, FS_RemoveElement
  <2>3. TypeInv'
    <3>1. pc' = [pc EXCEPT ![c] = "done"] /\ reqQ' = reqQ /\ smAlive' = smAlive
      BY <1>3 DEF Recv
    <3>2. resQ' \in Seq(ResRec)
      <4>1. CASE resQ # << >>
        <5>1. resQ' = Tail(resQ)
          BY <1>3, <4>1 DEF Recv
        <5> QED
          BY <4>1, <5>1
      <4>2. CASE resQ = << >>
        BY <1>3, <4>2 DEF Recv
      <4> QED
        BY <4>1, <4>2
    <3> QED
      BY <3>1, <3>2
  <2>4. CASE resQ # << >>
    <3>1. Len(resQ') = Len(resQ) - 1 /\ reqQ' = reqQ /\ smAlive' = smAlive
      BY <1>3, <2>4 DEF Recv
    <3> QED
      BY <2>2, <3>1, <1>0, <2>3 DEF ResultsBalance
  <2>5. CASE resQ = << >>
    <3>1. resQ' = resQ /\ reqQ' = reqQ /\ ~smAlive /\ smAlive' = smAlive
      BY <1>3, <2>5 DEF Recv
    <3> QED
      BY <2>2, <2>5, <3>1, <1>0, <2>3 DEF ResultsBalance
  <2> QED
    BY <2>4, <2>5
<1>4. CASE Handle
  <2>1. Pending' = Pending
    BY <1>4 DEF Handle, Pending
  <2>2. Head(reqQ) \in ReqRec
    BY <1>4 DEF Handle
  <2>3. /\ reqQ' = Tail(reqQ)
        /\ resQ' \in {Append(resQ, [from |-> Head(reqQ).from, ev |-> Head(reqQ).ev,
                                      val |-> v]) : v \in {"ok", "err"}}
        /\ smAlive' = smAlive /\ smAlive /\ pc' = pc
    BY <1>4 DEF Handle
  <2>6. reqQ # << >>
    BY <1>4 DEF Handle
  <2>4. TypeInv'
    <3>1. \A v \in {"ok", "err"} :
            [from |-> Head(reqQ).from, ev |-> Head(reqQ).ev, val |-> v] \in ResRec
      BY <2>2 DEF ReqRec, ResRec
    <3>2. reqQ' \in Seq(ReqRec)
      BY <2>3, <2>6
    <3>3. resQ' \in Seq(ResRec)
      <4>1. PICK v \in {"ok", "err"} :
              resQ' = Append(resQ, [from |-> Head(reqQ).from, ev |-> Head(reqQ).ev, val |-> v])
        BY <2>3
      <4> QED
        BY <4>1, <3>1
    <3> QED
      BY <2>3, <3>2, <3>3
  <2>5. Len(reqQ') = Len(reqQ) - 1 /\ Len(resQ') = Len(resQ) + 1
    BY <1>4, <2>2, <2>3 DEF Handle, ResRec, ReqRec
  <2> QED
    BY <2>1, <2>3, <2>4, <2>5 DEF ResultsBalance
<1>5. CASE StateMachineExit
  <2>1. Pending' = Pending
    BY <1>5 DEF StateMachineExit, Pending
  <2>2. reqQ' = << >> /\ resQ' = resQ /\ smAlive' = FALSE /\ smAlive /\ pc' = pc
    BY <1>5 DEF StateMachineExit
  <2>3. Len(resQ) <= Cardinality(Pending)
    BY <2>2, <1>0 DEF ResultsBalance
  <2>4. ResultsBalance'
    BY <2>1, <2>2, <2>3 DEF ResultsBalance
  <2>5. TypeInv'
    <3>1. << >> \in Seq(ReqRec)
      OBVIOUS
    <3> QED
      BY <2>2, <3>1
  <2> QED
    BY <2>4, <2>5
<1>6. CASE LoopExit
  <2>1. Pending' = Pending
    BY <1>6 DEF LoopExit, Pending
  <2> QED
    BY <1>6, <2>1 DEF LoopExit, ResultsBalance
<1>7. CASE UNCHANGED vars
  <2>1. Pending' = Pending
    BY <1>7 DEF vars, Pending
  <2> QED
    BY <1>7, <2>1 DEF vars, ResultsBalance
<1> QED
  BY <1>1, <1>2, <1>3, <1>4, <1>5, <1>6, <1>7 DEF Next

\* on_event's channels never lose, duplicate or leave over a result, for
\* any number of caller threads (the invariant service_on_event checks).
THEOREM BalanceInvariant == Spec => []ResultsBalance
<1>1. IInv => ResultsBalance
  BY DEF IInv
<1> QED
  BY InitIInv, NextIInv, <1>1, PTL DEF Spec
=============================================================================
