---------------------------- MODULE LeaveProofs ----------------------------
(***************************************************************************)
(* For any number of calls that overlap in any way and die anywhere:       *)
(* Leave's types and ChainDecides.  Where the calls on one ledger come one *)
(* at a time and none dies: Leave is the abstract ledger, and ledgers      *)
(* agree with their requests.                                              *)
(***************************************************************************)
EXTENDS LeaveBooks, FiniteSetTheorems, WellFoundedInduction, TLAPS

\* ChainDecides alone is not inductive: an approve call writes back the chain
\* it read earlier, so what it read must have followed its chain too.
ReadsFollowChain ==
    \A c \in Calls : call[c].pc = "write" =>
        /\ call[c].row.status = "requested"
        /\ FollowsChain(call[c].row)

Inductive == TypeOK /\ ChainDecides /\ ReadsFollowChain

-----------------------------------------------------------------------------
(* Lemmas on the operators *)

\* Marking the step a decision is about changes that step and no other.
LEMMA MarkOneStep ==
    ASSUME NEW row \in RequestRow, NEW s \in StepStatus
    PROVE  /\ Mark(row, s) \in Seq(StepStatus)
           /\ Len(Mark(row, s)) = Len(row.chain)
           /\ \A i \in 1..Len(row.chain) :
                 Mark(row, s)[i] = IF i = row.currentStep + 1 THEN s ELSE row.chain[i]
<1>1. Len(row.chain) \in Nat /\ row.chain \in [1..Len(row.chain) -> StepStatus]
  BY DEF RequestRow
<1>2. Mark(row, s) \in [1..Len(row.chain) -> StepStatus]
  BY <1>1 DEF Mark
<1>3. QED
  BY <1>1, <1>2 DEF Mark

\* A new chain is a sequence of undecided steps.
LEMMA NewChainType ==
    ASSUME NEW n \in Nat
    PROVE  /\ NewChain(n) \in Seq(StepStatus)
           /\ Len(NewChain(n)) = n
           /\ \A i \in 1..n : NewChain(n)[i] = "pending"
<1>1. NewChain(n) \in [1..n -> StepStatus]
  BY DEF NewChain, StepStatus
<1>2. QED
  BY <1>1 DEF NewChain

\* The locals of a call are well typed wherever it stands.
LEMMA CallTypes ==
    /\ Fresh \in CallState
    /\ Finished \in CallState
    /\ Finished.pc = "done"
    /\ NoRequest \in RequestRow
    /\ NoBalance \in BalanceRow
<1>1. (CHOOSE r \in Requests : TRUE) \in Requests
  BY LeaveAssumption DEF LeaveAssumption
<1>2. NoRequest \in RequestRow /\ NoBalance \in BalanceRow /\ NoDelta \in Delta
  BY DEF NoRequest, RequestRow, RequestStatus, NoBalance, BalanceRow, NoDelta, Delta
<1>3. QED
  BY <1>1, <1>2 DEF Fresh, Finished, CallState, Op

\* A call that has read its row holds well-typed locals.
LEMMA LocalsType ==
    ASSUME NEW at \in {"write", "find"}, NEW op \in Op, NEW r \in Requests,
           NEW row \in RequestRow, NEW d \in Delta
    PROVE  Locals(at, op, r, row, d) \in CallState
  BY CallTypes DEF Locals, CallState

\* What a decision moves on the ledger is a pair of integers.
LEMMA DeltaTypes ==
    ASSUME NEW r \in Requests
    PROVE  /\ Reserve(r) \in Delta /\ Take(r) \in Delta /\ Release(r) \in Delta
           /\ \A s : GiveBack(r, s) \in Delta
<1>1. Days[r] \in Nat
  BY LeaveAssumption DEF LeaveAssumption
<1>2. QED
  BY <1>1 DEF Reserve, Take, Release, GiveBack, Delta

\* Whatever was found, the row written holds no negative amount.
LEMMA AdjustedType ==
    ASSUME NEW now \in BalanceRow, NEW found \in BalanceRow, NEW d \in Delta
    PROVE  Adjusted(now, found, d) \in BalanceRow
<1>1. \A n \in Int : Floor(n) \in Nat
  BY DEF Floor
<1>2. /\ found.taken + d.taken \in Int
      /\ found.pending + d.pending \in Int
  BY DEF BalanceRow, Delta
<1>3. /\ Floor(found.taken + d.taken) \in Nat
      /\ Floor(found.pending + d.pending) \in Nat
  BY <1>1, <1>2
<1>4. QED
  BY <1>3 DEF Adjusted, BalanceRow

-----------------------------------------------------------------------------
(* The inductive invariant *)

LEMMA InductiveInit == Init => Inductive
<1> SUFFICES ASSUME Init PROVE Inductive
  OBVIOUS
<1>1. TypeOK
  BY CallTypes DEF Init, TypeOK
<1>2. ChainDecides
  BY DEF Init, ChainDecides, FollowsChain, NoRequest
<1>3. ReadsFollowChain
  BY DEF Init, ReadsFollowChain, Fresh
<1>4. QED
  BY <1>1, <1>2, <1>3 DEF Inductive

\* A step that writes one request and leaves the others alone, and a call that
\* starts, moves or ends: what each must show is about the one it writes.
LEMMA OneRequestWritten ==
    ASSUME ChainDecides, NEW r \in Requests, NEW row,
           request \in [Requests -> RequestRow], FollowsChain(row),
           request' = [request EXCEPT ![r] = row]
    PROVE  ChainDecides'
<1> SUFFICES ASSUME NEW q \in Requests PROVE FollowsChain(request'[q])
  BY DEF ChainDecides, FollowsChain
<1>1. CASE q = r
  BY <1>1
<1>2. CASE q # r
  BY <1>2 DEF ChainDecides
<1>3. QED
  BY <1>1, <1>2

LEMMA OneCallWritten ==
    ASSUME ReadsFollowChain, NEW c \in Calls, NEW locals \in CallState,
           call \in [Calls -> CallState],
           locals.pc = "write" => /\ locals.row.status = "requested"
                                  /\ FollowsChain(locals.row),
           call' = [call EXCEPT ![c] = locals]
    PROVE  /\ ReadsFollowChain'
           /\ call' \in [Calls -> CallState]
<1>1. call' \in [Calls -> CallState]
  OBVIOUS
<1>2. SUFFICES ASSUME NEW d \in Calls, call'[d].pc = "write"
               PROVE  /\ call'[d].row.status = "requested"
                      /\ FollowsChain(call'[d].row)
  BY <1>1 DEF ReadsFollowChain, FollowsChain
<1>3. CASE d = c
  BY <1>2, <1>3
<1>4. CASE d # c
  BY <1>2, <1>4 DEF ReadsFollowChain
<1>5. QED
  BY <1>3, <1>4

-----------------------------------------------------------------------------
(* One lemma per action *)

LEMMA CreateKeeps ==
    ASSUME Inductive, NEW c \in Calls, NEW r \in Requests, NEW n \in ChainLengths,
           CreateRequest(c, r, n)
    PROVE  Inductive'
<1> DEFINE row == [status |-> "requested", chain |-> NewChain(n), currentStep |-> 0]
           locals == Locals("find", "create", r, NoRequest, Reserve(r))
<1>1. n \in Nat /\ n > 0
  BY LeaveAssumption DEF LeaveAssumption
<1>2. row \in RequestRow /\ FollowsChain(row)
  BY <1>1, NewChainType DEF RequestRow, RequestStatus, FollowsChain
<1>3. locals \in CallState /\ locals.pc = "find"
  <2>1. Reserve(r) \in Delta
    BY DeltaTypes
  <2>2. NoRequest \in RequestRow
    BY CallTypes
  <2>3. locals \in CallState
    BY <2>1, <2>2, LocalsType DEF Op
  <2>4. QED
    BY <2>3 DEF Locals
<1>4. /\ request' = [request EXCEPT ![r] = row]
      /\ call' = [call EXCEPT ![c] = locals]
      /\ balance' = balance
  BY DEF CreateRequest
<1> HIDE DEF row, locals
<1>5. ChainDecides'
  BY <1>2, <1>4, OneRequestWritten DEF Inductive, TypeOK
<1>6. ReadsFollowChain' /\ call' \in [Calls -> CallState]
  BY <1>3, <1>4, OneCallWritten DEF Inductive, TypeOK
<1>7. QED
  BY <1>2, <1>4, <1>5, <1>6 DEF Inductive, TypeOK

LEMMA ReadKeeps ==
    ASSUME Inductive, NEW c \in Calls, NEW r \in Requests,
           ApproveRead(c, r) \/ RejectRead(c, r) \/ CancelRead(c, r)
    PROVE  Inductive'
<1>1. /\ request[r] \in RequestRow
      /\ FollowsChain(request[r])
      /\ request' = request
      /\ balance' = balance
  BY DEF Inductive, TypeOK, ChainDecides, ApproveRead, RejectRead, CancelRead
<1>2. ChainDecides'
  BY <1>1 DEF Inductive, ChainDecides
<1>3. CASE ApproveRead(c, r)
  <2> DEFINE locals == Locals("write", "approve", r, request[r], Take(r))
  <2>1. Take(r) \in Delta
    BY DeltaTypes
  <2>2. locals \in CallState
    BY <1>1, <2>1, LocalsType DEF Op
  <2>3. locals.row.status = "requested" /\ FollowsChain(locals.row)
    BY <1>1, <1>3 DEF Locals, ApproveRead
  <2>4. call' = [call EXCEPT ![c] = locals]
    BY <1>3 DEF ApproveRead
  <2> HIDE DEF locals
  <2>5. ReadsFollowChain' /\ call' \in [Calls -> CallState]
    BY <2>2, <2>3, <2>4, OneCallWritten DEF Inductive, TypeOK
  <2>6. QED
    BY <1>1, <1>2, <2>5 DEF Inductive, TypeOK
<1>4. CASE RejectRead(c, r)
  <2> DEFINE locals == Locals("find", "reject", r, request[r], Release(r))
  <2>1. Release(r) \in Delta
    BY DeltaTypes
  <2>2. locals \in CallState
    BY <1>1, <2>1, LocalsType DEF Op
  <2>3. locals.pc = "find"
    BY DEF Locals
  <2>4. call' = [call EXCEPT ![c] = locals]
    BY <1>4 DEF RejectRead
  <2> HIDE DEF locals
  <2>5. ReadsFollowChain' /\ call' \in [Calls -> CallState]
    BY <2>2, <2>3, <2>4, OneCallWritten DEF Inductive, TypeOK
  <2>6. QED
    BY <1>1, <1>2, <2>5 DEF Inductive, TypeOK
<1>5. CASE CancelRead(c, r)
  <2> DEFINE locals == Locals("find", "cancel", r, request[r],
                              GiveBack(r, request[r].status))
  <2>1. GiveBack(r, request[r].status) \in Delta
    BY DeltaTypes
  <2>2. locals \in CallState
    BY <1>1, <2>1, LocalsType DEF Op
  <2>3. locals.pc = "find"
    BY DEF Locals
  <2>4. call' = [call EXCEPT ![c] = locals]
    BY <1>5 DEF CancelRead
  <2> HIDE DEF locals
  <2>5. ReadsFollowChain' /\ call' \in [Calls -> CallState]
    BY <2>2, <2>3, <2>4, OneCallWritten DEF Inductive, TypeOK
  <2>6. QED
    BY <1>1, <1>2, <2>5 DEF Inductive, TypeOK
<1>6. QED
  BY <1>3, <1>4, <1>5

\* The chain an approve call writes follows the step and status it writes with
\* it, because the chain it read did.
LEMMA ApproveKeeps ==
    ASSUME Inductive, NEW c \in Calls, ApproveWrite(c)
    PROVE  Inductive'
<1> DEFINE read == call[c].row
           nextStep == read.currentStep + 1
           final == nextStep >= Len(read.chain)
           row == [status |-> IF final THEN "approved" ELSE "requested",
                   chain |-> Mark(read, "approved"), currentStep |-> nextStep]
           locals == IF final THEN [call[c] EXCEPT !.pc = "find"] ELSE Finished
<1>1. /\ call[c] \in CallState
      /\ read \in RequestRow
      /\ call[c].req \in Requests
      /\ read.status = "requested"
      /\ FollowsChain(read)
  BY DEF Inductive, TypeOK, CallState, ReadsFollowChain, ApproveWrite
<1>2. /\ Mark(read, "approved") \in Seq(StepStatus)
      /\ Len(Mark(read, "approved")) = Len(read.chain)
      /\ \A i \in 1..Len(read.chain) :
            Mark(read, "approved")[i] = IF i = read.currentStep + 1 THEN "approved"
                                                                   ELSE read.chain[i]
  BY <1>1, MarkOneStep DEF StepStatus
<1>3. /\ read.currentStep \in Nat /\ Len(read.chain) \in Nat
      /\ read.currentStep < Len(read.chain)
      /\ \A i \in 1..Len(read.chain) :
            read.chain[i] = IF i <= read.currentStep THEN "approved" ELSE "pending"
  BY <1>1 DEF FollowsChain, RequestRow
<1>4. row \in RequestRow
  BY <1>2, <1>3 DEF RequestRow, RequestStatus
<1>5. FollowsChain(row)
  <2>1. \A i \in 1..Len(read.chain) :
          row.chain[i] = IF i <= row.currentStep THEN "approved" ELSE "pending"
    BY <1>2, <1>3
  <2>2. QED
    BY <1>2, <1>3, <2>1 DEF FollowsChain
<1>6. locals \in CallState /\ locals.pc # "write"
  BY <1>1, CallTypes DEF CallState
<1>7. /\ request' = [request EXCEPT ![call[c].req] = row]
      /\ call' = [call EXCEPT ![c] = locals]
      /\ balance' = balance
  BY DEF ApproveWrite
<1> HIDE DEF row, locals
<1>8. ChainDecides'
  BY <1>1, <1>5, <1>7, OneRequestWritten DEF Inductive, TypeOK
<1>9. ReadsFollowChain' /\ call' \in [Calls -> CallState]
  BY <1>6, <1>7, OneCallWritten DEF Inductive, TypeOK
<1>10. QED
  BY <1>1, <1>4, <1>7, <1>8, <1>9 DEF Inductive, TypeOK

\* reject and cancel write a closed status, of which ChainDecides asks nothing.
LEMMA CloseKeeps ==
    ASSUME Inductive, NEW c \in Calls, RejectWrite(c) \/ CancelWrite(c)
    PROVE  Inductive'
<1>1. /\ call[c].req \in Requests
      /\ call[c].row \in RequestRow
      /\ request[call[c].req] \in RequestRow
  BY DEF Inductive, TypeOK, CallState
<1>2. PICK row \in RequestRow :
        /\ row.status \in {"rejected", "cancelled"}
        /\ request' = [request EXCEPT ![call[c].req] = row]
  <2>1. CASE RejectWrite(c)
    <3> DEFINE row == [request[call[c].req] EXCEPT !.chain = Mark(call[c].row, "rejected"),
                                                   !.status = "rejected"]
    <3>1. Mark(call[c].row, "rejected") \in Seq(StepStatus)
      BY <1>1, MarkOneStep DEF StepStatus
    <3>2. row \in RequestRow /\ row.status = "rejected"
      BY <1>1, <3>1 DEF RequestRow, RequestStatus
    <3>3. request' = [request EXCEPT ![call[c].req] = row]
      BY <1>1, <2>1 DEF RejectWrite, Inductive, TypeOK
    <3>4. QED
      BY <3>2, <3>3
  <2>2. CASE CancelWrite(c)
    <3> DEFINE row == [request[call[c].req] EXCEPT !.status = "cancelled"]
    <3>1. row \in RequestRow /\ row.status = "cancelled"
      BY <1>1 DEF RequestRow, RequestStatus
    <3>2. request' = [request EXCEPT ![call[c].req] = row]
      BY <2>2 DEF CancelWrite
    <3>3. QED
      BY <3>1, <3>2
  <2>3. QED
    BY <2>1, <2>2
<1>3. FollowsChain(row)
  BY <1>2 DEF FollowsChain
<1>4. ChainDecides'
  BY <1>1, <1>2, <1>3, OneRequestWritten DEF Inductive, TypeOK
<1>5. call' = [call EXCEPT ![c] = Finished] /\ balance' = balance
  BY DEF RejectWrite, CancelWrite
<1>6. ReadsFollowChain' /\ call' \in [Calls -> CallState]
  BY <1>5, CallTypes, OneCallWritten DEF Inductive, TypeOK
<1>7. QED
  BY <1>1, <1>2, <1>4, <1>5, <1>6 DEF Inductive, TypeOK

LEMMA AdjustKeeps ==
    ASSUME Inductive, NEW c \in Calls, FindBalance(c) \/ StoreBalance(c)
    PROVE  Inductive'
<1> DEFINE l == LedgerOf[call[c].req]
<1>1. call[c] \in CallState
  BY DEF Inductive, TypeOK
<1>2. l \in Ledgers /\ balance[l] \in BalanceRow
  BY <1>1, LeaveAssumption DEF LeaveAssumption, CallState, Inductive, TypeOK
<1>3. request' = request /\ ChainDecides'
  BY DEF FindBalance, StoreBalance, Inductive, ChainDecides
<1>4. CASE FindBalance(c)
  <2> DEFINE locals == [call[c] EXCEPT !.pc = "store", !.found = balance[l]]
  <2>1. locals \in CallState /\ locals.pc = "store"
    BY <1>1, <1>2 DEF CallState
  <2>2. call' = [call EXCEPT ![c] = locals] /\ balance' = balance
    BY <1>1, <1>4 DEF FindBalance, Inductive, TypeOK
  <2> HIDE DEF locals
  <2>3. ReadsFollowChain' /\ call' \in [Calls -> CallState]
    BY <2>1, <2>2, OneCallWritten DEF Inductive, TypeOK
  <2>4. QED
    BY <1>3, <2>2, <2>3 DEF Inductive, TypeOK
<1>5. CASE StoreBalance(c)
  <2> DEFINE locals == IF call[c].op \in {"reject", "cancel"}
                       THEN [call[c] EXCEPT !.pc = "close"] ELSE Finished
  <2>1. locals \in CallState /\ locals.pc # "write"
    BY <1>1, CallTypes DEF CallState
  <2>2. call' = [call EXCEPT ![c] = locals]
    BY <1>5 DEF StoreBalance
  <2>3. Adjusted(balance[l], call[c].found, call[c].delta) \in BalanceRow
    BY <1>1, <1>2, AdjustedType DEF CallState
  <2>4. balance' \in [Ledgers -> BalanceRow]
    BY <1>2, <1>5, <2>3 DEF StoreBalance, Inductive, TypeOK
  <2> HIDE DEF locals
  <2>5. ReadsFollowChain' /\ call' \in [Calls -> CallState]
    BY <2>1, <2>2, OneCallWritten DEF Inductive, TypeOK
  <2>6. QED
    BY <1>3, <2>4, <2>5 DEF Inductive, TypeOK
<1>6. QED
  BY <1>4, <1>5

LEMMA SetBalanceKeeps ==
    ASSUME Inductive, NEW l \in Ledgers, NEW e \in Entitlements, SetBalance(l, e)
    PROVE  Inductive'
<1>1. e \in Nat
  BY LeaveAssumption DEF LeaveAssumption
<1>2. balance' \in [Ledgers -> BalanceRow]
  BY <1>1 DEF SetBalance, Inductive, TypeOK, BalanceRow
<1>3. QED
  BY <1>2 DEF SetBalance, Inductive, TypeOK, ChainDecides, ReadsFollowChain

LEMMA CrashKeeps ==
    ASSUME Inductive, NEW c \in Calls, Crash(c)
    PROVE  Inductive'
<1>1. /\ call' = [call EXCEPT ![c] = Finished]
      /\ request' = request /\ balance' = balance
  BY DEF Crash
<1>2. ReadsFollowChain' /\ call' \in [Calls -> CallState]
  BY <1>1, CallTypes, OneCallWritten DEF Inductive, TypeOK
<1>3. QED
  BY <1>1, <1>2 DEF Inductive, TypeOK, ChainDecides

LEMMA InductiveStep == Inductive /\ [Next]_vars => Inductive'
<1> SUFFICES ASSUME Inductive, [Next]_vars PROVE Inductive'
  OBVIOUS
<1>1. ASSUME NEW c \in Calls, NEW r \in Requests, NEW n \in ChainLengths,
             CreateRequest(c, r, n)
      PROVE  Inductive'
  BY <1>1, CreateKeeps
<1>2. ASSUME NEW c \in Calls, NEW r \in Requests,
             ApproveRead(c, r) \/ RejectRead(c, r) \/ CancelRead(c, r)
      PROVE  Inductive'
  BY <1>2, ReadKeeps
<1>3. ASSUME NEW c \in Calls, Proceed(c) \/ Crash(c)
      PROVE  Inductive'
  BY <1>3, ApproveKeeps, CloseKeeps, AdjustKeeps, CrashKeeps DEF Proceed
<1>4. ASSUME NEW l \in Ledgers, NEW e \in Entitlements, SetBalance(l, e)
      PROVE  Inductive'
  BY <1>4, SetBalanceKeeps
<1>5. CASE UNCHANGED vars
  BY <1>5 DEF vars, Inductive, TypeOK, ChainDecides, ReadsFollowChain
<1>6. QED
  BY <1>1, <1>2, <1>3, <1>4, <1>5 DEF Next

-----------------------------------------------------------------------------
(* Theorems *)

\* Every row the service writes is a row of its tables, and every call's
\* locals are what its handler may hold.
THEOREM TypeCorrect == Spec => []TypeOK
<1>1. Inductive => TypeOK
  BY DEF Inductive
<1>2. QED
  BY <1>1, InductiveInit, InductiveStep, PTL DEF Spec

\* However many approve, reject and cancel calls overlap or die, an approved
\* request went through its whole chain (LeaveService.approve).
THEOREM ApprovalNeedsWholeChain == Spec => []ChainDecides
<1>1. Inductive => ChainDecides
  BY DEF Inductive
<1>2. QED
  BY <1>1, InductiveInit, InductiveStep, PTL DEF Spec
-----------------------------------------------------------------------------
(* Sums.  T adds the days of any set of requests up.                       *)

AddsIn(R, T) ==
    /\ T \in [SUBSET R -> Nat] /\ T[{}] = 0
    /\ \A S \in SUBSET R, r \in R : r \notin S => T[S \cup {r}] = T[S] + Days[r]

LEMMA AddsOneMore ==
    ASSUME NEW R \in SUBSET Requests, NEW T, AddsIn(R, T), NEW x \in Requests, x \notin R
    PROVE  \E U : AddsIn(R \cup {x}, U)
<1> DEFINE D == R \cup {x}
           More(S) == IF x \in S THEN Days[x] ELSE 0
           U == [S \in SUBSET D |-> T[S \ {x}] + More(S)]
<1>1. \A r \in D : Days[r] \in Nat
  BY LeaveAssumption DEF LeaveAssumption
<1>2. \A S \in SUBSET D : S \ {x} \in SUBSET R
  OBVIOUS
<1>3. ASSUME NEW S \in SUBSET D
      PROVE  /\ T[S \ {x}] \in Nat /\ More(S) \in Nat
             /\ T[S \ {x}] + More(S) \in Nat /\ U[S] = T[S \ {x}] + More(S)
  <2>1. T[S \ {x}] \in Nat
    BY <1>2 DEF AddsIn
  <2>2. More(S) \in Nat
    BY <1>1
  <2> HIDE DEF More
  <2>3. QED
    BY <2>1, <2>2
<1>4. U \in [SUBSET D -> Nat]
  <2> HIDE DEF More
  <2>1. QED
    BY <1>3
<1>5. U[{}] = 0
  <2>1. {} \ {x} = {} /\ {} \in SUBSET D
    OBVIOUS
  <2>2. QED
    BY <2>1 DEF AddsIn
<1>6. ASSUME NEW S \in SUBSET D, NEW r \in D, r \notin S PROVE U[S \cup {r}] = U[S] + Days[r]
  <2>1. S \cup {r} \in SUBSET D
    OBVIOUS
  <2>2. CASE r = x
    <3>1. (S \cup {r}) \ {x} = S \ {x}
      BY <2>2
    <3>2. More(S \cup {r}) = Days[r] /\ More(S) = 0
      BY <1>6, <2>2
    <3>3. U[S \cup {r}] = T[S \ {x}] + More(S \cup {r}) /\ U[S] = T[S \ {x}] + More(S)
      BY <1>3, <2>1, <3>1
    <3>4. T[S \ {x}] \in Nat /\ Days[r] \in Nat
      BY <1>1, <1>3
    <3> HIDE DEF U, More
    <3>5. QED
      BY <3>2, <3>3, <3>4
  <2>3. CASE r # x
    <3>1. (S \cup {r}) \ {x} = (S \ {x}) \cup {r} /\ r \in R /\ r \notin S \ {x}
      BY <1>6, <2>3
    <3>2. T[(S \ {x}) \cup {r}] = T[S \ {x}] + Days[r]
      BY <1>2, <3>1 DEF AddsIn
    <3>3. More(S \cup {r}) = More(S)
      BY <2>3
    <3>4. U[S \cup {r}] = T[(S \ {x}) \cup {r}] + More(S \cup {r}) /\ U[S] = T[S \ {x}] + More(S)
      BY <1>3, <2>1, <3>1
    <3>5. T[S \ {x}] \in Nat /\ Days[r] \in Nat /\ More(S) \in Nat
      BY <1>1, <1>3
    <3> HIDE DEF U, More
    <3>6. QED
      BY <3>2, <3>3, <3>4, <3>5
  <2>4. QED
    BY <2>2, <2>3
<1> HIDE DEF U
<1>7. AddsIn(D, U)
  <2> HIDE DEF D
  <2>1. QED
    BY <1>4, <1>5, <1>6 DEF AddsIn
<1>8. QED
  BY <1>7

\* One request after the other: a least number of them that cannot be added up would have
\* one less that can.
LEMMA DaysAddUp ==
    ASSUME IsFiniteSet(Requests)
    PROVE  \E T : AddsIn(Requests, T)
<1> DEFINE n == Cardinality(Requests)
<1>1. n \in Nat /\ ExistsBijection(1..n, Requests)
  BY FS_CardinalityType
<1>2. PICK f \in Bijection(1..n, Requests) : TRUE
  BY <1>1 DEF ExistsBijection
<1>3. /\ f \in [1..n -> Requests]
      /\ \A i, j \in 1..n : f[i] = f[j] => i = j
      /\ \A r \in Requests : \E i \in 1..n : f[i] = r
  BY <1>2 DEF Bijection, Injection, Surjection, IsInjective
<1> DEFINE Upto(k) == {f[i] : i \in 1..k}
           Bad == {k \in 0..n : ~ \E T : AddsIn(Upto(k), T)}
<1> HIDE DEF n
<1>4. ASSUME Bad # {} PROVE FALSE
  <2>1. Bad \subseteq Nat
    OBVIOUS
  <2>2. PICK k \in Bad : \A m \in Bad : ~ (<<m, k>> \in OpToRel(<, Nat))
    BY <1>4, <2>1, WFMin, NatLessThanWellFounded
  <2>3. \A m \in Bad : ~ (m < k)
    BY <2>1, <2>2 DEF OpToRel
  <2>4. CASE k = 0
    <3>1. Upto(0) = {}
      OBVIOUS
    <3> DEFINE Z == [S \in SUBSET {} |-> 0]
    <3>2. AddsIn({}, Z)
      BY DEF AddsIn
    <3>3. QED
      BY <2>4, <3>1, <3>2
  <2>5. CASE k # 0
    <3>0. k \in 0..n /\ k - 1 \in 0..n /\ k \in 1..n /\ k - 1 < k
      BY <1>1, <2>5
    <3>1. k - 1 \notin Bad
      <4> HIDE DEF Bad
      <4>1. QED
        BY <2>3, <3>0
    <3>2. PICK T : AddsIn(Upto(k - 1), T)
      BY <3>0, <3>1
    <3>3. Upto(k) = Upto(k - 1) \cup {f[k]}
      BY <1>1, <3>0
    <3>4. f[k] \notin Upto(k - 1) /\ f[k] \in Requests /\ Upto(k - 1) \in SUBSET Requests
      BY <1>1, <1>3, <3>0
    <3> HIDE DEF Upto
    <3>5. \E U : AddsIn(Upto(k), U)
      BY <3>2, <3>3, <3>4, AddsOneMore
    <3>6. QED
      BY <3>5
  <2>6. QED
    BY <2>4, <2>5
<1>5. Upto(n) = Requests
  BY <1>3
<1>6. \E T : AddsIn(Upto(n), T)
  <2>1. n \in 0..n
    BY <1>1
  <2>2. QED
    BY <1>4, <2>1
<1>7. QED
  BY <1>5, <1>6

-----------------------------------------------------------------------------
(* The refinement.  What makes a ledger agree with its requests is what    *)
(* the one call at work on it knows.                                       *)

InTurn ==
    \A c, d \in Calls :
        Active(c) /\ Active(d) /\ LedgerOf[call[c].req] = LedgerOf[call[d].req] => c = d

Undoing(c) ==
    LET r == call[c].req
        s == request[r].status
    IN  \/ call[c].op = "reject" /\ s = "requested" /\ call[c].delta = Release(r)
        \/ call[c].op = "cancel" /\ s \in {"requested", "approved"} /\ call[c].delta = GiveBack(r, s)

Moving(c) ==
    LET r == call[c].req
        s == request[r].status
    IN  \/ call[c].op = "create" /\ s = "requested" /\ call[c].delta = Reserve(r)
        \/ call[c].op = "approve" /\ s = "approved" /\ call[c].delta = Take(r)

Knows(c) ==
    /\ call[c].pc = "write" =>
          /\ call[c].op = "approve" /\ call[c].delta = Take(call[c].req)
          /\ call[c].row = request[call[c].req] /\ call[c].row.status = "requested"
    /\ call[c].pc \in {"find", "store"} => Moving(c) \/ Undoing(c)
    /\ call[c].pc = "close" => Undoing(c)
    /\ call[c].pc = "store" => call[c].found = balance[LedgerOf[call[c].req]]
CallsKnow == \A c \in Calls : Knows(c)

RequestsOf(l, s) == {r \in Requests : LedgerOf[r] = l /\ request[r].status = s}
InBooks(T) ==
    \A l \in Ledgers : /\ SettledTaken(l) = T[RequestsOf(l, "approved")]
                       /\ SettledPending(l) = T[RequestsOf(l, "requested")]

Settling(T) == Inductive /\ InTurn /\ CallsKnow /\ InBooks(T)

\* What the days of a ledger's open or granted requests come to when a request moves.
DaysIf(r, b) == IF b THEN Days[r] ELSE 0

LEMMA DaysMove ==
    ASSUME NEW T, AddsIn(Requests, T), NEW r \in Requests, NEW v,
           \A q \in Requests : q # r => request'[q].status = request[q].status
    PROVE  \A l \in Ledgers :
              /\ T[RequestsOf(l, v)] \in Nat
              /\ T[RequestsOf(l, v)]' =
                    IF l = LedgerOf[r]
                        THEN T[RequestsOf(l, v)] + DaysIf(r, request'[r].status = v)
                                                 - DaysIf(r, request[r].status = v)
                        ELSE T[RequestsOf(l, v)]
<1> SUFFICES ASSUME NEW l \in Ledgers
             PROVE  /\ T[RequestsOf(l, v)] \in Nat
                    /\ T[RequestsOf(l, v)'] =
                          IF l = LedgerOf[r]
                              THEN T[RequestsOf(l, v)] + DaysIf(r, request'[r].status = v)
                                                       - DaysIf(r, request[r].status = v)
                              ELSE T[RequestsOf(l, v)]
  OBVIOUS
<1> DEFINE Old == RequestsOf(l, v)
           New == RequestsOf(l, v)'
           S == Old \ {r}
<1>1. Old \in SUBSET Requests /\ New \in SUBSET Requests /\ S \in SUBSET Requests /\ r \notin S
  BY DEF RequestsOf
<1>2. /\ T[Old] \in Nat /\ T[New] \in Nat /\ T[S] \in Nat /\ Days[r] \in Nat
      /\ T[S \cup {r}] = T[S] + Days[r]
  BY <1>1, LeaveAssumption DEF LeaveAssumption, AddsIn
<1>3. l = LedgerOf[r] => /\ Old = IF request[r].status = v THEN S \cup {r} ELSE S
                         /\ New = IF request'[r].status = v THEN S \cup {r} ELSE S
  BY DEF RequestsOf
<1>4. l # LedgerOf[r] => New = Old
  BY DEF RequestsOf
<1> HIDE DEF Old, New, S
<1>5. CASE l = LedgerOf[r]
  BY <1>2, <1>3, <1>5 DEF DaysIf, Old, New
<1>6. CASE l # LedgerOf[r]
  BY <1>2, <1>4, <1>6 DEF Old, New
<1>7. QED
  BY <1>5, <1>6

\* Who is at work on which ledger, and what the ledger is owed, when one call moves.
LEMMA OneMoves ==
    ASSUME InTurn, NEW c \in Calls, NEW l \in Ledgers, NEW x \in CallState,
           call \in [Calls -> CallState], call' = [call EXCEPT ![c] = x],
           Active(c) => LedgerOf[call[c].req] = l,
           ~Active(c) => CallsOn(l) = {},
           x.pc # "idle", x.pc # "done" => LedgerOf[x.req] = l
    PROVE  /\ InTurn'
           /\ \A k \in Ledgers : k # l => InHand(k)' = InHand(k)
           /\ Active(c) => InHand(l) = Owed(c)
           /\ ~Active(c) => InHand(l) = NoDelta
           /\ x.pc # "done" => InHand(l)' = Owed(c)'
           /\ x.pc = "done" => InHand(l)' = NoDelta
<1>1. call'[c] = x /\ \A d \in Calls : d # c => call'[d] = call[d]
  OBVIOUS
<1>2. CallsOn(l) \subseteq {c}
  BY DEF CallsOn, InTurn
<1>3. CallsOn(l)' = IF x.pc = "done" THEN {} ELSE {c}
  BY <1>1, <1>2 DEF CallsOn, Active
<1>4. ASSUME NEW k \in Ledgers, k # l
      PROVE  CallsOn(k)' = CallsOn(k) /\ c \notin CallsOn(k)
  BY <1>1, <1>4 DEF CallsOn, Active
<1>5. InTurn'
  <2> SUFFICES ASSUME NEW a \in Calls, NEW b \in Calls, Active(a)', Active(b)',
                      LedgerOf[call'[a].req] = LedgerOf[call'[b].req]
               PROVE  a = b
    BY DEF InTurn
  <2>1. CASE a # c /\ b # c
    BY <1>1, <2>1 DEF InTurn, Active
  <2>2. CASE a = c /\ b # c
    <3>1. b \in CallsOn(l)
      BY <1>1, <2>2 DEF CallsOn, Active
    <3>2. QED
      BY <1>2, <2>2, <3>1
  <2>3. CASE a # c /\ b = c
    <3>1. a \in CallsOn(l)
      BY <1>1, <2>3 DEF CallsOn, Active
    <3>2. QED
      BY <1>2, <2>3, <3>1
  <2>4. QED
    BY <2>1, <2>2, <2>3
<1>6. ASSUME NEW k \in Ledgers, k # l PROVE InHand(k)' = InHand(k)
  <2>1. CASE CallsOn(k) = {}
    BY <1>4, <1>6, <2>1 DEF InHand
  <2>2. CASE CallsOn(k) # {}
    <3>1. PICK d \in CallsOn(k) : d = CHOOSE e \in CallsOn(k) : TRUE
      BY <2>2
    <3>2. call'[d] = call[d]
      BY <1>1, <1>4, <1>6, <3>1 DEF CallsOn
    <3>3. Owed(d)' = Owed(d)
      BY <3>2 DEF Owed
    <3>4. InHand(k) = Owed(d) /\ InHand(k)' = Owed(d)'
      BY <1>4, <1>6, <2>2, <3>1 DEF InHand
    <3>5. QED
      BY <3>3, <3>4
  <2>3. QED
    BY <2>1, <2>2
<1>7. Active(c) => CallsOn(l) = {c}
  BY <1>2 DEF CallsOn
<1>8. /\ Active(c) => InHand(l) = Owed(c)
      /\ ~Active(c) => InHand(l) = NoDelta
  BY <1>7 DEF InHand
<1>9. /\ x.pc # "done" => InHand(l)' = Owed(c)'
      /\ x.pc = "done" => InHand(l)' = NoDelta
  BY <1>3 DEF InHand
<1>10. QED
  BY <1>5, <1>6, <1>8, <1>9

\* The requests and amounts the abstract ledger sees.
Statuses == [r \in Requests |-> request[r].status]
Decision(s, t) ==
    \/ s = t
    \/ s = "none" /\ t = "requested"
    \/ s = "requested" /\ t \in {"approved", "rejected", "cancelled"}
    \/ s = "approved" /\ t = "cancelled"

\* A step that moves on a request's ledger what its change of status is worth, and nothing
\* on the others, keeps the books and is a decision of the abstract ledger.
LEMMA Decides ==
    ASSUME NEW T, AddsIn(Requests, T), InBooks(T), NEW r \in Requests,
           \A q \in Requests : q # r => request'[q].status = request[q].status,
           Decision(request[r].status, request'[r].status),
           \A l \in Ledgers : l # LedgerOf[r] => /\ SettledTaken(l)' = SettledTaken(l)
                                                 /\ SettledPending(l)' = SettledPending(l),
           SettledTaken(LedgerOf[r])' = SettledTaken(LedgerOf[r])
                                          + DaysIf(r, request'[r].status = "approved")
                                          - DaysIf(r, request[r].status = "approved"),
           SettledPending(LedgerOf[r])' = SettledPending(LedgerOf[r])
                                            + DaysIf(r, request'[r].status = "requested")
                                            - DaysIf(r, request[r].status = "requested")
    PROVE  InBooks(T)' /\ [Ledger!Next]_(Ledger!vars)
<1> DEFINE l == LedgerOf[r]
           taken == [k \in Ledgers |-> SettledTaken(k)]
           pending == [k \in Ledgers |-> SettledPending(k)]
<1>1. l \in Ledgers /\ Days[r] \in Nat
  BY LeaveAssumption DEF LeaveAssumption
<1>2. ASSUME NEW v, v \in {"approved", "requested"}, NEW k \in Ledgers
      PROVE  /\ T[RequestsOf(k, v)] \in Nat
             /\ k # l => T[RequestsOf(k, v)]' = T[RequestsOf(k, v)]
             /\ k = l => T[RequestsOf(k, v)]' = T[RequestsOf(k, v)]
                             + DaysIf(r, request'[r].status = v) - DaysIf(r, request[r].status = v)
  BY <1>1, DaysMove
<1>3. InBooks(T)'
  <2> SUFFICES ASSUME NEW k \in Ledgers
               PROVE  /\ SettledTaken(k)' = T[RequestsOf(k, "approved")]'
                      /\ SettledPending(k)' = T[RequestsOf(k, "requested")]'
    BY DEF InBooks
  <2>1. /\ SettledTaken(k) = T[RequestsOf(k, "approved")]
        /\ SettledPending(k) = T[RequestsOf(k, "requested")]
    BY DEF InBooks
  <2>2. CASE k = l
    BY <1>2, <2>1, <2>2
  <2>3. CASE k # l
    BY <1>2, <2>1, <2>3
  <2>4. QED
    BY <2>2, <2>3
<1>4. \A k \in Ledgers : SettledTaken(k) \in Int /\ SettledPending(k) \in Int
  BY <1>2 DEF InBooks
<1>5. /\ Statuses' = [Statuses EXCEPT ![r] = request'[r].status]
      /\ Statuses[r] = request[r].status
  BY DEF Statuses
<1>6. /\ SettledTaken(l)' = SettledTaken(l) => taken' = taken
      /\ SettledPending(l)' = SettledPending(l) => pending' = pending
  OBVIOUS
<1>7. ASSUME NEW n \in Int
       PROVE  /\ SettledTaken(l)' = SettledTaken(l) + n => taken' = [taken EXCEPT ![l] = taken[l] + n]
              /\ SettledPending(l)' = SettledPending(l) + n => pending' = [pending EXCEPT ![l] = pending[l] + n]
  BY <1>1
<1>8. CASE request[r].status = request'[r].status
  <2>1. SettledTaken(l)' = SettledTaken(l) /\ SettledPending(l)' = SettledPending(l)
    BY <1>1, <1>4, <1>8 DEF DaysIf
  <2>2. taken' = taken /\ pending' = pending
    BY <1>6, <2>1
  <2>3. Statuses' = Statuses
    BY <1>8 DEF Statuses
  <2>4. UNCHANGED Ledger!vars
    BY <2>2, <2>3 DEF Ledger!vars, Statuses
  <2>5. QED
    BY <1>3, <2>4
<1>9. CASE request[r].status = "none" /\ request'[r].status = "requested"
  <2>1. SettledTaken(l)' = SettledTaken(l) /\ SettledPending(l)' = SettledPending(l) + Days[r]
    BY <1>1, <1>4, <1>9 DEF DaysIf
  <2>2. taken' = taken /\ pending' = [pending EXCEPT ![l] = pending[l] + Days[r]]
    BY <1>1, <1>6, <1>7, <2>1
  <2>3. Ledger!Request(r)
    BY <1>5, <1>9, <2>2 DEF Ledger!Request, Ledger!Add, Statuses
  <2>4. QED
    BY <1>3, <2>3 DEF Ledger!Next
<1>10. CASE request[r].status = "requested" /\ request'[r].status = "approved"
  <2>1. SettledTaken(l)' = SettledTaken(l) + Days[r] /\ SettledPending(l)' = SettledPending(l) + (-Days[r])
    BY <1>1, <1>4, <1>10 DEF DaysIf
  <2>2. /\ taken' = [taken EXCEPT ![l] = taken[l] + Days[r]]
        /\ pending' = [pending EXCEPT ![l] = pending[l] + (-Days[r])]
    <3>1. Days[r] \in Int /\ -Days[r] \in Int
      BY <1>1
    <3>2. QED
      BY <1>7, <2>1, <3>1, Zenon
  <2>3. Ledger!Approve(r)
    BY <1>5, <1>10, <2>2 DEF Ledger!Approve, Ledger!Add, Statuses
  <2>4. QED
    BY <1>3, <2>3 DEF Ledger!Next
<1>11. CASE request[r].status = "requested" /\ request'[r].status \in {"rejected", "cancelled"}
  <2>1. SettledTaken(l)' = SettledTaken(l) /\ SettledPending(l)' = SettledPending(l) + (-Days[r])
    BY <1>1, <1>4, <1>11 DEF DaysIf
  <2>2. taken' = taken /\ pending' = [pending EXCEPT ![l] = pending[l] + (-Days[r])]
    BY <1>1, <1>6, <1>7, <2>1
  <2>3. \A s : s = request'[r].status => Ledger!Withdraw(r, s)
    BY <1>5, <1>11, <2>2 DEF Ledger!Withdraw, Ledger!Add, Statuses
  <2>4. Ledger!Withdraw(r, "rejected") \/ Ledger!Withdraw(r, "cancelled")
    BY <1>11, <2>3
  <2>5. QED
    BY <1>3, <2>4 DEF Ledger!Next
<1>12. CASE request[r].status = "approved" /\ request'[r].status = "cancelled"
  <2>1. SettledTaken(l)' = SettledTaken(l) + (-Days[r]) /\ SettledPending(l)' = SettledPending(l)
    BY <1>1, <1>4, <1>12 DEF DaysIf
  <2>2. taken' = [taken EXCEPT ![l] = taken[l] + (-Days[r])] /\ pending' = pending
    BY <1>1, <1>6, <1>7, <2>1
  <2>3. Ledger!GiveBack(r)
    BY <1>5, <1>12, <2>2 DEF Ledger!GiveBack, Ledger!Add, Statuses
  <2>4. QED
    BY <1>3, <2>3 DEF Ledger!Next
<1>13. QED
  BY <1>8, <1>9, <1>10, <1>11, <1>12 DEF Decision

\* A step of the one call at work on a ledger.
LEMMA OneSteps ==
    ASSUME NEW T, AddsIn(Requests, T), Settling(T), Inductive',
           NEW c \in Calls, NEW r \in Requests, NEW x \in CallState,
           call' = [call EXCEPT ![c] = x], x.pc # "idle",
           Active(c) => call[c].req = r,
           ~Active(c) => CallsOn(LedgerOf[r]) = {},
           x.pc # "done" => x.req = r,
           \A q \in Requests : q # r => request'[q] = request[q],
           \A k \in Ledgers : k # LedgerOf[r] => balance'[k] = balance[k],
           Decision(request[r].status, request'[r].status),
           Knows(c)',
           balance'[LedgerOf[r]].taken + Owed(c)'.taken =
               balance[LedgerOf[r]].taken + Owed(c).taken
                 + DaysIf(r, request'[r].status = "approved") - DaysIf(r, request[r].status = "approved"),
           balance'[LedgerOf[r]].pending + Owed(c)'.pending =
               balance[LedgerOf[r]].pending + Owed(c).pending
                 + DaysIf(r, request'[r].status = "requested") - DaysIf(r, request[r].status = "requested")
    PROVE  Settling(T)' /\ [Ledger!Next]_(Ledger!vars)
<1> DEFINE l == LedgerOf[r]
<1>1. l \in Ledgers /\ call \in [Calls -> CallState]
  BY LeaveAssumption DEF LeaveAssumption, Settling, Inductive, TypeOK
<1>2. call'[c] = x /\ \A d \in Calls : d # c => call'[d] = call[d]
  BY <1>1
<1>3. /\ InTurn'
      /\ \A k \in Ledgers : k # l => InHand(k)' = InHand(k)
      /\ Active(c) => InHand(l) = Owed(c)
      /\ ~Active(c) => InHand(l) = NoDelta
      /\ x.pc # "done" => InHand(l)' = Owed(c)'
      /\ x.pc = "done" => InHand(l)' = NoDelta
  BY <1>1, OneMoves DEF Settling
<1>4. InHand(l) = Owed(c) /\ InHand(l)' = Owed(c)'
  <2>1. ~Active(c) => Owed(c) = NoDelta
    BY DEF Active, Owed
  <2>2. x.pc = "done" => Owed(c)' = NoDelta
    BY <1>2 DEF Owed
  <2>3. QED
    BY <1>3, <2>1, <2>2
<1>5. CallsKnow'
  <2> SUFFICES ASSUME NEW d \in Calls, d # c PROVE Knows(d)'
    BY DEF CallsKnow
  <2>1. call'[d] = call[d] /\ Knows(d)
    BY <1>2 DEF Settling, CallsKnow
  <2>2. CASE Active(d)
    <3>1. LedgerOf[call[d].req] # l
      <4>1. CASE Active(c)
        BY <2>2, <4>1 DEF Settling, InTurn
      <4>2. CASE ~Active(c)
        BY <2>2, <4>2 DEF CallsOn
      <4>3. QED
        BY <4>1, <4>2
    <3>2. call[d].req # r /\ call[d].req \in Requests /\ LedgerOf[call[d].req] \in Ledgers
      BY <1>1, <3>1, LeaveAssumption DEF LeaveAssumption, CallState
    <3>3. /\ request'[call[d].req] = request[call[d].req]
          /\ balance'[LedgerOf[call[d].req]] = balance[LedgerOf[call[d].req]]
      BY <3>1, <3>2
    <3>4. QED
      BY <2>1, <3>3 DEF Knows, Moving, Undoing
  <2>3. CASE ~Active(d)
    BY <2>1, <2>3 DEF Knows, Active
  <2>4. QED
    BY <2>2, <2>3
<1>6. ASSUME NEW k \in Ledgers, k # l
      PROVE  /\ SettledTaken(k)' = SettledTaken(k)
             /\ SettledPending(k)' = SettledPending(k)
  BY <1>3, <1>6 DEF SettledTaken, SettledPending
<1>7. /\ SettledTaken(l)' = SettledTaken(l)
                  + DaysIf(r, request'[r].status = "approved") - DaysIf(r, request[r].status = "approved")
      /\ SettledPending(l)' = SettledPending(l)
                  + DaysIf(r, request'[r].status = "requested") - DaysIf(r, request[r].status = "requested")
  BY <1>4 DEF SettledTaken, SettledPending
<1>8. InBooks(T)' /\ [Ledger!Next]_(Ledger!vars)
  BY <1>6, <1>7, Decides DEF Settling
<1>9. QED
  BY <1>3, <1>5, <1>8 DEF Settling

LEMMA Amounts ==
    ASSUME NEW r \in Requests
    PROVE  /\ LedgerOf[r] \in Ledgers /\ Days[r] \in Nat
           /\ Reserve(r).taken = 0 /\ Reserve(r).pending = Days[r]
           /\ Take(r).taken = Days[r] /\ Take(r).pending = -Days[r]
           /\ Release(r).taken = 0 /\ Release(r).pending = -Days[r]
           /\ NoDelta.taken = 0 /\ NoDelta.pending = 0
  BY LeaveAssumption DEF LeaveAssumption, Reserve, Take, Release, NoDelta

\* Where a call begins nobody else is at work.
LEMMA BeginsAlone ==
    ASSUME Exclusive, NEW c \in Calls, NEW r \in Requests, Begin(c, r)
    PROVE  CallsOn(LedgerOf[r]) = {} /\ ~Active(c) /\ Owed(c) = NoDelta
  BY DEF Begin, Free, CallsOn, Active, Owed

LEMMA BeginSettles ==
    ASSUME Exclusive, NEW T, AddsIn(Requests, T), Settling(T), Inductive',
           NEW c \in Calls, NEW r \in Requests,
           \/ \E n \in ChainLengths : CreateRequest(c, r, n)
           \/ ApproveRead(c, r) \/ RejectRead(c, r) \/ CancelRead(c, r)
    PROVE  Settling(T)' /\ [Ledger!Next]_(Ledger!vars)
<1>1. /\ call \in [Calls -> CallState] /\ request \in [Requests -> RequestRow]
      /\ balance \in [Ledgers -> BalanceRow]
  BY DEF Settling, Inductive, TypeOK
<1>2. CallsOn(LedgerOf[r]) = {} /\ ~Active(c) /\ Owed(c) = NoDelta
  BY BeginsAlone DEF CreateRequest, ApproveRead, RejectRead, CancelRead
<1>3. /\ LedgerOf[r] \in Ledgers /\ Days[r] \in Nat
      /\ balance[LedgerOf[r]].taken \in Nat /\ balance[LedgerOf[r]].pending \in Nat
  BY <1>1, Amounts DEF BalanceRow
<1>4. ASSUME NEW n \in ChainLengths, CreateRequest(c, r, n)
      PROVE  Settling(T)' /\ [Ledger!Next]_(Ledger!vars)
  <2> DEFINE x == Locals("find", "create", r, NoRequest, Reserve(r))
  <2>1. x \in CallState /\ x.pc = "find" /\ x.op = "create" /\ x.req = r /\ x.delta = Reserve(r)
    BY CallTypes, LocalsType, DeltaTypes DEF Locals, Op
  <2>2. call' = [call EXCEPT ![c] = x] /\ UNCHANGED balance /\ request[r].status = "none"
    BY <1>4 DEF CreateRequest, NoRequest
  <2>3. request'[r].status = "requested" /\ \A q \in Requests : q # r => request'[q] = request[q]
    BY <1>1, <1>4 DEF CreateRequest
  <2> HIDE DEF x
  <2>4. call'[c] = x
    BY <1>1, <2>2
  <2>5. Knows(c)' /\ Owed(c)' = Reserve(r)
    BY <2>1, <2>3, <2>4 DEF Knows, Moving, Owed
  <2>6. /\ balance'[LedgerOf[r]].taken + Owed(c)'.taken =
               balance[LedgerOf[r]].taken + Owed(c).taken
                 + DaysIf(r, request'[r].status = "approved") - DaysIf(r, request[r].status = "approved")
        /\ balance'[LedgerOf[r]].pending + Owed(c)'.pending =
               balance[LedgerOf[r]].pending + Owed(c).pending
                 + DaysIf(r, request'[r].status = "requested") - DaysIf(r, request[r].status = "requested")
    BY <1>2, <1>3, <2>2, <2>3, <2>5, Amounts DEF DaysIf
  <2>7. Decision(request[r].status, request'[r].status)
    BY <2>2, <2>3 DEF Decision
  <2>8. QED
    BY <1>2, <2>1, <2>2, <2>3, <2>5, <2>6, <2>7, OneSteps
<1>5. ASSUME ApproveRead(c, r) \/ RejectRead(c, r) \/ CancelRead(c, r)
      PROVE  Settling(T)' /\ [Ledger!Next]_(Ledger!vars)
  <2> DEFINE Reads(x) ==
           /\ call' = [call EXCEPT ![c] = x] /\ x.pc \in {"write", "find"} /\ x.req = r
           /\ x.row = request[r]
           /\ \/ x.pc = "write" /\ x.op = "approve" /\ x.row.status = "requested" /\ x.delta = Take(r)
              \/ x.pc = "find" /\ x.op = "reject" /\ x.row.status = "requested" /\ x.delta = Release(r)
              \/ /\ x.pc = "find" /\ x.op = "cancel" /\ x.row.status \in {"requested", "approved"}
                 /\ x.delta = GiveBack(r, x.row.status)
  <2>1. PICK x \in CallState : Reads(x)
    <3>1. request[r] \in RequestRow /\ request[r].status \in RequestStatus
      BY <1>1 DEF RequestRow
    <3>2. ASSUME ApproveRead(c, r) PROVE \E x \in CallState : Reads(x)
      <4> DEFINE x == Locals("write", "approve", r, request[r], Take(r))
      <4>1. x \in CallState
        BY <3>1, LocalsType, DeltaTypes DEF Op
      <4>2. call' = [call EXCEPT ![c] = x]
        BY <3>2 DEF ApproveRead
      <4>3. /\ x.pc = "write" /\ x.req = r /\ x.op = "approve" /\ x.row = request[r]
            /\ x.row.status = "requested" /\ x.delta = Take(r)
        BY <3>2 DEF ApproveRead, Locals
      <4> HIDE DEF x
      <4>4. QED
        BY <4>1, <4>2, <4>3
    <3>3. ASSUME RejectRead(c, r) PROVE \E x \in CallState : Reads(x)
      <4> DEFINE x == Locals("find", "reject", r, request[r], Release(r))
      <4>1. x \in CallState
        BY <3>1, LocalsType, DeltaTypes DEF Op
      <4>2. call' = [call EXCEPT ![c] = x]
        BY <3>3 DEF RejectRead
      <4>3. /\ x.pc = "find" /\ x.req = r /\ x.op = "reject" /\ x.row = request[r]
            /\ x.row.status = "requested" /\ x.delta = Release(r)
        BY <3>3 DEF RejectRead, Locals
      <4> HIDE DEF x
      <4>4. QED
        BY <4>1, <4>2, <4>3
    <3>4. ASSUME CancelRead(c, r) PROVE \E x \in CallState : Reads(x)
      <4> DEFINE x == Locals("find", "cancel", r, request[r], GiveBack(r, request[r].status))
      <4>1. x \in CallState
        BY <3>1, LocalsType, DeltaTypes DEF Op
      <4>2. call' = [call EXCEPT ![c] = x]
        BY <3>4 DEF CancelRead
      <4>3. /\ x.pc = "find" /\ x.req = r /\ x.op = "cancel" /\ x.row = request[r]
            /\ x.row.status \in {"requested", "approved"} /\ x.delta = GiveBack(r, x.row.status)
        BY <3>1, <3>4 DEF CancelRead, Locals, RequestStatus
      <4> HIDE DEF x
      <4>4. QED
        BY <4>1, <4>2, <4>3
    <3>5. QED
      BY <1>5, <3>2, <3>3, <3>4
  <2>2. UNCHANGED <<request, balance>>
    BY <1>5 DEF ApproveRead, RejectRead, CancelRead
  <2>3. call'[c] = x
    BY <1>1, <2>1
  <2>4. Knows(c)' /\ Owed(c)' = NoDelta
    BY <2>1, <2>2, <2>3 DEF Knows, Undoing, Owed
  <2>5. /\ balance'[LedgerOf[r]].taken + Owed(c)'.taken =
               balance[LedgerOf[r]].taken + Owed(c).taken
                 + DaysIf(r, request'[r].status = "approved") - DaysIf(r, request[r].status = "approved")
        /\ balance'[LedgerOf[r]].pending + Owed(c)'.pending =
               balance[LedgerOf[r]].pending + Owed(c).pending
                 + DaysIf(r, request'[r].status = "requested") - DaysIf(r, request[r].status = "requested")
    BY <1>2, <1>3, <2>2, <2>4, Amounts DEF DaysIf
  <2>6. Decision(request[r].status, request'[r].status)
    BY <2>2 DEF Decision
  <2>7. QED
    BY <1>2, <2>1, <2>2, <2>4, <2>5, <2>6, OneSteps
<1>6. QED
  BY <1>4, <1>5

\* What is known of a call at work.
LEMMA AtWorkFacts ==
    ASSUME NEW T, AddsIn(Requests, T), Settling(T), NEW c \in Calls, Active(c)
    PROVE  /\ call \in [Calls -> CallState] /\ call[c] \in CallState /\ call[c].req \in Requests
           /\ request \in [Requests -> RequestRow] /\ balance \in [Ledgers -> BalanceRow]
           /\ LedgerOf[call[c].req] \in Ledgers
           /\ balance[LedgerOf[call[c].req]] \in BalanceRow
           /\ balance[LedgerOf[call[c].req]].taken \in Nat
           /\ balance[LedgerOf[call[c].req]].pending \in Nat
           /\ Days[call[c].req] \in Nat
           /\ call[c].delta \in Delta /\ call[c].delta.taken \in Int /\ call[c].delta.pending \in Int
           /\ Knows(c)
<1>1. /\ call \in [Calls -> CallState] /\ request \in [Requests -> RequestRow]
      /\ balance \in [Ledgers -> BalanceRow] /\ Knows(c)
  BY DEF Settling, Inductive, TypeOK, CallsKnow
<1>2. /\ call[c] \in CallState /\ call[c].req \in Requests
      /\ call[c].delta \in Delta /\ call[c].delta.taken \in Int /\ call[c].delta.pending \in Int
  BY <1>1 DEF CallState, Delta
<1>3. LedgerOf[call[c].req] \in Ledgers /\ Days[call[c].req] \in Nat
  BY <1>2, Amounts
<1>4. /\ balance[LedgerOf[call[c].req]] \in BalanceRow
      /\ balance[LedgerOf[call[c].req]].taken \in Nat
      /\ balance[LedgerOf[call[c].req]].pending \in Nat
  BY <1>1, <1>3 DEF BalanceRow
<1>5. QED
  BY <1>1, <1>2, <1>3, <1>4

\* The last approval grants the days before the ledger has them.
LEMMA ApproveSettles ==
    ASSUME NEW T, AddsIn(Requests, T), Settling(T), Inductive', NEW c \in Calls, ApproveWrite(c)
    PROVE  Settling(T)' /\ [Ledger!Next]_(Ledger!vars)
<1> DEFINE r == call[c].req
           l == LedgerOf[call[c].req]
           final == call[c].row.currentStep + 1 >= Len(call[c].row.chain)
           x == IF final THEN [call[c] EXCEPT !.pc = "find"] ELSE Finished
<1>1. call[c].pc = "write" /\ Active(c)
  BY DEF ApproveWrite, Active
<1>2. /\ request[r].status = "requested" /\ call[c].op = "approve" /\ call[c].delta = Take(r)
  BY <1>1, AtWorkFacts DEF Knows
<1>3. /\ call' = [call EXCEPT ![c] = x] /\ UNCHANGED balance
      /\ request'[r].status = IF final THEN "approved" ELSE "requested"
      /\ \A q \in Requests : q # r => request'[q] = request[q]
  BY <1>1, AtWorkFacts DEF ApproveWrite
<1>4. /\ x \in CallState /\ x.pc = (IF final THEN "find" ELSE "done")
      /\ final => x.req = r /\ x.op = "approve" /\ x.delta = Take(r)
  BY <1>1, <1>2, AtWorkFacts, CallTypes DEF CallState
<1> HIDE DEF x, final
<1>5. call'[c] = x
  BY <1>1, <1>3, AtWorkFacts
<1>6. Knows(c)'
  BY <1>3, <1>4, <1>5 DEF Knows, Moving
<1>7. Owed(c) = NoDelta /\ Owed(c)' = IF final THEN Take(r) ELSE NoDelta
  BY <1>1, <1>4, <1>5 DEF Owed
<1>8. Decision(request[r].status, request'[r].status)
  BY <1>2, <1>3 DEF Decision
<1>9. /\ balance'[l].taken + Owed(c)'.taken = balance[l].taken + Owed(c).taken
            + DaysIf(r, request'[r].status = "approved") - DaysIf(r, request[r].status = "approved")
      /\ balance'[l].pending + Owed(c)'.pending = balance[l].pending + Owed(c).pending
            + DaysIf(r, request'[r].status = "requested") - DaysIf(r, request[r].status = "requested")
  BY <1>1, <1>2, <1>3, <1>7, AtWorkFacts, Amounts DEF DaysIf
<1>10. /\ r \in Requests /\ x.pc # "idle" /\ (x.pc # "done" => x.req = r)
  BY <1>1, <1>4, AtWorkFacts
<1>11. \A k \in Ledgers : k # LedgerOf[r] => balance'[k] = balance[k]
  BY <1>3
<1>12. QED
  BY <1>1, <1>3, <1>4, <1>6, <1>8, <1>9, <1>10, <1>11, OneSteps

\* Reject and cancel write the request when the ledger has been given back its days.
LEMMA CloseSettles ==
    ASSUME NEW T, AddsIn(Requests, T), Settling(T), Inductive', NEW c \in Calls,
           RejectWrite(c) \/ CancelWrite(c)
    PROVE  Settling(T)' /\ [Ledger!Next]_(Ledger!vars)
<1> DEFINE r == call[c].req
           l == LedgerOf[call[c].req]
<1>1. call[c].pc = "close" /\ Active(c)
  BY DEF RejectWrite, CancelWrite, Active
<1>2. Undoing(c)
  BY <1>1, AtWorkFacts DEF Knows
<1>3. /\ call' = [call EXCEPT ![c] = Finished] /\ UNCHANGED balance
      /\ \A q \in Requests : q # r => request'[q] = request[q]
  BY <1>1, AtWorkFacts DEF RejectWrite, CancelWrite
<1>4. \/ /\ request[r].status = "requested" /\ call[c].delta = Release(r)
         /\ request'[r].status = "rejected"
      \/ /\ request[r].status \in {"requested", "approved"}
         /\ call[c].delta = GiveBack(r, request[r].status)
         /\ request'[r].status = "cancelled"
  <2>1. CASE RejectWrite(c)
    <3>1. request'[r].status = "rejected" /\ call[c].op = "reject"
      BY <1>1, <2>1, AtWorkFacts DEF RejectWrite, RequestRow
    <3>2. QED
      BY <1>2, <3>1 DEF Undoing
  <2>2. CASE CancelWrite(c)
    <3>1. request'[r].status = "cancelled" /\ call[c].op = "cancel"
      BY <1>1, <2>2, AtWorkFacts DEF CancelWrite, RequestRow
    <3>2. QED
      BY <1>2, <3>1 DEF Undoing
  <2>3. QED
    BY <2>1, <2>2
<1>5. call'[c] = Finished /\ Finished \in CallState /\ Finished.pc = "done"
  BY <1>1, <1>3, AtWorkFacts, CallTypes
<1>6. Knows(c)' /\ Owed(c)' = NoDelta
  BY <1>5 DEF Knows, Owed
<1>7. Owed(c) = [taken |-> -call[c].delta.taken, pending |-> -call[c].delta.pending]
  BY <1>1 DEF Owed
<1>8. Decision(request[r].status, request'[r].status)
  BY <1>4 DEF Decision
<1>9. /\ r \in Requests /\ Days[r] \in Nat
      /\ balance'[l].taken = balance[l].taken /\ balance'[l].pending = balance[l].pending
      /\ balance[l].taken \in Nat /\ balance[l].pending \in Nat
  BY <1>1, <1>3, AtWorkFacts
<1>10. /\ Owed(c)'.taken = 0 /\ Owed(c)'.pending = 0
       /\ Owed(c).taken = -call[c].delta.taken /\ Owed(c).pending = -call[c].delta.pending
  BY <1>6, <1>7 DEF NoDelta
<1>11. /\ call[c].delta.taken = -DaysIf(r, request[r].status = "approved")
       /\ call[c].delta.pending = -DaysIf(r, request[r].status = "requested")
       /\ DaysIf(r, request'[r].status = "approved") = 0
       /\ DaysIf(r, request'[r].status = "requested") = 0
       /\ DaysIf(r, request[r].status = "approved") \in Nat
       /\ DaysIf(r, request[r].status = "requested") \in Nat
  BY <1>4, <1>9, Amounts DEF DaysIf, GiveBack
<1>12. /\ balance'[l].taken + Owed(c)'.taken = balance[l].taken + Owed(c).taken
             + DaysIf(r, request'[r].status = "approved") - DaysIf(r, request[r].status = "approved")
       /\ balance'[l].pending + Owed(c)'.pending = balance[l].pending + Owed(c).pending
             + DaysIf(r, request'[r].status = "requested") - DaysIf(r, request[r].status = "requested")
  <2> DEFINE da == DaysIf(r, request[r].status = "approved")
             dr == DaysIf(r, request[r].status = "requested")
  <2> HIDE DEF da, dr, l, r
  <2>1. /\ Owed(c).taken = da /\ Owed(c).pending = dr /\ da \in Nat /\ dr \in Nat
    BY <1>10, <1>11 DEF da, dr
  <2>2. QED
    BY <1>9, <1>10, <1>11, <2>1 DEF da, dr
<1>13. \A k \in Ledgers : k # LedgerOf[r] => balance'[k] = balance[k]
  BY <1>3
<1>14. QED
  BY <1>1, <1>3, <1>5, <1>6, <1>8, <1>9, <1>12, <1>13, OneSteps

LEMMA FindSettles ==
    ASSUME NEW T, AddsIn(Requests, T), Settling(T), Inductive', NEW c \in Calls, FindBalance(c)
    PROVE  Settling(T)' /\ [Ledger!Next]_(Ledger!vars)
<1> DEFINE r == call[c].req
           l == LedgerOf[call[c].req]
           x == [call[c] EXCEPT !.pc = "store", !.found = balance[l]]
<1>1. call[c].pc = "find" /\ Active(c)
  BY DEF FindBalance, Active
<1>2. call' = [call EXCEPT ![c] = x] /\ UNCHANGED <<request, balance>>
  BY <1>1, AtWorkFacts DEF FindBalance
<1>3. /\ x \in CallState /\ x.pc = "store" /\ x.req = r /\ x.op = call[c].op
      /\ x.delta = call[c].delta /\ x.found = balance[l]
  BY <1>1, AtWorkFacts DEF CallState
<1> HIDE DEF x
<1>4. call'[c] = x
  BY <1>1, <1>2, AtWorkFacts
<1>5. Moving(c) \/ Undoing(c)
  BY <1>1, AtWorkFacts DEF Knows
<1>6. Knows(c)'
  BY <1>2, <1>3, <1>4, <1>5 DEF Knows, Moving, Undoing
<1>7. Owed(c)' = Owed(c)
  BY <1>1, <1>3, <1>4 DEF Owed
<1>8. Decision(request[r].status, request'[r].status)
  BY <1>2 DEF Decision
<1>9. Owed(c).taken \in Int /\ Owed(c).pending \in Int
  BY <1>1, <1>5, AtWorkFacts, Amounts DEF Owed, Moving
<1>10. /\ balance'[l].taken + Owed(c)'.taken = balance[l].taken + Owed(c).taken
             + DaysIf(r, request'[r].status = "approved") - DaysIf(r, request[r].status = "approved")
       /\ balance'[l].pending + Owed(c)'.pending = balance[l].pending + Owed(c).pending
             + DaysIf(r, request'[r].status = "requested") - DaysIf(r, request[r].status = "requested")
  BY <1>1, <1>2, <1>7, <1>9, AtWorkFacts DEF DaysIf
<1>11. /\ r \in Requests /\ \A k \in Ledgers : k # LedgerOf[r] => balance'[k] = balance[k]
       /\ \A q \in Requests : q # r => request'[q] = request[q]
  BY <1>1, <1>2, AtWorkFacts
<1>12. QED
  BY <1>1, <1>2, <1>3, <1>6, <1>8, <1>10, <1>11, OneSteps

\* The books of a ledger hold what a call may take from them.
LEMMA EnoughThere ==
    ASSUME NEW T, AddsIn(Requests, T), Settling(T), NEW c \in Calls, call[c].pc = "store"
    PROVE  LET l == LedgerOf[call[c].req]
           IN  /\ balance[l].taken + call[c].delta.taken \in Nat
               /\ balance[l].pending + call[c].delta.pending \in Nat
<1> DEFINE r == call[c].req
           l == LedgerOf[call[c].req]
<1>1. Active(c)
  BY DEF Active
<1>2. InHand(l) = Owed(c)
  <2>1. CallsOn(l) = {c}
    BY <1>1 DEF CallsOn, Settling, InTurn
  <2>2. QED
    BY <2>1 DEF InHand
<1>3. Moving(c) \/ Undoing(c)
  BY <1>1, AtWorkFacts DEF Knows
<1>4. r \in Requests /\ l \in Ledgers
  BY <1>1, AtWorkFacts
<1>5. ASSUME NEW v, v \in {"approved", "requested"}
      PROVE  /\ T[RequestsOf(l, v)] \in Nat
             /\ request[r].status = v => T[RequestsOf(l, v)] >= Days[r]
  <2> DEFINE S == RequestsOf(l, v) \ {r}
  <2>1. RequestsOf(l, v) \in SUBSET Requests /\ S \in SUBSET Requests /\ r \notin S
    BY DEF RequestsOf
  <2>2. /\ T[RequestsOf(l, v)] \in Nat /\ T[S] \in Nat /\ T[S \cup {r}] = T[S] + Days[r]
        /\ Days[r] \in Nat
    BY <1>4, <2>1, Amounts DEF AddsIn
  <2>3. request[r].status = v => RequestsOf(l, v) = S \cup {r}
    BY <1>4 DEF RequestsOf
  <2>4. request[r].status = v => T[RequestsOf(l, v)] = T[S] + Days[r]
    BY <2>2, <2>3
  <2> HIDE DEF S
  <2>5. QED
    BY <2>2, <2>4
<1>6. /\ balance[l].taken + Owed(c).taken = T[RequestsOf(l, "approved")]
      /\ balance[l].pending + Owed(c).pending = T[RequestsOf(l, "requested")]
  BY <1>2, <1>4 DEF Settling, InBooks, SettledTaken, SettledPending
<1>7. CASE Moving(c)
  <2>1. Owed(c) = call[c].delta
    BY <1>7 DEF Owed, Moving
  <2>2. QED
    BY <1>5, <1>6, <2>1
<1>8. CASE Undoing(c)
  <2>1. Owed(c) = NoDelta
    BY <1>8 DEF Owed, Undoing
  <2>2. /\ balance[l].taken = T[RequestsOf(l, "approved")]
        /\ balance[l].pending = T[RequestsOf(l, "requested")]
    BY <1>1, <1>4, <1>6, <2>1, AtWorkFacts, Amounts
  <2>3. /\ request[r].status = "approved" => call[c].delta.taken = -Days[r] /\ call[c].delta.pending = 0
        /\ request[r].status = "requested" => call[c].delta.taken = 0 /\ call[c].delta.pending = -Days[r]
        /\ request[r].status \in {"approved", "requested"}
    BY <1>4, <1>8, Amounts DEF Undoing, GiveBack
  <2>4. Days[r] \in Nat
    BY <1>4, Amounts
  <2>5. QED
    BY <1>5, <2>2, <2>3, <2>4
<1>9. QED
  BY <1>3, <1>7, <1>8

\* adjustBalance never has to round up to nothing.
LEMMA StoreSettles ==
    ASSUME NEW T, AddsIn(Requests, T), Settling(T), Inductive', NEW c \in Calls, StoreBalance(c)
    PROVE  Settling(T)' /\ [Ledger!Next]_(Ledger!vars)
<1> DEFINE r == call[c].req
           l == LedgerOf[call[c].req]
           d == call[c].delta
           undoes == call[c].op \in {"reject", "cancel"}
           x == IF undoes THEN [call[c] EXCEPT !.pc = "close"] ELSE Finished
<1>1. call[c].pc = "store" /\ Active(c)
  BY DEF StoreBalance, Active
<1>2. /\ call' = [call EXCEPT ![c] = x] /\ UNCHANGED request
      /\ balance' = [balance EXCEPT ![l] = Adjusted(balance[l], balance[l], d)]
  BY <1>1, AtWorkFacts DEF StoreBalance, Knows
<1>3. balance[l].taken + d.taken \in Nat /\ balance[l].pending + d.pending \in Nat
  BY <1>1, EnoughThere
<1>4. /\ balance'[l].taken = balance[l].taken + d.taken
      /\ balance'[l].pending = balance[l].pending + d.pending
      /\ \A k \in Ledgers : k # l => balance'[k] = balance[k]
  <2>1. balance'[l] = Adjusted(balance[l], balance[l], d) /\ \A k \in Ledgers : k # l => balance'[k] = balance[k]
    BY <1>1, <1>2, AtWorkFacts
  <2>2. /\ Floor(balance[l].taken + d.taken) = balance[l].taken + d.taken
        /\ Floor(balance[l].pending + d.pending) = balance[l].pending + d.pending
    BY <1>3 DEF Floor
  <2>3. \A b : /\ Adjusted(b, b, d).taken = Floor(b.taken + d.taken)
               /\ Adjusted(b, b, d).pending = Floor(b.pending + d.pending)
    BY DEF Adjusted
  <2>4. QED
    BY <2>1, <2>2, <2>3
<1>5. /\ x \in CallState /\ x.pc = (IF undoes THEN "close" ELSE "done")
      /\ undoes => x.req = r /\ x.op = call[c].op /\ x.delta = d
  BY <1>1, AtWorkFacts, CallTypes DEF CallState
<1>6. (undoes => Undoing(c)) /\ (~undoes => call[c].op \in {"create", "approve"})
  BY <1>1, AtWorkFacts DEF Knows, Moving, Undoing
<1> HIDE DEF x
<1>7. call'[c] = x
  BY <1>1, <1>2, AtWorkFacts
<1>8. Knows(c)'
  BY <1>2, <1>5, <1>6, <1>7 DEF Knows, Undoing
<1>9. /\ undoes => Owed(c) = NoDelta /\ Owed(c)' = [taken |-> -d.taken, pending |-> -d.pending]
      /\ ~undoes => Owed(c) = d /\ Owed(c)' = NoDelta
  BY <1>1, <1>5, <1>6, <1>7 DEF Owed
<1>10. Decision(request[r].status, request'[r].status)
  BY <1>2 DEF Decision
<1>11. /\ balance[l].taken \in Nat /\ balance[l].pending \in Nat /\ d.taken \in Int /\ d.pending \in Int
       /\ r \in Requests /\ Days[r] \in Nat
  BY <1>1, AtWorkFacts
<1>12. /\ balance'[l].taken + Owed(c)'.taken = balance[l].taken + Owed(c).taken
       /\ balance'[l].pending + Owed(c)'.pending = balance[l].pending + Owed(c).pending
       /\ Owed(c).taken \in Int /\ Owed(c).pending \in Int
  <2>1. CASE undoes
    <3>1. /\ Owed(c).taken = 0 /\ Owed(c).pending = 0
          /\ Owed(c)'.taken = -d.taken /\ Owed(c)'.pending = -d.pending
      BY <1>9, <2>1 DEF NoDelta
    <3> HIDE DEF d, l
    <3>2. QED
      BY <1>4, <1>11, <3>1
  <2>2. CASE ~undoes
    <3>1. /\ Owed(c).taken = d.taken /\ Owed(c).pending = d.pending
          /\ Owed(c)'.taken = 0 /\ Owed(c)'.pending = 0
      BY <1>9, <2>2 DEF NoDelta
    <3> HIDE DEF d, l
    <3>2. QED
      BY <1>4, <1>11, <3>1
  <2>3. QED
    BY <2>1, <2>2
<1>13. /\ balance'[l].taken + Owed(c)'.taken = balance[l].taken + Owed(c).taken
             + DaysIf(r, request'[r].status = "approved") - DaysIf(r, request[r].status = "approved")
       /\ balance'[l].pending + Owed(c)'.pending = balance[l].pending + Owed(c).pending
             + DaysIf(r, request'[r].status = "requested") - DaysIf(r, request[r].status = "requested")
  <2>1. request'[r].status = request[r].status
    BY <1>2
  <2>2. QED
    BY <1>11, <1>12, <2>1 DEF DaysIf
<1>14. /\ x.pc # "idle" /\ (x.pc # "done" => x.req = r)
       /\ \A q \in Requests : q # r => request'[q] = request[q]
  BY <1>2, <1>5
<1>15. QED
  BY <1>1, <1>2, <1>4, <1>5, <1>8, <1>10, <1>11, <1>13, <1>14, OneSteps

LEMMA SetSettles ==
    ASSUME Exclusive, NEW T, AddsIn(Requests, T), Settling(T), Inductive',
           NEW k \in Ledgers, NEW e \in Entitlements, SetBalance(k, e)
    PROVE  Settling(T)' /\ [Ledger!Next]_(Ledger!vars)
<1>1. /\ UNCHANGED <<request, call>>
      /\ \A l \in Ledgers : /\ balance'[l].taken = balance[l].taken
                            /\ balance'[l].pending = balance[l].pending
                            /\ l # k => balance'[l] = balance[l]
  BY DEF SetBalance, Settling, Inductive, TypeOK, BalanceRow
<1>2. \A l : InHand(l)' = InHand(l)
  BY <1>1 DEF InHand, CallsOn, Owed, Active
<1>3. \A l \in Ledgers : /\ SettledTaken(l)' = SettledTaken(l)
                         /\ SettledPending(l)' = SettledPending(l)
  BY <1>1, <1>2 DEF SettledTaken, SettledPending
<1>4. InBooks(T)' /\ UNCHANGED Ledger!vars
  <2>1. \A l, v : RequestsOf(l, v)' = RequestsOf(l, v)
    BY <1>1 DEF RequestsOf
  <2>2. InBooks(T)'
    BY <1>3, <2>1 DEF Settling, InBooks
  <2>3. UNCHANGED Ledger!vars
    BY <1>1, <1>3 DEF Ledger!vars
  <2>4. QED
    BY <2>2, <2>3
<1>5. CallsKnow'
  <2> SUFFICES ASSUME NEW c \in Calls PROVE Knows(c)'
    BY DEF CallsKnow
  <2>1. CASE Active(c)
    <3>1. LedgerOf[call[c].req] # k /\ LedgerOf[call[c].req] \in Ledgers /\ Knows(c)
      BY <2>1, AtWorkFacts DEF SetBalance, Free
    <3>2. QED
      BY <1>1, <3>1 DEF Knows, Moving, Undoing
  <2>2. CASE ~Active(c)
    BY <1>1, <2>2 DEF Knows, Active
  <2>3. QED
    BY <2>1, <2>2
<1>6. InTurn'
  BY <1>1 DEF Settling, InTurn, Active
<1>7. QED
  BY <1>4, <1>5, <1>6 DEF Settling

LEMMA SettlingInit ==
    ASSUME NEW T, AddsIn(Requests, T), Init
    PROVE  Settling(T) /\ Ledger!Init
<1>1. \A c \in Calls : call[c].pc = "idle" /\ ~Active(c)
  BY DEF Init, Fresh, Active
<1>2. \A l : CallsOn(l) = {}
  BY <1>1 DEF CallsOn
<1>3. \A l \in Ledgers : SettledTaken(l) = 0 /\ SettledPending(l) = 0
  BY <1>2 DEF SettledTaken, SettledPending, InHand, NoDelta, Init, NoBalance
<1>4. \A l \in Ledgers : RequestsOf(l, "approved") = {} /\ RequestsOf(l, "requested") = {}
  BY DEF RequestsOf, Init, NoRequest
<1>5. InBooks(T)
  BY <1>3, <1>4 DEF InBooks, AddsIn
<1>6. InTurn /\ CallsKnow
  BY <1>1 DEF InTurn, CallsKnow, Knows
<1>7. Ledger!Init
  BY <1>3 DEF Ledger!Init, Init, NoRequest
<1>8. QED
  BY <1>5, <1>6, <1>7, InductiveInit DEF Settling

LEMMA SettlingStep ==
    ASSUME Exclusive, ~Crashes, NEW T, AddsIn(Requests, T), Settling(T), [Next]_vars
    PROVE  Settling(T)' /\ [Ledger!Next]_(Ledger!vars)
<1>1. Inductive'
  BY InductiveStep DEF Settling
<1>2. ASSUME NEW c \in Calls, NEW r \in Requests,
             \/ \E n \in ChainLengths : CreateRequest(c, r, n)
             \/ ApproveRead(c, r) \/ RejectRead(c, r) \/ CancelRead(c, r)
      PROVE  Settling(T)' /\ [Ledger!Next]_(Ledger!vars)
  BY <1>1, <1>2, BeginSettles
<1>3. ASSUME NEW c \in Calls, Proceed(c)
      PROVE  Settling(T)' /\ [Ledger!Next]_(Ledger!vars)
  BY <1>1, <1>3, ApproveSettles, CloseSettles, FindSettles, StoreSettles DEF Proceed
<1>4. ASSUME NEW l \in Ledgers, NEW e \in Entitlements, SetBalance(l, e)
      PROVE  Settling(T)' /\ [Ledger!Next]_(Ledger!vars)
  BY <1>1, <1>4, SetSettles
<1>5. CASE UNCHANGED vars
  <2>1. \A l : InHand(l)' = InHand(l)
    BY <1>5 DEF vars, InHand, CallsOn, Owed, Active
  <2>2. UNCHANGED Ledger!vars /\ InBooks(T)'
    BY <1>5, <2>1 DEF vars, Ledger!vars, SettledTaken, SettledPending, Settling, InBooks, RequestsOf
  <2>3. InTurn' /\ CallsKnow'
    BY <1>5 DEF vars, Settling, InTurn, CallsKnow, Knows, Moving, Undoing, Active
  <2>4. QED
    BY <1>1, <2>2, <2>3 DEF Settling
<1>6. \A c \in Calls : ~Crash(c)
  BY DEF Crash
<1>7. QED
  BY <1>2, <1>3, <1>4, <1>5, <1>6 DEF Next

\* Where the calls on one ledger come one at a time and none dies, LeaveService is the
\* abstract ledger: every decision moves the days of its request on its ledger, once, for
\* any number of requests, ledgers, calls and chain lengths, whatever the calls on other
\* ledgers and the administrator's entitlements do meanwhile.
THEOREM LeaveIsLedger ==
    ASSUME Exclusive, ~Crashes, IsFiniteSet(Requests)
    PROVE  Spec => ImplementsLedger
<1>1. PICK T : AddsIn(Requests, T)
  BY DaysAddUp
<1>2. Init => Settling(T) /\ Ledger!Init
  BY <1>1, SettlingInit
<1>3. Settling(T) /\ [Next]_vars => Settling(T)' /\ [Ledger!Next]_(Ledger!vars)
  BY <1>1, SettlingStep
<1>4. QED
  BY <1>2, <1>3, PTL DEF Spec, ImplementsLedger, Ledger!Spec

-----------------------------------------------------------------------------
(* The books.                                                              *)

\* What the fold over a set of requests gives is what T adds up: it takes one request
\* after the other, and a least set on which the two differ would have a smaller one.
LEMMA SumOfDays ==
    ASSUME IsFiniteSet(Requests), NEW T, AddsIn(Requests, T), NEW S \in SUBSET Requests
    PROVE  MapThenSumSet(LAMBDA r : Days[r], S) = T[S]
<1> DEFINE E(F) == F = [s \in SUBSET S |->
                           IF s = {} THEN 0
                           ELSE LET x == CHOOSE x \in s : TRUE IN Days[x] + F[s \ {x}]]
           U == [s \in SUBSET S |-> T[s]]
<1>1. MapThenSumSet(LAMBDA r : Days[r], S) = (CHOOSE F : E(F))[S]
  BY DEF MapThenSumSet, MapThenFoldSet
<1>2. ASSUME NEW s \in SUBSET S, s # {}
      PROVE  LET x == CHOOSE x \in s : TRUE
             IN  x \in s /\ s \ {x} \in SUBSET S /\ T[s] = Days[x] + T[s \ {x}]
  <2>1. PICK x : x = CHOOSE y \in s : TRUE
    OBVIOUS
  <2>2. x \in s /\ s \ {x} \in SUBSET Requests /\ s = (s \ {x}) \cup {x} /\ x \in Requests
    BY <1>2, <2>1
  <2>3. T[s] = T[s \ {x}] + Days[x] /\ T[s \ {x}] \in Nat /\ Days[x] \in Nat
    BY <2>2, LeaveAssumption DEF LeaveAssumption, AddsIn
  <2>4. QED
    BY <2>1, <2>2, <2>3
<1>3. E(U)
  <2>1. \A s \in SUBSET S :
           T[s] = IF s = {} THEN 0 ELSE LET x == CHOOSE x \in s : TRUE IN Days[x] + U[s \ {x}]
    BY <1>2 DEF AddsIn
  <2>2. QED
    BY <2>1
<1>4. PICK F : F = (CHOOSE G : E(G)) /\ E(F)
  <2> HIDE DEF E
  <2>1. E(CHOOSE G : E(G))
    BY <1>3, Zenon
  <2>2. QED
    BY <2>1
<1> DEFINE Bad == {k \in Nat : \E s \in SUBSET S : Cardinality(s) = k /\ F[s] # T[s]}
<1>5. ASSUME Bad # {} PROVE FALSE
  <2>1. PICK k \in Bad : \A m \in Bad : ~ (<<m, k>> \in OpToRel(<, Nat))
    BY <1>5, WFMin, NatLessThanWellFounded
  <2>2. \A m \in Bad : ~ (m < k)
    BY <2>1 DEF OpToRel
  <2>3. PICK s \in SUBSET S : Cardinality(s) = k /\ F[s] # T[s]
    OBVIOUS
  <2>4. s # {}
    BY <1>4, <2>3 DEF AddsIn
  <2>5. PICK x : x \in s /\ x = CHOOSE y \in s : TRUE
    BY <2>4
  <2>6. F[s] = Days[x] + F[s \ {x}]
    BY <1>4, <2>4, <2>5
  <2>7. T[s] = Days[x] + T[s \ {x}] /\ s \ {x} \in SUBSET S
    BY <1>2, <2>4, <2>5
  <2>8. IsFiniteSet(s)
    BY FS_Subset
  <2>9. Cardinality(s \ {x}) = k - 1 /\ IsFiniteSet(s \ {x}) /\ Cardinality(s \ {x}) \in Nat
    BY <2>3, <2>5, <2>8, FS_RemoveElement, FS_CardinalityType
  <2>10. k - 1 \in Nat /\ k - 1 < k
    BY <2>9
  <2>11. F[s \ {x}] # T[s \ {x}]
    BY <2>3, <2>6, <2>7
  <2>12. k - 1 \in Bad
    BY <2>7, <2>9, <2>10, <2>11
  <2>13. QED
    BY <2>2, <2>10, <2>12
<1>6. F[S] = T[S]
  <2>1. IsFiniteSet(S) /\ Cardinality(S) \in Nat
    BY FS_Subset, FS_CardinalityType
  <2>2. QED
    BY <1>5, <2>1
<1>7. QED
  BY <1>1, <1>4, <1>6

\* Where the calls on one ledger come one at a time and none dies, a ledger that no call
\* is at work on has as pending the days of its open requests and as taken the days of
\* its granted ones ("reserve pending balance", leave.service.ts:93), for any finite set
\* of requests.  (MCLeave's leave_overlap shows that calls that overlap break it.)
THEOREM BooksAgreeInTurn ==
    ASSUME Exclusive, ~Crashes, IsFiniteSet(Requests)
    PROVE  Spec => []BooksAgree
<1>1. PICK T : AddsIn(Requests, T)
  BY DaysAddUp
<1>2. Init => Settling(T)
  BY <1>1, SettlingInit
<1>3. Settling(T) /\ [Next]_vars => Settling(T)'
  BY <1>1, SettlingStep
<1>4. ASSUME Settling(T), NEW l \in Ledgers, CallsOn(l) = {}
      PROVE  /\ balance[l].pending = DaysOf(l, "requested")
             /\ balance[l].taken = DaysOf(l, "approved")
  <2>1. InHand(l) = [taken |-> 0, pending |-> 0]
    BY <1>4 DEF InHand, NoDelta
  <2>2. balance[l].taken \in Int /\ balance[l].pending \in Int
    BY <1>4 DEF Settling, Inductive, TypeOK, BalanceRow
  <2>3. /\ balance[l].taken = T[RequestsOf(l, "approved")]
        /\ balance[l].pending = T[RequestsOf(l, "requested")]
    BY <1>4, <2>1, <2>2 DEF Settling, InBooks, SettledTaken, SettledPending
  <2>4. \A s : DaysOf(l, s) = T[RequestsOf(l, s)]
    <3> SUFFICES ASSUME NEW s PROVE DaysOf(l, s) = T[RequestsOf(l, s)]
      OBVIOUS
    <3>1. RequestsOf(l, s) \in SUBSET Requests
      BY DEF RequestsOf
    <3>2. DaysOf(l, s) = MapThenSumSet(LAMBDA r : Days[r], RequestsOf(l, s))
      BY DEF DaysOf, RequestsOf
    <3>3. QED
      BY <1>1, <3>1, <3>2, SumOfDays
  <2>5. QED
    BY <2>3, <2>4
<1>5. Settling(T) => BooksAgree
  BY <1>4 DEF BooksAgree
<1>6. QED
  BY <1>2, <1>3, <1>5, PTL DEF Spec
=============================================================================
