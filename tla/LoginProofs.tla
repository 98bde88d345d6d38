------------------------------ MODULE LoginProofs ------------------------------
(***************************************************************************)
(* Proofs about the federated login, for every number of interactions,     *)
(* members, redirects and session events, about a browser tab, for every   *)
(* set of tenants and number of requests in flight, and about the sessions *)
(* of an account, for every number of accounts, sessions and switches and  *)
(* every session limit.                                                    *)
(***************************************************************************)
EXTENDS UpstreamLogin, BrowserSession, AccountSessions, WellFoundedInduction,
        SequenceTheorems, FiniteSetTheorems, TLAPS

-------------------------------------------------------------------------------
(* Numbers.                                                                 *)

(* A set of naturals that is not empty has a least element ...              *)
LEMMA LeastNumber ==
  ASSUME NEW T \in SUBSET Nat, T # {}
  PROVE  \E n \in T : \A m \in T : n <= m
<1> DEFINE R == OpToRel(<, Nat)
<1>1. IsWellFoundedOn(R, Nat)
  BY NatLessThanWellFounded
<1>2. \A x, y \in Nat : x < y => <<x, y>> \in R
  BY DEF OpToRel
<1> HIDE DEF R
<1>3. PICK x \in T : \A y \in T : ~ (<<y, x>> \in R)
  BY <1>1, WFMin
<1>4. ASSUME NEW y \in T PROVE x <= y
  <2>1. x \in Nat /\ y \in Nat /\ ~(y < x)
    BY <1>2, <1>3
  <2> QED
    BY <2>1
<1> QED
  BY <1>4

(* ... and, when it is bounded, a greatest one.                             *)
LEMMA GreatestNumber ==
  ASSUME NEW n \in Nat, NEW T \in SUBSET (0 .. n), T # {}
  PROVE  \E x \in T : \A y \in T : y <= x
<1> DEFINE M == {m \in Nat : \A x \in T : x <= m}
<1>1. PICK m \in M : \A k \in M : m <= k
  <2>1. n \in M
    OBVIOUS
  <2> QED
    BY <2>1, LeastNumber
<1>2. m \in T
  <2> SUFFICES ASSUME m \notin T PROVE FALSE
    OBVIOUS
  <2>1. m \in Nat /\ \A x \in T : x \in Nat /\ x <= m /\ x # m
    OBVIOUS
  <2>2. PICK t \in T : TRUE
    OBVIOUS
  <2>3. m > 0 /\ m - 1 \in Nat
    BY <2>1, <2>2
  <2>4. m - 1 \in M
    BY <2>1, <2>3
  <2> QED
    BY <1>1, <2>1, <2>4
<1> QED
  BY <1>1, <1>2

(* ULatest picks a member of the set, or 0 when there is none.              *)
LEMMA ULatestFacts ==
  ASSUME NEW n \in Nat, NEW is \in SUBSET (1 .. n)
  PROVE  (is = {} /\ ULatest(is) = 0) \/ (ULatest(is) \in is /\ ULatest(is) # 0)
<1>1. CASE is = {}
  BY <1>1 DEF ULatest
<1>2. CASE is # {}
  <2>1. \E i \in is : \A j \in is : j <= i
    <3>1. is \in SUBSET (0 .. n)
      OBVIOUS
    <3> QED
      BY <1>2, <3>1, GreatestNumber
  <2>2. ULatest(is) \in is
    BY <1>2, <2>1 DEF ULatest
  <2> QED
    BY <2>2
<1> QED
  BY <1>1, <1>2

-------------------------------------------------------------------------------
(* The inductive invariant.                                                 *)

(* A state belongs to an interaction once it is drawn, and to a member once *)
(* the identity provider has answered.                                      *)
UDrawn(s) ==
  /\ uPc[s] = "none" <=> uUid[s] = UNone
  /\ uPc[s] \notin {"none", "away"} => uWho[s] \in UUsers

(* An interaction row carries a state of its own uid; once the callback of  *)
(* that state has written the member, the row names whoever authenticated.  *)
URowSound(u) ==
  LET row == uRow[u]
  IN  /\ row.state # 0 =>
           /\ uUid[row.state] = u
           /\ uPc[row.state] \in {"set", "consume.save", "done"} => row.user = uWho[row.state]
      /\ row.consumed => row.state # 0 /\ uPc[row.state] = "done"

(* The copy a callback is about to save is of its own state and member.     *)
UCopySound(s) ==
  uPc[s] \in {"set.save", "consume.save"} =>
    /\ uCopy[s] \in UInteractionRow /\ uCopy[s].state = s /\ uCopy[s].user = uWho[s]
    /\ uCopy[s].consumed <=> uPc[s] = "consume.save"

(* A token is of the member it was issued to, from the moment it is staged. *)
UTokenOf(token, user) ==
  /\ token \in UStates /\ user \in UUsers /\ uWho[token] = user
  /\ uPc[token] \notin {"none", "away"}

USessSound(i) ==
  /\ UTokenOf(uSess[i].token, uSess[i].user)
  /\ uSess[i].live /\ uSess[i].model # UNone => uModel[uSess[i].model] = uSess[i].user

(* A listener runs for the account of the session as long as there is one,  *)
(* with a token of that member.                                             *)
UFinSound(u) ==
  /\ uFin[u].pc # "idle" /\ uModel[u] # UNone => uFin[u].user = uModel[u]
  /\ uFin[u].pc \in {"existing", "delete"} => UTokenOf(uFin[u].token, uFin[u].user)

UOutSound(u) == uOut[u].pc = "ending" => uOut[u].token \in UStates

(* A session is saved first when its interaction is finished.               *)
UModelSound(u) == uSaves[u] = 0 => uModel[u] = UNone

UInteractionSide ==
  /\ uRow \in [UUids -> UInteractionRow \cup {UNoInteraction}]
  /\ uUid \in [UStates -> UUids \cup {UNone}]
  /\ uWho \in [UStates -> UUsers \cup {UNone}]
  /\ uPc \in [UStates -> UCallbackPCs]
  /\ uCopy \in [UStates -> UInteractionRow \cup {UNoInteraction}]
  /\ \A s \in UStates : UDrawn(s) /\ UCopySound(s)
  /\ \A u \in UUids : URowSound(u)

USessionSide ==
  /\ uSess \in Seq(USessionRow)
  /\ uModel \in [UUids -> UUsers \cup {UNone}]
  /\ uSaves \in [UUids -> 0 .. UMaxSaves]
  /\ uFin \in [UUids -> UFinStates]
  /\ uOut \in [UUids -> [pc : {"idle", "ending", "deleting"}, row : Nat, token : Nat]]
  /\ uEnded \subseteq UStates
  /\ \A u \in UUids : UFinSound(u) /\ UOutSound(u) /\ UModelSound(u)
  /\ \A i \in DOMAIN uSess : USessSound(i)
  /\ USessionAuthenticated

UInv == UInteractionSide /\ USessionSide

LEMMA UInteractionKept ==
  ASSUME UInteractionSide, UNCHANGED uInteraction
  PROVE  UInteractionSide'
BY DEF UInteractionSide, uInteraction, UDrawn, UCopySound, URowSound

(* What the session side asks of a step of a callback: members and states   *)
(* that were given stay, and a login that was consumed stays so.            *)
LEMMA USessionKept ==
  ASSUME UInv, UNCHANGED <<uSess, uModel, uSaves, uFin, uOut, uEnded>>,
         \A t \in UStates : uPc[t] \notin {"none", "away"} =>
           uWho'[t] = uWho[t] /\ uPc'[t] \notin {"none", "away"} /\ uUid'[t] = uUid[t],
         \A t \in UStates : uPc[t] \in {"consume.save", "done"} => uPc'[t] \in {"consume.save", "done"}
  PROVE  USessionSide'
<1>1. ASSUME NEW token, NEW user, UTokenOf(token, user) PROVE UTokenOf(token, user)'
  BY <1>1 DEF UTokenOf
<1>2. ASSUME NEW i \in DOMAIN uSess PROVE USessSound(i)'
  BY <1>1 DEF UInv, USessionSide, USessSound
<1>3. ASSUME NEW u \in UUids PROVE UFinSound(u)' /\ UOutSound(u)' /\ UModelSound(u)'
  BY <1>1 DEF UInv, USessionSide, UFinSound, UOutSound, UModelSound
<1>4. USessionAuthenticated'
  <2> SUFFICES ASSUME NEW u \in UUids, uModel[u] # UNone
               PROVE  \E t \in UStates : /\ uUid'[t] = u /\ uWho'[t] = uModel[u]
                                         /\ uPc'[t] \in {"consume.save", "done"}
    BY DEF USessionAuthenticated
  <2>1. PICK t \in UStates : /\ uUid[t] = u /\ uWho[t] = uModel[u]
                             /\ uPc[t] \in {"consume.save", "done"}
    BY DEF UInv, USessionSide, USessionAuthenticated
  <2> QED
    BY <2>1
<1> QED
  BY <1>2, <1>3, <1>4 DEF UInv, USessionSide

LEMMA UStartInv ==
  ASSUME UInv, NEW u \in UUids, UStartUpstreamLogin(u)
  PROVE  UInv'
<1>1. PICK s \in UStates : /\ uUid[s] = UNone /\ uUid' = [uUid EXCEPT ![s] = u]
                           /\ uPc' = [uPc EXCEPT ![s] = "away"]
                           /\ uRow' = [uRow EXCEPT ![u] = UFreshRow(u, s)]
  BY DEF UStartUpstreamLogin
<1>2. UNCHANGED <<uWho, uCopy, uSess, uModel, uSaves, uFin, uOut, uEnded>>
  BY DEF UStartUpstreamLogin
<1>3. UFreshRow(u, s) \in UInteractionRow /\ UFreshRow(u, s).state = s /\ ~UFreshRow(u, s).consumed
  BY DEF UFreshRow, UInteractionRow
<1>4. uPc[s] = "none" /\ u # UNone
  BY <1>1, UConstantsAssumption DEF UInv, UInteractionSide, UDrawn
<1>5. /\ uPc' \in [UStates -> UCallbackPCs] /\ uUid' \in [UStates -> UUids \cup {UNone}]
      /\ uRow' \in [UUids -> UInteractionRow \cup {UNoInteraction}]
      /\ uPc'[s] = "away" /\ uUid'[s] = u /\ uRow'[u] = UFreshRow(u, s)
      /\ \A t \in UStates : t # s => uPc'[t] = uPc[t] /\ uUid'[t] = uUid[t]
      /\ \A v \in UUids : v # u => uRow'[v] = uRow[v]
  BY <1>1, <1>3 DEF UInv, UInteractionSide, UCallbackPCs
<1>6. ASSUME NEW t \in UStates PROVE UDrawn(t)' /\ UCopySound(t)'
  BY <1>2, <1>4, <1>5 DEF UInv, UInteractionSide, UDrawn, UCopySound
<1>7. ASSUME NEW v \in UUids PROVE URowSound(v)'
  <2>1. CASE v = u
    BY <1>3, <1>5, <2>1 DEF URowSound
  <2>2. CASE v # u
    <3>1. URowSound(v) /\ uRow'[v] = uRow[v] /\ v # UNone
      BY <1>5, <2>2, UConstantsAssumption DEF UInv, UInteractionSide
    <3>2. uRow[v].state \in UStates \/ (uRow[v].state = 0 /\ ~uRow[v].consumed)
      BY DEF UInv, UInteractionSide, UInteractionRow, UNoInteraction
    <3>3. uRow[v].state # s
      BY <1>1, <3>1, <3>2 DEF URowSound, UStates
    <3> QED
      BY <1>2, <1>5, <3>1, <3>2, <3>3 DEF URowSound
  <2> QED
    BY <2>1, <2>2
<1>8. USessionSide'
  BY <1>2, <1>4, <1>5, USessionKept
<1> QED
  BY <1>2, <1>5, <1>6, <1>7, <1>8 DEF UInv, UInteractionSide

(* A callback that moves on without touching the rows.                      *)
LEMMA UMoveInv ==
  ASSUME UInv, NEW s \in UStates, NEW to \in UCallbackPCs \ {"none", "away"},
         uPc[s] \notin {"none", "consume.save", "done"}, uPc' = [uPc EXCEPT ![s] = to],
         uRow' = uRow, uUid' = uUid, uWho' \in [UStates -> UUsers \cup {UNone}], uWho'[s] \in UUsers,
         \A t \in UStates : t # s => uWho'[t] = uWho[t],
         uPc[s] # "away" => uWho'[s] = uWho[s],
         uCopy' \in [UStates -> UInteractionRow \cup {UNoInteraction}],
         \A t \in UStates : t # s => uCopy'[t] = uCopy[t],
         UCopySound(s)', to # "done",
         to \in {"set", "consume.save"} => uPc[s] = "set"
  PROVE  UInteractionSide'
<1>1. /\ uPc' \in [UStates -> UCallbackPCs] /\ uPc'[s] = to
      /\ \A t \in UStates : t # s => uPc'[t] = uPc[t]
  BY DEF UInv, UInteractionSide
<1>2. ASSUME NEW t \in UStates PROVE UDrawn(t)' /\ UCopySound(t)'
  <2>1. CASE t = s
    BY <1>1, <2>1 DEF UInv, UInteractionSide, UDrawn
  <2>2. CASE t # s
    BY <1>1, <2>2 DEF UInv, UInteractionSide, UDrawn, UCopySound
  <2> QED
    BY <2>1, <2>2
<1>3. ASSUME NEW u \in UUids PROVE URowSound(u)'
  <2>1. URowSound(u) /\ (uRow[u].state \in UStates \/ (uRow[u].state = 0 /\ ~uRow[u].consumed))
    BY DEF UInv, UInteractionSide, UInteractionRow, UNoInteraction
  <2> QED
    BY <1>1, <2>1 DEF URowSound
<1> QED
  BY <1>1, <1>2, <1>3 DEF UInv, UInteractionSide

LEMMA UAuthenticatesInv ==
  ASSUME UInv, NEW s \in UStates, UUpstreamAuthenticates(s)
  PROVE  UInv'
<1>1. PICK user \in UUsers : uWho' = [uWho EXCEPT ![s] = user]
  BY DEF UUpstreamAuthenticates
<1>2. /\ uPc[s] = "away" /\ uPc' = [uPc EXCEPT ![s] = "code"]
      /\ UNCHANGED <<uRow, uUid, uCopy, uSess, uModel, uSaves, uFin, uOut, uEnded>>
  BY DEF UUpstreamAuthenticates
<1>3. /\ uWho' \in [UStates -> UUsers \cup {UNone}] /\ uWho'[s] \in UUsers
      /\ \A t \in UStates : t # s => uWho'[t] = uWho[t] /\ uPc'[t] = uPc[t]
      /\ uPc'[s] = "code"
  BY <1>1, <1>2 DEF UInv, UInteractionSide
<1>4. UInteractionSide'
  <2>1. UCopySound(s)' /\ uCopy' \in [UStates -> UInteractionRow \cup {UNoInteraction}]
    BY <1>2, <1>3 DEF UCopySound, UInv, UInteractionSide
  <2>2. "code" \in UCallbackPCs \ {"none", "away"}
    BY DEF UCallbackPCs
  <2> QED
    BY <1>2, <1>3, <2>1, <2>2, UMoveInv
<1>5. USessionSide'
  BY <1>2, <1>3, USessionKept
<1> QED
  BY <1>4, <1>5 DEF UInv

LEMMA UFailInv ==
  ASSUME UInv, NEW s \in UStates, UCallbackFails(s), uPc[s] \in {"code", "staged", "set"}
  PROVE  UInv'
<1>1. /\ uPc' = [uPc EXCEPT ![s] = "failed"]
      /\ UNCHANGED <<uRow, uUid, uWho, uCopy, uSess, uModel, uSaves, uFin, uOut, uEnded>>
  BY DEF UCallbackFails
<1>2. /\ uPc'[s] = "failed" /\ \A t \in UStates : t # s => uPc'[t] = uPc[t]
      /\ uWho[s] \in UUsers
  BY <1>1 DEF UInv, UInteractionSide, UDrawn
<1>3. UInteractionSide'
  <2>1. /\ UCopySound(s)' /\ uCopy' \in [UStates -> UInteractionRow \cup {UNoInteraction}]
        /\ uWho' \in [UStates -> UUsers \cup {UNone}]
    BY <1>1, <1>2 DEF UCopySound, UInv, UInteractionSide
  <2>2. "failed" \in UCallbackPCs \ {"none", "away"}
    BY DEF UCallbackPCs
  <2> QED
    BY <1>1, <1>2, <2>1, <2>2, UMoveInv
<1>4. USessionSide'
  BY <1>1, <1>2, USessionKept
<1> QED
  BY <1>3, <1>4 DEF UInv

LEMMA UHandleInv ==
  ASSUME UInv, NEW s \in UStates, UHandleUpstreamCallback(s)
  PROVE  UInv'
<1>1. CASE UCallbackFails(s)
  BY <1>1, UFailInv DEF UHandleUpstreamCallback
<1>2. CASE /\ uPc' = [uPc EXCEPT ![s] = "claims"]
           /\ UNCHANGED <<uRow, uUid, uWho, uCopy, uSess, uModel, uSaves, uFin, uOut, uEnded>>
  <2>1. uPc[s] = "code"
    BY DEF UHandleUpstreamCallback
  <2>2. /\ uPc'[s] = "claims" /\ \A t \in UStates : t # s => uPc'[t] = uPc[t]
        /\ uWho[s] \in UUsers
    BY <1>2, <2>1 DEF UInv, UInteractionSide, UDrawn
  <2>3. UInteractionSide'
    <3>1. /\ UCopySound(s)' /\ uCopy' \in [UStates -> UInteractionRow \cup {UNoInteraction}]
          /\ uWho' \in [UStates -> UUsers \cup {UNone}]
      BY <1>2, <2>2 DEF UCopySound, UInv, UInteractionSide
    <3>2. "claims" \in UCallbackPCs \ {"none", "away"}
      BY DEF UCallbackPCs
    <3> QED
      BY <1>2, <2>1, <2>2, <3>1, <3>2, UMoveInv
  <2>4. USessionSide'
    BY <1>2, <2>1, <2>2, USessionKept
  <2> QED
    BY <2>3, <2>4 DEF UInv
<1> QED
  BY <1>1, <1>2 DEF UHandleUpstreamCallback

LEMMA UStagePendingInv ==
  ASSUME UInv, NEW s \in UStates, UStagePending(s)
  PROVE  UInv'
<1> DEFINE row == [live |-> TRUE, user |-> uWho[s], token |-> s, model |-> UNone]
<1>1. /\ uPc[s] = "claims" /\ uPc' = [uPc EXCEPT ![s] = "staged"] /\ uSess' = Append(uSess, row)
      /\ UNCHANGED <<uRow, uUid, uWho, uCopy, uModel, uSaves, uFin, uOut, uEnded>>
  BY DEF UStagePending
<1>2. /\ uPc'[s] = "staged" /\ \A t \in UStates : t # s => uPc'[t] = uPc[t]
      /\ uWho[s] \in UUsers
  BY <1>1 DEF UInv, UInteractionSide, UDrawn
<1>3. row \in USessionRow /\ row.token = s /\ row.user = uWho[s] /\ row.model = UNone
  BY <1>2 DEF USessionRow
<1> HIDE DEF row
<1>4. UInteractionSide'
  <2>1. /\ UCopySound(s)' /\ uCopy' \in [UStates -> UInteractionRow \cup {UNoInteraction}]
        /\ uWho' \in [UStates -> UUsers \cup {UNone}]
    BY <1>1, <1>2 DEF UCopySound, UInv, UInteractionSide
  <2>2. "staged" \in UCallbackPCs \ {"none", "away"}
    BY DEF UCallbackPCs
  <2> QED
    BY <1>1, <1>2, <2>1, <2>2, UMoveInv
<1>5. USessionSide'
  <2>1. ASSUME NEW token, NEW user, UTokenOf(token, user) PROVE UTokenOf(token, user)'
    BY <1>1, <1>2, <2>1 DEF UTokenOf
  <2>2. /\ uSess' \in Seq(USessionRow) /\ DOMAIN uSess' = 1 .. Len(uSess) + 1
        /\ uSess'[Len(uSess) + 1] = row /\ \A i \in DOMAIN uSess : uSess'[i] = uSess[i]
        /\ DOMAIN uSess = 1 .. Len(uSess)
    BY <1>1, <1>3, AppendProperties DEF UInv, USessionSide
  <2>3. ASSUME NEW i \in DOMAIN uSess' PROVE USessSound(i)'
    <3>1. CASE i \in DOMAIN uSess
      BY <1>1, <2>1, <2>2, <3>1 DEF UInv, USessionSide, USessSound
    <3>2. CASE i = Len(uSess) + 1
      BY <1>1, <1>2, <1>3, <2>2, <3>2 DEF USessSound, UTokenOf
    <3> QED
      BY <2>2, <3>1, <3>2 DEF UInv, USessionSide
  <2>4. ASSUME NEW u \in UUids PROVE UFinSound(u)' /\ UOutSound(u)' /\ UModelSound(u)'
    BY <1>1, <2>1 DEF UInv, USessionSide, UFinSound, UOutSound, UModelSound
  <2>5. USessionAuthenticated'
    <3> SUFFICES ASSUME NEW u \in UUids, uModel[u] # UNone
                 PROVE  \E t \in UStates : /\ uUid[t] = u /\ uWho[t] = uModel[u]
                                           /\ uPc'[t] \in {"consume.save", "done"}
      BY <1>1 DEF USessionAuthenticated
    <3>1. PICK t \in UStates : /\ uUid[t] = u /\ uWho[t] = uModel[u]
                               /\ uPc[t] \in {"consume.save", "done"}
      BY DEF UInv, USessionSide, USessionAuthenticated
    <3> QED
      BY <1>1, <1>2, <3>1
  <2> QED
    BY <1>1, <2>2, <2>3, <2>4, <2>5 DEF UInv, USessionSide
<1> QED
  BY <1>4, <1>5 DEF UInv

(* The row that carries a state is that of the state's own interaction.     *)
LEMMA UFoundRow ==
  ASSUME UInv, NEW s \in UStates, NEW u \in UFindByState(s)
  PROVE  /\ u \in UUids /\ uUid[s] = u /\ uRow[u] \in UInteractionRow /\ uRow[u].state = s
         /\ uRow[u].consumed => uPc[s] = "done"
         /\ uPc[s] = "set" => uRow[u].user = uWho[s]
<1>1. u \in UUids /\ uRow[u].state = s /\ s # 0
  BY DEF UFindByState, UStates
<1>2. uRow[u] \in UInteractionRow
  BY <1>1 DEF UInv, UInteractionSide, UNoInteraction
<1> QED
  BY <1>1, <1>2 DEF UInv, UInteractionSide, URowSound

LEMMA ULoadInv ==
  ASSUME UInv, NEW s \in UStates, USetTenantUserId(s) \/ UConsumeInteraction(s)
  PROVE  UInv'
<1>1. CASE UCallbackFails(s)
  BY <1>1, UFailInv DEF USetTenantUserId, UConsumeInteraction, ULoad
<1>2. CASE ~UCallbackFails(s)
  <2>1. PICK copy \in UInteractionRow, to \in {"set.save", "consume.save"} :
          /\ uCopy' = [uCopy EXCEPT ![s] = copy] /\ uPc' = [uPc EXCEPT ![s] = to]
          /\ uPc[s] \in {"staged", "set"} /\ copy.state = s /\ copy.user = uWho[s]
          /\ copy.consumed <=> to = "consume.save"
          /\ to = "consume.save" => uPc[s] = "set"
          /\ UNCHANGED <<uRow, uUid, uWho, uSess, uModel, uSaves, uFin, uOut, uEnded>>
    <3>1. CASE USetTenantUserId(s)
      <4>1. PICK u \in UFindByState(s) :
              /\ uPc[s] = "staged" /\ uPc' = [uPc EXCEPT ![s] = "set.save"]
              /\ uCopy' = [uCopy EXCEPT ![s] = [uRow[u] EXCEPT !.user = uWho[s]]]
              /\ UNCHANGED <<uRow, uUid, uWho, uSess, uModel, uSaves, uFin, uOut, uEnded>>
        BY <1>2, <3>1 DEF USetTenantUserId, ULoad
      <4> DEFINE copy == [uRow[u] EXCEPT !.user = uWho[s]]
      <4>2. uRow[u] \in UInteractionRow /\ uRow[u].state = s /\ ~uRow[u].consumed
        BY <4>1, UFoundRow
      <4>3. uWho[s] \in UUsers
        BY <4>1 DEF UInv, UInteractionSide, UDrawn
      <4>4. copy \in UInteractionRow /\ copy.state = s /\ copy.user = uWho[s] /\ ~copy.consumed
        BY <4>2, <4>3 DEF UInteractionRow
      <4> HIDE DEF copy
      <4> QED
        BY <4>1, <4>4 DEF copy
    <3>2. CASE UConsumeInteraction(s)
      <4>1. PICK u \in UFindByState(s) :
              /\ uPc[s] = "set" /\ uPc' = [uPc EXCEPT ![s] = "consume.save"]
              /\ uCopy' = [uCopy EXCEPT ![s] = [uRow[u] EXCEPT !.consumed = TRUE]]
              /\ UNCHANGED <<uRow, uUid, uWho, uSess, uModel, uSaves, uFin, uOut, uEnded>>
        BY <1>2, <3>2 DEF UConsumeInteraction, ULoad
      <4> DEFINE copy == [uRow[u] EXCEPT !.consumed = TRUE]
      <4>2. uRow[u] \in UInteractionRow /\ uRow[u].state = s /\ uRow[u].user = uWho[s]
        BY <4>1, UFoundRow
      <4>3. copy \in UInteractionRow /\ copy.state = s /\ copy.user = uWho[s] /\ copy.consumed
        BY <4>2 DEF UInteractionRow
      <4> HIDE DEF copy
      <4> QED
        BY <4>1, <4>3 DEF copy
    <3> QED
      BY <3>1, <3>2
  <2>2. /\ uPc'[s] = to /\ \A t \in UStates : t # s => uPc'[t] = uPc[t] /\ uCopy'[t] = uCopy[t]
        /\ uCopy'[s] = copy /\ uCopy' \in [UStates -> UInteractionRow \cup {UNoInteraction}]
        /\ uWho[s] \in UUsers /\ uWho' \in [UStates -> UUsers \cup {UNone}]
    BY <2>1 DEF UInv, UInteractionSide, UDrawn
  <2>3. UCopySound(s)'
    BY <2>1, <2>2 DEF UCopySound
  <2>4. to \in UCallbackPCs \ {"none", "away"}
    BY <2>1 DEF UCallbackPCs
  <2>5. UInteractionSide'
    BY <2>1, <2>2, <2>3, <2>4, UMoveInv
  <2>6. USessionSide'
    BY <2>1, <2>2, USessionKept
  <2> QED
    BY <2>5, <2>6 DEF UInv
<1> QED
  BY <1>1, <1>2

LEMMA USaveInv ==
  ASSUME UInv, NEW s \in UStates, NEW from, NEW to, USaveInteraction(s, from, to),
         (from = "set.save" /\ to = "set") \/ (from = "consume.save" /\ to = "done")
  PROVE  UInv'
<1>0. PICK u \in UUids : u = uUid[s]
  BY DEF USaveInteraction, UInv, UInteractionSide, UDrawn
<1>1. /\ uPc[s] = from /\ uPc' = [uPc EXCEPT ![s] = to] /\ uRow' = [uRow EXCEPT ![u] = uCopy[s]]
      /\ uCopy' = [uCopy EXCEPT ![s] = UNoInteraction]
      /\ UNCHANGED <<uUid, uWho, uSess, uModel, uSaves, uFin, uOut, uEnded>>
  BY <1>0 DEF USaveInteraction
<1>2. /\ uCopy[s] \in UInteractionRow /\ uCopy[s].state = s /\ uCopy[s].user = uWho[s]
      /\ uCopy[s].consumed <=> to = "done"
  BY <1>1 DEF UInv, UInteractionSide, UCopySound
<1>3. /\ uPc'[s] = to /\ uPc' \in [UStates -> UCallbackPCs]
      /\ uCopy' \in [UStates -> UInteractionRow \cup {UNoInteraction}]
      /\ uRow' \in [UUids -> UInteractionRow \cup {UNoInteraction}] /\ uRow'[u] = uCopy[s]
      /\ \A t \in UStates : t # s => uPc'[t] = uPc[t] /\ uCopy'[t] = uCopy[t]
      /\ \A v \in UUids : v # u => uRow'[v] = uRow[v]
  BY <1>1, <1>2 DEF UInv, UInteractionSide, UCallbackPCs
<1>4. ASSUME NEW t \in UStates PROVE UDrawn(t)' /\ UCopySound(t)'
  <2>1. CASE t = s
    BY <1>1, <1>3, <2>1 DEF UInv, UInteractionSide, UDrawn, UCopySound
  <2>2. CASE t # s
    BY <1>1, <1>3, <2>2 DEF UInv, UInteractionSide, UDrawn, UCopySound
  <2> QED
    BY <2>1, <2>2
<1>5. ASSUME NEW v \in UUids PROVE URowSound(v)'
  <2>1. CASE v = u
    <3>1. uRow'[v] = uCopy[s] /\ uUid'[s] = v /\ uWho'[s] = uWho[s] /\ s # 0
      BY <1>0, <1>1, <1>3, <2>1 DEF UStates
    <3> QED
      BY <1>2, <1>3, <3>1 DEF URowSound
  <2>2. CASE v # u
    <3>1. URowSound(v) /\ uRow'[v] = uRow[v]
      BY <1>3, <2>2 DEF UInv, UInteractionSide
    <3>2. uRow[v].state \in UStates \/ (uRow[v].state = 0 /\ ~uRow[v].consumed)
      BY DEF UInv, UInteractionSide, UInteractionRow, UNoInteraction
    <3>3. uRow[v].state # s
      BY <1>0, <2>2, <3>1, <3>2 DEF URowSound, UStates
    <3> QED
      BY <1>1, <1>3, <3>1, <3>2, <3>3 DEF URowSound
  <2> QED
    BY <2>1, <2>2
<1>6. USessionSide'
  BY <1>1, <1>3, USessionKept
<1> QED
  BY <1>1, <1>3, <1>4, <1>5, <1>6 DEF UInv, UInteractionSide

LEMMA UPurgeInteractionInv ==
  ASSUME UInv, NEW u \in UUids, UPurgeInteraction(u)
  PROVE  UInv'
<1>1. /\ uRow' = [uRow EXCEPT ![u] = UNoInteraction]
      /\ UNCHANGED <<uUid, uWho, uPc, uCopy, uSess, uModel, uSaves, uFin, uOut, uEnded>>
  BY DEF UPurgeInteraction
<1>2. /\ uRow' \in [UUids -> UInteractionRow \cup {UNoInteraction}] /\ uRow'[u] = UNoInteraction
      /\ \A v \in UUids : v # u => uRow'[v] = uRow[v]
  BY <1>1 DEF UInv, UInteractionSide
<1>3. \A t \in UStates : UDrawn(t)' /\ UCopySound(t)'
  BY <1>1 DEF UInv, UInteractionSide, UDrawn, UCopySound
<1>4. ASSUME NEW v \in UUids PROVE URowSound(v)'
  <2>1. CASE v = u
    BY <1>2, <2>1 DEF URowSound, UNoInteraction
  <2>2. CASE v # u
    BY <1>1, <1>2, <2>2 DEF URowSound, UInv, UInteractionSide
  <2> QED
    BY <2>1, <2>2
<1>5. USessionSide'
  BY <1>1, USessionKept
<1> QED
  BY <1>1, <1>2, <1>3, <1>4, <1>5 DEF UInv, UInteractionSide

LEMMA UTokenKept ==
  ASSUME UNCHANGED uInteraction, NEW token, NEW user, UTokenOf(token, user)
  PROVE  UTokenOf(token, user)'
BY DEF uInteraction, UTokenOf

LEMMA UFinKept ==
  ASSUME UInv, NEW u \in UUids, UNCHANGED uInteraction, uFin'[u] = uFin[u],
         uModel'[u] \in {uModel[u], UNone}
  PROVE  UFinSound(u)'
<1>1. UFinSound(u)
  BY DEF UInv, USessionSide
<1> QED
  BY <1>1, UTokenKept DEF UFinSound

(* What a step outside the callbacks has to establish.                      *)
LEMMA USessionStep ==
  ASSUME UInv, UNCHANGED uInteraction,
         uSess' \in Seq(USessionRow), \A i \in DOMAIN uSess' : USessSound(i)',
         uModel' \in [UUids -> UUsers \cup {UNone}], \A u \in UUids : uModel'[u] \in {uModel[u], UNone},
         uSaves' \in [UUids -> 0 .. UMaxSaves], \A u \in UUids : uSaves'[u] = 0 => uSaves[u] = 0,
         uFin' \in [UUids -> UFinStates], \A u \in UUids : UFinSound(u)',
         uOut' \in [UUids -> [pc : {"idle", "ending", "deleting"}, row : Nat, token : Nat]],
         \A u \in UUids : UOutSound(u)',
         uEnded' \subseteq UStates
  PROVE  UInv'
<1>1. \A u \in UUids : UModelSound(u)'
  BY DEF UInv, USessionSide, UModelSound
<1>2. USessionAuthenticated'
  BY DEF UInv, USessionSide, USessionAuthenticated, uInteraction
<1>3. UInteractionSide'
  BY UInteractionKept DEF UInv
<1> QED
  BY <1>1, <1>2, <1>3 DEF UInv, USessionSide

(* A step of a listener that leaves the upstream sessions alone.            *)
LEMMA UListenerStep ==
  ASSUME UInv, NEW u \in UUids, NEW fin \in UFinStates, UNCHANGED uInteraction,
         uFin' = [uFin EXCEPT ![u] = fin], UNCHANGED <<uSess, uModel, uOut, uEnded>>,
         uSaves' \in [UUids -> 0 .. UMaxSaves], \A v \in UUids : uSaves'[v] = 0 => uSaves[v] = 0,
         UFinSound(u)'
  PROVE  UInv'
<1>1. uFin' \in [UUids -> UFinStates] /\ \A v \in UUids : v # u => uFin'[v] = uFin[v]
  BY DEF UInv, USessionSide
<1>2. ASSUME NEW v \in UUids PROVE UFinSound(v)'
  BY <1>1, UFinKept
<1>3. ASSUME NEW i \in DOMAIN uSess PROVE USessSound(i)'
  BY UTokenKept DEF UInv, USessionSide, USessSound
<1>4. \A v \in UUids : UOutSound(v)'
  BY DEF UInv, USessionSide, UOutSound
<1>5. /\ uSess' \in Seq(USessionRow) /\ uModel' \in [UUids -> UUsers \cup {UNone}]
      /\ uOut' \in [UUids -> [pc : {"idle", "ending", "deleting"}, row : Nat, token : Nat]]
      /\ uEnded' \subseteq UStates
  BY DEF UInv, USessionSide
<1> QED
  BY <1>1, <1>2, <1>3, <1>4, <1>5, USessionStep

LEMMA UNoFinFacts == UNoFin \in UFinStates /\ UNoFin.pc = "idle"
BY DEF UNoFin, UFinStates

LEMMA USessionSavedInv ==
  ASSUME UInv, NEW u \in UUids, USessionSaved(u)
  PROVE  UInv'
<1> DEFINE fin == [UNoFin EXCEPT !.pc = "model", !.user = uModel[u]]
<1>1. /\ uSaves' = [uSaves EXCEPT ![u] = uSaves[u] + 1] /\ uFin' = [uFin EXCEPT ![u] = fin]
      /\ uSaves[u] < UMaxSaves /\ UNCHANGED <<uInteraction, uSess, uModel, uOut, uEnded>>
  BY DEF USessionSaved
<1>2. fin \in UFinStates /\ fin.pc = "model" /\ fin.user = uModel[u]
  BY DEF UNoFin, UFinStates, UInv, USessionSide
<1> HIDE DEF fin
<1>3. uSaves' \in [UUids -> 0 .. UMaxSaves] /\ \A v \in UUids : uSaves'[v] = 0 => uSaves[v] = 0
  BY <1>1, UConstantsAssumption DEF UInv, USessionSide
<1>4. UFinSound(u)'
  BY <1>1, <1>2 DEF UFinSound, UInv, USessionSide
<1> QED
  BY <1>1, <1>2, <1>3, <1>4, UListenerStep

LEMMA UFinModelInv ==
  ASSUME UInv, NEW u \in UUids, UFinModel(u)
  PROVE  UInv'
<1> DEFINE fin == IF uModel[u] = UNone THEN UNoFin ELSE [uFin[u] EXCEPT !.pc = "pending"]
<1>1. /\ uFin' = [uFin EXCEPT ![u] = fin] /\ uFin[u].pc = "model" /\ uFin[u] \in UFinStates
      /\ UNCHANGED <<uInteraction, uSess, uModel, uSaves, uOut, uEnded>>
  BY DEF UFinModel, UFinTo, UInv, USessionSide
<1>2. /\ fin \in UFinStates /\ fin.pc \in {"idle", "pending"}
      /\ fin.pc = "pending" => fin.user = uFin[u].user
  BY <1>1, UNoFinFacts DEF UFinStates
<1> HIDE DEF fin
<1>3. UFinSound(u) /\ uFin'[u] = fin
  BY <1>1 DEF UInv, USessionSide
<1>4. UFinSound(u)'
  BY <1>1, <1>2, <1>3 DEF UFinSound
<1>5. uSaves' \in [UUids -> 0 .. UMaxSaves]
  BY <1>1 DEF UInv, USessionSide
<1> QED
  BY <1>1, <1>2, <1>4, <1>5, UListenerStep

LEMMA USessDomain ==
  ASSUME UInv PROVE Len(uSess) \in Nat /\ DOMAIN uSess = 1 .. Len(uSess) /\ \A i \in DOMAIN uSess : uSess[i] \in USessionRow
BY DEF UInv, USessionSide

LEMMA ULatestFound ==
  ASSUME UInv, NEW is \in SUBSET DOMAIN uSess
  PROVE  ULatest(is) \in Nat /\ (ULatest(is) # 0 => ULatest(is) \in is)
<1>1. PICK n \in Nat : n = Len(uSess)
  BY USessDomain
<1>2. is \in SUBSET (1 .. n)
  BY <1>1, USessDomain
<1>3. (is = {} /\ ULatest(is) = 0) \/ (ULatest(is) \in is /\ ULatest(is) # 0)
  BY <1>2, ULatestFacts
<1> QED
  BY <1>2, <1>3

LEMMA UFinPendingInv ==
  ASSUME UInv, NEW u \in UUids, UFinPending(u)
  PROVE  UInv'
<1> DEFINE i == UFindLatestPending(uFin[u].user)
           old == UFindByModel(u)
           found == [uFin[u] EXCEPT !.pc = "existing", !.pend = i, !.token = uSess[i].token, !.old = old]
           fin == IF i = 0 THEN UNoFin ELSE found
<1>1. /\ uFin' = [uFin EXCEPT ![u] = fin] /\ uFin[u].pc = "pending" /\ uFin[u] \in UFinStates
      /\ UNCHANGED <<uInteraction, uSess, uModel, uSaves, uOut, uEnded>>
  BY DEF UFinPending, UFinTo, UInv, USessionSide
<1>2. old \in Nat
  <2> DEFINE is == {k \in DOMAIN uSess : uSess[k].live /\ uSess[k].model = u}
  <2>1. is \in SUBSET DOMAIN uSess
    OBVIOUS
  <2> HIDE DEF is
  <2>2. ULatest(is) \in Nat
    BY <2>1, ULatestFound
  <2> QED
    BY <2>2 DEF UFindByModel, is
<1>3. i = 0 \/ (i \in DOMAIN uSess /\ i \in Nat /\ uSess[i].user = uFin[u].user)
  <2> DEFINE is == {k \in DOMAIN uSess : UPending(k) /\ uSess[k].user = uFin[u].user}
  <2>1. is \in SUBSET DOMAIN uSess
    OBVIOUS
  <2> HIDE DEF is
  <2>2. ULatest(is) = 0 \/ (ULatest(is) \in is /\ ULatest(is) \in Nat)
    BY <2>1, ULatestFound
  <2> QED
    BY <2>2 DEF UFindLatestPending, is
<1> HIDE DEF i, old
<1>4. i # 0 => UTokenOf(uSess[i].token, uSess[i].user)
  BY <1>3 DEF UInv, USessionSide, USessSound
<1>5. i # 0 => uSess[i].token \in Nat
  BY <1>4 DEF UTokenOf, UStates
<1>6. i # 0 => /\ found \in UFinStates /\ found.pc = "existing" /\ found.user = uFin[u].user
               /\ found.token = uSess[i].token
  BY <1>1, <1>2, <1>3, <1>5 DEF UFinStates
<1> HIDE DEF found
<1>7. fin \in UFinStates /\ uFin'[u] = fin /\ UFinSound(u)
  BY <1>1, <1>6, UNoFinFacts DEF UInv, USessionSide
<1>8. UFinSound(u)'
  <2>1. CASE i = 0
    BY <1>7, <2>1, UNoFinFacts DEF UFinSound
  <2>2. CASE i # 0
    <3>1. UTokenOf(found.token, found.user) /\ uFin'[u] = found
      BY <1>3, <1>4, <1>6, <1>7, <2>2
    <3>2. \A token, user : UTokenOf(token, user) => UTokenOf(token, user)'
      BY <1>1, UTokenKept
    <3> QED
      BY <1>1, <1>6, <1>7, <2>2, <3>1, <3>2 DEF UFinSound
  <2> QED
    BY <2>1, <2>2
<1>9. uSaves' \in [UUids -> 0 .. UMaxSaves]
  BY <1>1 DEF UInv, USessionSide
<1> HIDE DEF fin
<1> QED
  BY <1>1, <1>7, <1>8, <1>9, UListenerStep

(* The upstream sessions after a step that adds none.                       *)
LEMMA USessPointwise ==
  ASSUME UInv, UNCHANGED uInteraction, uSess' = [i \in DOMAIN uSess |-> uSess'[i]],
         \A i \in DOMAIN uSess :
           /\ uSess'[i] \in USessionRow /\ UTokenOf(uSess'[i].token, uSess'[i].user)
           /\ uSess'[i].live /\ uSess'[i].model # UNone => uModel'[uSess'[i].model] = uSess'[i].user
  PROVE  uSess' \in Seq(USessionRow) /\ \A i \in DOMAIN uSess' : USessSound(i)'
<1>1. DOMAIN uSess = 1 .. Len(uSess) /\ Len(uSess) \in Nat
  BY USessDomain
<1>2. uSess' \in Seq(USessionRow)
  <2>1. uSess' \in [1 .. Len(uSess) -> USessionRow]
    BY <1>1
  <2> QED
    BY <1>1, <2>1
<1>3. DOMAIN uSess' = DOMAIN uSess
  OBVIOUS
<1>4. ASSUME NEW i \in DOMAIN uSess PROVE USessSound(i)'
  BY UTokenKept DEF USessSound
<1> QED
  BY <1>2, <1>3, <1>4

(* Writing a sound row at an index, and ending one.                         *)
LEMMA UWriteSess ==
  ASSUME UInv, NEW k, NEW row \in USessionRow, uSess' = [uSess EXCEPT ![k] = row],
         UNCHANGED uInteraction, UNCHANGED uModel, UTokenOf(row.token, row.user),
         row.live /\ row.model # UNone => uModel[row.model] = row.user
  PROVE  uSess' \in Seq(USessionRow) /\ \A i \in DOMAIN uSess' : USessSound(i)'
<1>1. /\ uSess' = [i \in DOMAIN uSess |-> uSess'[i]]
      /\ \A i \in DOMAIN uSess : uSess'[i] \in {uSess[i], row}
  OBVIOUS
<1>2. \A i \in DOMAIN uSess : uSess[i] \in USessionRow /\ USessSound(i)
  BY USessDomain DEF UInv, USessionSide
<1> QED
  BY <1>1, <1>2, USessPointwise DEF USessSound

LEMMA UEndSess ==
  ASSUME UInv, NEW k, uSess' = [uSess EXCEPT ![k].live = FALSE],
         UNCHANGED uInteraction, UNCHANGED uModel
  PROVE  uSess' \in Seq(USessionRow) /\ \A i \in DOMAIN uSess' : USessSound(i)'
<1>1. /\ uSess' = [i \in DOMAIN uSess |-> uSess'[i]]
      /\ \A i \in DOMAIN uSess : uSess'[i] \in {uSess[i], [uSess[i] EXCEPT !.live = FALSE]}
  OBVIOUS
<1>2. \A i \in DOMAIN uSess : uSess[i] \in USessionRow /\ USessSound(i)
  BY USessDomain DEF UInv, USessionSide
<1>3. ASSUME NEW i \in DOMAIN uSess
      PROVE  /\ uSess'[i] \in USessionRow /\ uSess'[i].token = uSess[i].token
             /\ uSess'[i].user = uSess[i].user /\ uSess'[i].model = uSess[i].model
             /\ uSess'[i].live => uSess[i].live
  BY <1>1, <1>2 DEF USessionRow
<1>4. ASSUME NEW i \in DOMAIN uSess
      PROVE  /\ UTokenOf(uSess'[i].token, uSess'[i].user)
             /\ uSess'[i].live /\ uSess'[i].model # UNone => uModel'[uSess'[i].model] = uSess'[i].user
  BY <1>2, <1>3 DEF USessSound
<1> QED
  BY <1>1, <1>3, <1>4, USessPointwise

LEMMA UFinWriteInv ==
  ASSUME UInv, NEW u \in UUids, UFinUpdate(u) \/ UFinDelete(u)
  PROVE  UInv'
<1> DEFINE f == uFin[u]
           row == [live |-> TRUE, user |-> f.user, token |-> f.token, model |-> u]
           deleting == [f EXCEPT !.pc = "delete"]
<1>1. /\ f \in UFinStates /\ UFinSound(u) /\ f.pc \in {"existing", "delete"}
      /\ UTokenOf(f.token, f.user)
      /\ UNCHANGED <<uInteraction, uModel, uSaves, uOut, uEnded>>
  BY DEF UFinUpdate, UFinDelete, UInv, USessionSide, UFinSound
<1>2. deleting \in UFinStates /\ deleting.user = f.user /\ deleting.token = f.token /\ deleting.pc = "delete"
  BY <1>1 DEF UFinStates
<1> HIDE DEF deleting
<1>3. PICK fin \in {UNoFin, deleting} : uFin' = [uFin EXCEPT ![u] = fin]
  BY DEF UFinUpdate, UFinDelete, UFinTo, deleting
<1>4. /\ uFin' \in [UUids -> UFinStates] /\ uFin'[u] = fin
      /\ \A v \in UUids : v # u => uFin'[v] = uFin[v]
  BY <1>2, <1>3, UNoFinFacts DEF UInv, USessionSide
<1>5. ASSUME NEW v \in UUids PROVE UFinSound(v)'
  <2>1. CASE v # u
    BY <1>1, <1>4, <2>1, UFinKept
  <2>2. CASE v = u /\ fin = UNoFin
    BY <1>4, <2>2, UNoFinFacts DEF UFinSound
  <2>3. CASE v = u /\ fin = deleting
    <3>1. \A token, user : UTokenOf(token, user) => UTokenOf(token, user)'
      BY <1>1, UTokenKept
    <3>2. uFin'[v].token = f.token /\ uFin'[v].user = f.user
      BY <1>2, <1>4, <2>3
    <3> QED
      BY <1>1, <1>2, <1>4, <2>3, <3>1, <3>2 DEF UFinSound
  <2> QED
    BY <2>1, <2>2, <2>3
<1>6. uSess' \in Seq(USessionRow) /\ \A i \in DOMAIN uSess' : USessSound(i)'
  <2>1. CASE UFinDelete(u)
    BY <1>1, <2>1, UEndSess DEF UFinDelete
  <2>2. CASE UFinUpdate(u) /\ uModel[u] = UNone
    <3>1. uSess' = uSess
      BY <2>2 DEF UFinUpdate
    <3> QED
      BY <1>1, <3>1, UTokenKept DEF UInv, USessionSide, USessSound
  <2>3. CASE UFinUpdate(u) /\ uModel[u] # UNone
    <3>1. PICK k : uSess' = [uSess EXCEPT ![k] = row]
      BY <2>3 DEF UFinUpdate
    <3>2. /\ row \in USessionRow /\ row.token = f.token /\ row.user = f.user
          /\ row.model = u
      BY <1>1 DEF USessionRow, UTokenOf
    <3>3. uModel[u] = f.user
      BY <1>1, <2>3 DEF UFinSound
    <3> HIDE DEF row
    <3> QED
      BY <1>1, <3>1, <3>2, <3>3, UWriteSess
  <2> QED
    BY <2>1, <2>2, <2>3
<1>7. \A v \in UUids : UOutSound(v)'
  BY <1>1 DEF UInv, USessionSide, UOutSound
<1> QED
  BY <1>1, <1>4, <1>5, <1>6, <1>7, USessionStep DEF UInv, USessionSide

(* Deleting a Session row ends the upstream sessions bound to it.           *)
LEMMA UDeleteModelFacts ==
  ASSUME UInv, NEW u \in UUids, UDeleteModel(u), UNCHANGED uInteraction
  PROVE  /\ uSess' \in Seq(USessionRow) /\ \A i \in DOMAIN uSess' : USessSound(i)'
         /\ uModel' \in [UUids -> UUsers \cup {UNone}]
         /\ \A v \in UUids : uModel'[v] \in {uModel[v], UNone}
<1>1. /\ uModel' \in [UUids -> UUsers \cup {UNone}] /\ uModel'[u] = UNone
      /\ \A v \in UUids : v # u => uModel'[v] = uModel[v]
  BY DEF UDeleteModel, UInv, USessionSide
<1>2. /\ DOMAIN uSess' = DOMAIN uSess
      /\ \A i \in DOMAIN uSess : uSess'[i] = IF uSess[i].model = u THEN [uSess[i] EXCEPT !.live = FALSE]
                                             ELSE uSess[i]
  BY DEF UDeleteModel
<1>3. ASSUME NEW i \in DOMAIN uSess
      PROVE  /\ uSess'[i] \in USessionRow /\ uSess'[i].token = uSess[i].token
             /\ uSess'[i].user = uSess[i].user /\ uSess'[i].model = uSess[i].model
             /\ uSess'[i].live => uSess[i].live /\ uSess[i].model # u
  BY <1>2, USessDomain DEF USessionRow
<1>4. ASSUME NEW i \in DOMAIN uSess
      PROVE  /\ UTokenOf(uSess'[i].token, uSess'[i].user)
             /\ uSess'[i].live /\ uSess'[i].model # UNone => uModel'[uSess'[i].model] = uSess'[i].user
  <2>1. USessSound(i) /\ uSess[i] \in USessionRow
    BY USessDomain DEF UInv, USessionSide
  <2> QED
    BY <1>1, <1>3, <2>1 DEF USessSound, USessionRow
<1>5. uSess' = [i \in DOMAIN uSess |-> uSess'[i]]
  BY DEF UDeleteModel
<1> QED
  BY <1>1, <1>3, <1>4, <1>5, USessPointwise

LEMMA ULogoutInv ==
  ASSUME UInv, NEW u \in UUids,
         ULogoutBegin(u) \/ ULogoutEnded(u) \/ ULogoutDelete(u) \/ ULogoutFails(u)
  PROVE  UInv'
<1>1. UNCHANGED <<uInteraction, uSaves, uFin>>
  BY DEF ULogoutBegin, ULogoutEnded, ULogoutDelete, ULogoutFails
<1>2. \/ UDeleteModel(u)
      \/ UNCHANGED <<uSess, uModel>>
      \/ uSess' = [uSess EXCEPT ![uOut[u].row].live = FALSE] /\ UNCHANGED uModel
  BY DEF ULogoutBegin, ULogoutEnded, ULogoutDelete, ULogoutFails
<1>3. /\ uSess' \in Seq(USessionRow) /\ \A i \in DOMAIN uSess' : USessSound(i)'
      /\ uModel' \in [UUids -> UUsers \cup {UNone}]
      /\ \A v \in UUids : uModel'[v] \in {uModel[v], UNone}
  <2>1. CASE UDeleteModel(u)
    BY <1>1, <2>1, UDeleteModelFacts
  <2>2. CASE UNCHANGED <<uSess, uModel>>
    BY <1>1, <2>2, UTokenKept DEF UInv, USessionSide, USessSound
  <2>3. CASE uSess' = [uSess EXCEPT ![uOut[u].row].live = FALSE] /\ UNCHANGED uModel
    BY <1>1, <2>3, UEndSess DEF UInv, USessionSide
  <2> QED
    BY <1>2, <2>1, <2>2, <2>3
<1>4. PICK out : /\ uOut' = [uOut EXCEPT ![u] = out]
                 /\ out \in [pc : {"idle", "ending", "deleting"}, row : Nat, token : Nat]
                 /\ out.pc = "ending" => out.token \in UStates
  <2>1. UNoOut \in [pc : {"idle", "ending", "deleting"}, row : Nat, token : Nat] /\ UNoOut.pc = "idle"
    BY DEF UNoOut
  <2>2. uOut[u] \in [pc : {"idle", "ending", "deleting"}, row : Nat, token : Nat]
    BY DEF UInv, USessionSide
  <2>3. CASE UNCHANGED uOut
    <3>1. uOut' = [uOut EXCEPT ![u] = uOut[u]] /\ UOutSound(u)
      BY <2>3 DEF UInv, USessionSide
    <3> QED
      BY <2>2, <3>1 DEF UOutSound
  <2>4. CASE uOut' = [uOut EXCEPT ![u] = UNoOut]
    BY <2>1, <2>4
  <2>5. CASE uOut' = [uOut EXCEPT ![u] = [uOut[u] EXCEPT !.pc = "deleting"]]
    <3> DEFINE deleting == [uOut[u] EXCEPT !.pc = "deleting"]
    <3>1. /\ deleting \in [pc : {"idle", "ending", "deleting"}, row : Nat, token : Nat]
          /\ deleting.pc = "deleting"
      BY <2>2
    <3> HIDE DEF deleting
    <3> QED
      BY <2>5, <3>1 DEF deleting
  <2>6. CASE /\ UFindByModel(u) # 0
             /\ uOut' = [uOut EXCEPT ![u] = [pc |-> "ending", row |-> UFindByModel(u),
                                             token |-> uSess[UFindByModel(u)].token]]
    <3> DEFINE is == {k \in DOMAIN uSess : uSess[k].live /\ uSess[k].model = u}
    <3>1. is \in SUBSET DOMAIN uSess /\ UFindByModel(u) = ULatest(is)
      BY DEF UFindByModel
    <3> HIDE DEF is
    <3>2. UFindByModel(u) \in DOMAIN uSess /\ UFindByModel(u) \in Nat
      BY <2>6, <3>1, ULatestFound
    <3>3. uSess[UFindByModel(u)].token \in UStates
      BY <3>2, USessDomain DEF USessionRow
    <3> DEFINE ending == [pc |-> "ending", row |-> UFindByModel(u), token |-> uSess[UFindByModel(u)].token]
    <3>4. /\ ending \in [pc : {"idle", "ending", "deleting"}, row : Nat, token : Nat]
          /\ ending.token \in UStates
      BY <3>2, <3>3 DEF UStates
    <3> HIDE DEF ending
    <3> QED
      BY <2>6, <3>4 DEF ending
  <2> QED
    BY <2>3, <2>4, <2>5, <2>6 DEF ULogoutBegin, ULogoutEnded, ULogoutDelete, ULogoutFails, UOutTo
<1>5. /\ uOut' \in [UUids -> [pc : {"idle", "ending", "deleting"}, row : Nat, token : Nat]]
      /\ uOut'[u] = out /\ \A v \in UUids : v # u => uOut'[v] = uOut[v]
  BY <1>4 DEF UInv, USessionSide
<1>6. \A v \in UUids : UOutSound(v)'
  BY <1>4, <1>5 DEF UInv, USessionSide, UOutSound
<1>7. uEnded' \subseteq UStates
  <2>1. UNCHANGED uEnded \/ (uOut[u].pc = "ending" /\ uEnded' = uEnded \cup {uOut[u].token})
    BY DEF ULogoutBegin, ULogoutEnded, ULogoutDelete, ULogoutFails
  <2> QED
    BY <2>1 DEF UInv, USessionSide, UOutSound
<1>8. \A v \in UUids : UFinSound(v)'
  BY <1>1, <1>3, UFinKept
<1> QED
  BY <1>1, <1>3, <1>5, <1>6, <1>7, <1>8, USessionStep DEF UInv, USessionSide

LEMMA UPurgePendingInv ==
  ASSUME UInv, UPurgePending
  PROVE  UInv'
<1>1. PICK k \in DOMAIN uSess : uSess' = [uSess EXCEPT ![k].live = FALSE]
  BY DEF UPurgePending
<1>2. UNCHANGED <<uInteraction, uModel, uSaves, uFin, uOut, uEnded>>
  BY DEF UPurgePending
<1>3. uSess' \in Seq(USessionRow) /\ \A i \in DOMAIN uSess' : USessSound(i)'
  BY <1>1, <1>2, UEndSess
<1>4. \A v \in UUids : UFinSound(v)' /\ UOutSound(v)'
  BY <1>2, UFinKept DEF UInv, USessionSide, UOutSound
<1> QED
  BY <1>2, <1>3, <1>4, USessionStep DEF UInv, USessionSide

LEMMA UFinishInv ==
  ASSUME UInv, NEW u \in UUids, UFinishInteraction(u)
  PROVE  UInv'
<1> DEFINE user == uRow[u].user
           fin == [UNoFin EXCEPT !.pc = "model", !.user = user]
<1>1. /\ uSaves[u] = 0 /\ uRow[u].consumed
      /\ uModel' = [uModel EXCEPT ![u] = user] /\ uSaves' = [uSaves EXCEPT ![u] = uSaves[u] + 1]
      /\ uFin' = [uFin EXCEPT ![u] = fin] /\ UNCHANGED <<uInteraction, uSess, uOut, uEnded>>
  BY DEF UFinishInteraction, UOpen
<1>2. /\ uRow[u] \in UInteractionRow /\ uUid[uRow[u].state] = u /\ uPc[uRow[u].state] = "done"
      /\ user = uWho[uRow[u].state] /\ uRow[u].state \in UStates
  BY <1>1 DEF UInv, UInteractionSide, URowSound, UInteractionRow, UNoInteraction
<1>3. user \in UUsers
  BY <1>2 DEF UInv, UInteractionSide, UDrawn
<1> HIDE DEF user
<1>4. fin \in UFinStates /\ fin.pc = "model" /\ fin.user = user
  BY <1>3 DEF UNoFin, UFinStates
<1> HIDE DEF fin
<1>5. /\ uFin' \in [UUids -> UFinStates] /\ uFin'[u] = fin /\ uModel'[u] = user
      /\ uModel' \in [UUids -> UUsers \cup {UNone}] /\ uSaves'[u] = 1
      /\ uSaves' \in [UUids -> 0 .. UMaxSaves]
      /\ \A v \in UUids : v # u => uFin'[v] = uFin[v] /\ uModel'[v] = uModel[v] /\ uSaves'[v] = uSaves[v]
  BY <1>1, <1>3, <1>4, UConstantsAssumption DEF UInv, USessionSide
<1>6. ASSUME NEW v \in UUids PROVE UFinSound(v)' /\ UOutSound(v)' /\ UModelSound(v)'
  <2>1. CASE v = u
    BY <1>1, <1>4, <1>5, <2>1 DEF UFinSound, UOutSound, UModelSound, UInv, USessionSide
  <2>2. CASE v # u
    BY <1>1, <1>5, <2>2, UFinKept DEF UOutSound, UModelSound, UInv, USessionSide
  <2> QED
    BY <2>1, <2>2
<1>7. ASSUME NEW i \in DOMAIN uSess PROVE USessSound(i)'
  <2>1. USessSound(i) /\ uSess[i] \in USessionRow /\ uModel[u] = UNone
    BY <1>1, USessDomain DEF UInv, USessionSide, UModelSound
  <2>2. uSess[i].live => uSess[i].model # u
    <3> SUFFICES ASSUME uSess[i].live, uSess[i].model = u PROVE FALSE
      OBVIOUS
    <3>1. uSess[i].user = UNone
      BY <2>1, UConstantsAssumption DEF USessSound
    <3> QED
      BY <2>1, <3>1, UConstantsAssumption DEF USessionRow
  <2>3. uSess[i].model # UNone => uSess[i].model \in UUids
    BY <2>1 DEF USessionRow
  <2> QED
    BY <1>1, <1>5, <2>1, <2>2, <2>3, UTokenKept DEF USessSound
<1>8. USessionAuthenticated'
  <2> SUFFICES ASSUME NEW v \in UUids, uModel'[v] # UNone
               PROVE  \E t \in UStates : /\ uUid[t] = v /\ uWho[t] = uModel'[v]
                                         /\ uPc[t] \in {"consume.save", "done"}
    BY <1>1 DEF USessionAuthenticated, uInteraction
  <2>1. CASE v = u
    BY <1>2, <1>5, <2>1 DEF user
  <2>2. CASE v # u
    BY <1>5, <2>2 DEF UInv, USessionSide, USessionAuthenticated
  <2> QED
    BY <2>1, <2>2
<1> QED
  BY <1>1, <1>5, <1>6, <1>7, <1>8, UInteractionKept DEF UInv, USessionSide

LEMMA UInvNext == UInv /\ [UNext]_uVars => UInv'
<1> SUFFICES ASSUME UInv, [UNext]_uVars PROVE UInv'
  OBVIOUS
<1>1. CASE UNCHANGED uVars
  <2>1. UNCHANGED uInteraction /\ UNCHANGED <<uSess, uModel, uSaves, uFin, uOut, uEnded>>
    BY <1>1 DEF uVars, uInteraction
  <2>2. UInteractionSide'
    BY <2>1, UInteractionKept DEF UInv
  <2>3. USessionSide'
    BY <2>1, USessionKept DEF uInteraction
  <2> QED
    BY <2>2, <2>3 DEF UInv
<1>2. ASSUME NEW u \in UUids, UFinStep(u) PROVE UInv'
  BY <1>2, UFinModelInv, UFinPendingInv, UFinWriteInv DEF UFinStep
<1>3. ASSUME NEW s \in UStates, UCallbackStep(s) PROVE UInv'
  BY <1>3, UHandleInv, UStagePendingInv, ULoadInv, USaveInv DEF UCallbackStep
<1> QED
  BY <1>1, <1>2, <1>3, UStartInv, UFinishInv, USessionSavedInv, ULogoutInv, UPurgeInteractionInv,
     UAuthenticatesInv, UPurgePendingInv DEF UNext

LEMMA UInvInit == UInit => UInv
<1> SUFFICES ASSUME UInit PROVE UInv
  OBVIOUS
<1>1. UNoFin \in UFinStates /\ UNoFin.pc = "idle" /\ UNoOut.pc = "idle"
      /\ UNoOut \in [pc : {"idle", "ending", "deleting"}, row : Nat, token : Nat]
  BY DEF UNoFin, UNoOut, UFinStates
<1>2. UInteractionSide
  BY DEF UInit, UInteractionSide, UCallbackPCs, UDrawn, UCopySound, URowSound, UNoInteraction
<1>3. USessionSide
  <2>1. uSess \in Seq(USessionRow) /\ DOMAIN uSess = {}
    BY EmptySeq DEF UInit
  <2> QED
    BY <1>1, <2>1, UConstantsAssumption DEF UInit, USessionSide, UFinSound, UOutSound, UModelSound, USessionAuthenticated
<1> QED
  BY <1>2, <1>3 DEF UInv

(* A login is of one member throughout: however callbacks, new redirects,   *)
(* listeners, logouts and purges interleave, the interaction, the session   *)
(* and the upstream token belong to whoever authenticated.                  *)
THEOREM LoginOfOneMember == USpec => []UOneMember
<1>1. UInv => UOneMember
  <2> SUFFICES ASSUME UInv PROVE UOneMember
    OBVIOUS
  <2>1. UTypeOK
    BY DEF UInv, UInteractionSide, USessionSide, UTypeOK
  <2>2. UConsumedByOwnLogin
    BY DEF UInv, UInteractionSide, URowSound, UConsumedByOwnLogin
  <2>3. UTokenOfSameMember
    BY DEF UInv, USessionSide, USessSound, UTokenOf, UTokenOfSameMember
  <2> QED
    BY <2>1, <2>2, <2>3 DEF UOneMember, UInv, USessionSide
<1> QED
  BY <1>1, UInvInit, UInvNext, PTL DEF USpec

-------------------------------------------------------------------------------
(* One browser tab.                                                         *)

WNames == WTenants \cup {"none"}

(* The queues there are: at most one renewal and one store.                 *)
WRenew      == <<"renew">>
WStoring    == <<"store">>
WRenewStore == <<"renew", "store">>
WStoreRenew == <<"store", "renew">>
WHasRenew == {WRenew, WRenewStore, WStoreRenew}
WHasStore == {WStoring, WRenewStore, WStoreRenew}
WRenewFirst == {WRenew, WRenewStore}
WQueues == {<<>>} \cup WHasRenew \cup WHasStore

WSwitchServed == wReq["switch"].at \in {"answered", "storing"}
WRenewed == wFlight.at = "answered" /\ wFlight.got # 0

WUserShape ==
  /\ wUser \in [gen : Nat, refresh : Nat, tenant : WNames]
  /\ wUser.gen = 0 => wUser = WNone
  /\ wUser # WNone => /\ wUser.gen \in 1 .. Len(wGen) /\ wUser.refresh \in {0, wUser.gen}
                      /\ wUser.tenant = wGen[wUser.gen]

WFlightRecord == [at : {"none", "queued", "posted", "answered", "awaiting", "token", "failed"},
                  gen : Nat, got : Nat]

WFlightShape ==
  /\ wFlight \in WFlightRecord
  /\ wFlight.gen <= Len(wGen) /\ wFlight.got <= Len(wGen)

WReqRecord == [at : {"idle", "sent", "answered", "denied", "waiting", "storing"}, gen : Nat,
               retried : BOOLEAN, tenant : WNames]

WReqShape ==
  /\ wReq \in [WRequests -> WReqRecord]
  /\ WSwitchServed => wReq["switch"].gen \in 1 .. Len(wGen)

WProviderShape ==
  /\ wGen \in Seq(WNames)
  /\ wProvider \in [live : Nat, chain : SUBSET Nat]
  /\ wProvider.live <= Len(wGen) /\ 0 \notin wProvider.chain
  /\ wLost \in BOOLEAN

(* The queue holds the renewal of a flight that is under way, at its head   *)
(* once it has been posted, and the store of a switch that was answered.    *)
WQueueSound ==
  /\ wOps \in WQueues
  /\ wOps \in WHasRenew <=> wFlight.at \in {"queued", "posted", "answered"}
  /\ wOps \in WHasStore <=> wReq["switch"].at = "storing"
  /\ wFlight.at \in {"posted", "answered"} => wOps \in WRenewFirst

(* Unless something ended the session: the tab and its renewal are of the   *)
(* tenant of the last switch, and the live refresh token is with the switch *)
(* that was served, else with the renewal that was answered, else with the  *)
(* user.                                                                    *)
WTenantHeld ==
  /\ wUser # WNone => wUser.tenant = wGoal /\ wUser.refresh = wUser.gen
  /\ wFlight.at = "posted" /\ wFlight.gen # 0 => wGen[wFlight.gen] = wGoal
  /\ WRenewed => wGen[wFlight.got] = wGoal
WServedHeld ==
  /\ wProvider.live = wReq["switch"].gen /\ wProvider.chain = {}
  /\ wUser.refresh # wReq["switch"].gen
  /\ wFlight.at = "posted" => wFlight.gen # wReq["switch"].gen
  /\ wFlight.at = "answered" => wFlight.got # wReq["switch"].gen
WUserHeld ==
  /\ WRenewed => wProvider.live = wFlight.got
  /\ wUser # WNone /\ ~WRenewed => wUser.refresh = wProvider.live
  /\ wUser # WNone /\ wFlight.at = "posted" => wFlight.gen = wUser.refresh
WLiveHeld ==
  /\ WSwitchServed => WServedHeld
  /\ ~WSwitchServed => WUserHeld

(* Who waits, waits for a flight; and a flight waits for a store only while *)
(* that is under way.                                                       *)
WWaiting ==
  /\ \A r \in WRequests : wReq[r].at = "waiting" => wFlight.at # "none"
  /\ wFlight.at = "awaiting" => wReq["switch"].at = "storing"
  /\ \A r \in WQueries : r # "switch" => wReq[r].at # "storing"

(* The inductive invariant of a tab.                                        *)
WInv ==
  /\ WUserShape /\ WFlightShape /\ WReqShape /\ WProviderShape /\ WQueueSound
  /\ ~wLost => WTenantHeld /\ WLiveHeld

(* What a step may do to the generations: add some.                         *)
WGrown == Len(wGen) <= Len(wGen') /\ \A i \in 1 .. Len(wGen) : wGen'[i] = wGen[i]

LEMMA WQueueFacts ==
  /\ WRenew \notin WHasStore /\ WStoring \notin WHasRenew /\ <<>> \notin WHasRenew \cup WHasStore
  /\ \A q \in WQueues \ WHasRenew :
       /\ Append(q, "renew") \in WHasRenew
       /\ Append(q, "renew") \in WHasStore <=> q \in WHasStore
  /\ \A q \in WQueues \ WHasStore :
       /\ Append(q, "store") \in WHasStore
       /\ Append(q, "store") \in WHasRenew <=> q \in WHasRenew
       /\ q \in WRenewFirst => Append(q, "store") \in WRenewFirst
  /\ \A q \in WQueues : q # <<>> /\ Head(q) = "renew" =>
       /\ q \in WRenewFirst /\ Tail(q) \in WQueues \ WHasRenew
       /\ Tail(q) \in WHasStore <=> q \in WHasStore
  /\ \A q \in WQueues : q # <<>> /\ Head(q) = "store" =>
       /\ q \notin WRenewFirst /\ Tail(q) \in WQueues \ WHasStore
       /\ Tail(q) \in WHasRenew <=> q \in WHasRenew
  /\ \A q \in WQueues : Len(q) <= 2 /\ \A i, j \in DOMAIN q : q[i] = q[j] => i = j
<1>1. /\ Len(WRenew) = 1 /\ WRenew[1] = "renew" /\ WRenew # <<>>
      /\ Len(WStoring) = 1 /\ WStoring[1] = "store" /\ WStoring # <<>>
      /\ Len(WRenewStore) = 2 /\ WRenewStore[1] = "renew" /\ WRenewStore[2] = "store" /\ WRenewStore # <<>>
      /\ Len(WStoreRenew) = 2 /\ WStoreRenew[1] = "store" /\ WStoreRenew[2] = "renew" /\ WStoreRenew # <<>>
  BY DEF WRenew, WStoring, WRenewStore, WStoreRenew
<1>2. /\ WRenew # WStoring /\ WRenew # WRenewStore /\ WRenew # WStoreRenew
      /\ WStoring # WRenewStore /\ WStoring # WStoreRenew /\ WRenewStore # WStoreRenew
  BY <1>1
<1>3. /\ Head(WRenew) = "renew" /\ Head(WStoring) = "store" /\ Head(WRenewStore) = "renew" /\ Head(WStoreRenew) = "store"
  BY DEF WRenew, WStoring, WRenewStore, WStoreRenew
<1>4. Tail(WRenew) = <<>> /\ Tail(WStoring) = <<>>
  BY DEF WRenew, WStoring
<1>5. Tail(WRenewStore) = WStoring /\ Tail(WStoreRenew) = WRenew
  BY DEF WRenew, WStoring, WRenewStore, WStoreRenew
<1>6. Append(<<>>, "renew") = WRenew /\ Append(<<>>, "store") = WStoring
  BY DEF WRenew, WStoring
<1>7. Append(WStoring, "renew") = WStoreRenew /\ Append(WRenew, "store") = WRenewStore
  <2> DEFINE K == {"renew", "store"}
  <2>1. WStoring \in Seq(K) /\ WRenew \in Seq(K) /\ WRenewStore \in Seq(K) /\ WStoreRenew \in Seq(K)
    BY DEF WRenew, WStoring, WRenewStore, WStoreRenew
  <2> "renew" \in K /\ "store" \in K
    OBVIOUS
  <2> HIDE DEF K
  <2>0. \A s \in Seq(K), e \in K :
          /\ Append(s, e) \in Seq(K) /\ Len(Append(s, e)) = Len(s) + 1
          /\ \A i \in 1 .. Len(s) : Append(s, e)[i] = s[i]
          /\ Append(s, e)[Len(s) + 1] = e
    BY AppendProperties
  <2>2. /\ Append(WStoring, "renew") \in Seq(K) /\ Len(Append(WStoring, "renew")) = 2
        /\ Append(WStoring, "renew")[1] = "store" /\ Append(WStoring, "renew")[2] = "renew"
    BY <1>1, <2>1, <2>0
  <2>3. /\ Append(WRenew, "store") \in Seq(K) /\ Len(Append(WRenew, "store")) = 2
        /\ Append(WRenew, "store")[1] = "renew" /\ Append(WRenew, "store")[2] = "store"
    BY <1>1, <2>1, <2>0
  <2>4. \A f, g \in Seq(K) : Len(f) = 2 /\ Len(g) = 2 /\ f[1] = g[1] /\ f[2] = g[2] => f = g
    <3> SUFFICES ASSUME NEW f \in Seq(K), NEW g \in Seq(K), Len(f) = 2, Len(g) = 2, f[1] = g[1], f[2] = g[2]
                 PROVE  f = g
      OBVIOUS
    <3>1. \A i \in 1 .. 2 : i = 1 \/ i = 2
      OBVIOUS
    <3> QED
      BY <3>1, SeqEqual
  <2> QED
    BY <1>1, <2>1, <2>2, <2>3, <2>4
<1>8. \A q \in WQueues : Len(q) <= 2 /\ \A i, j \in DOMAIN q : q[i] = q[j] => i = j
  <2>1. DOMAIN WRenew = {1} /\ DOMAIN WStoring = {1} /\ DOMAIN WRenewStore = {1, 2} /\ DOMAIN WStoreRenew = {1, 2}
    BY DEF WRenew, WStoring, WRenewStore, WStoreRenew
  <2>2. DOMAIN <<>> = {} /\ Len(<<>>) = 0
    OBVIOUS
  <2>3. "renew" # "store"
    OBVIOUS
  <2>4. /\ \A i, j \in DOMAIN WRenew : WRenew[i] = WRenew[j] => i = j
        /\ \A i, j \in DOMAIN WStoring : WStoring[i] = WStoring[j] => i = j
        /\ \A i, j \in DOMAIN <<>> : <<>>[i] = <<>>[j] => i = j
    BY <2>1, <2>2
  <2>5. \A i, j \in DOMAIN WRenewStore : WRenewStore[i] = WRenewStore[j] => i = j
    BY <1>1, <2>1, <2>3
  <2>6. \A i, j \in DOMAIN WStoreRenew : WStoreRenew[i] = WStoreRenew[j] => i = j
    BY <1>1, <2>1, <2>3
  <2>7. \A q \in WQueues : q = <<>> \/ q = WRenew \/ q = WStoring \/ q = WRenewStore \/ q = WStoreRenew
    BY DEF WQueues, WHasRenew, WHasStore
  <2> SUFFICES ASSUME NEW q \in WQueues PROVE Len(q) <= 2 /\ \A i, j \in DOMAIN q : q[i] = q[j] => i = j
    OBVIOUS
  <2>8. CASE q = <<>>
    BY <2>2, <2>4, <2>8
  <2>9. CASE q = WRenew
    <3>1. Len(q) <= 2
      BY <1>1, <2>9
    <3> QED
      BY <3>1, <2>4, <2>5, <2>6, <2>9, Zenon
  <2>10. CASE q = WStoring
    <3>1. Len(q) <= 2
      BY <1>1, <2>10
    <3> QED
      BY <3>1, <2>4, <2>5, <2>6, <2>10, Zenon
  <2>11. CASE q = WRenewStore
    <3>1. Len(q) <= 2
      BY <1>1, <2>11
    <3> QED
      BY <3>1, <2>4, <2>5, <2>6, <2>11, Zenon
  <2>12. CASE q = WStoreRenew
    <3>1. Len(q) = 2 /\ 2 <= 2
      BY <1>1, <2>12
    <3> QED
      BY <3>1, <2>4, <2>5, <2>6, <2>12, Zenon
  <2> QED
    BY <2>7, <2>8, <2>9, <2>10, <2>11, <2>12
<1>9. \A q \in WQueues \ WHasRenew : q = <<>> \/ q = WStoring
  BY DEF WQueues, WHasRenew, WHasStore
<1>10. \A q \in WQueues \ WHasStore : q = <<>> \/ q = WRenew
  BY DEF WQueues, WHasRenew, WHasStore
<1>11. \A q \in WQueues : q # <<>> /\ Head(q) = "renew" => q = WRenew \/ q = WRenewStore
  BY <1>3 DEF WQueues, WHasRenew, WHasStore
<1>12. \A q \in WQueues : q # <<>> /\ Head(q) = "store" => q = WStoring \/ q = WStoreRenew
  BY <1>3 DEF WQueues, WHasRenew, WHasStore
<1> QED
  BY <1>1, <1>2, <1>4, <1>5, <1>6, <1>7, <1>8, <1>9, <1>10, <1>11, <1>12 DEF WQueues, WHasRenew, WHasStore, WRenewFirst

(* A generation that is minted leaves the others as they are.               *)
LEMMA WMintFacts ==
  ASSUME wGen \in Seq(WNames), NEW t \in WNames, wGen' = Append(wGen, t)
  PROVE  /\ wGen' \in Seq(WNames) /\ Len(wGen') = Len(wGen) + 1 /\ Len(wGen) \in Nat
         /\ \A i \in 1 .. Len(wGen) : wGen'[i] = wGen[i]
         /\ wGen'[Len(wGen) + 1] = t
BY AppendProperties

LEMMA WNoneFacts ==
  /\ WNone.gen = 0 /\ WNone.refresh = 0 /\ WNone.tenant = "none"
  /\ WNone \in [gen : Nat, refresh : Nat, tenant : WNames]
  /\ WIdleReq \in WReqRecord /\ WIdleReq.at = "idle" /\ WIdleReq.gen = 0
  /\ WIdleFlight \in WFlightRecord
  /\ WIdleFlight.at = "none" /\ WIdleFlight.gen = 0 /\ WIdleFlight.got = 0
BY DEF WNone, WNames, WIdleReq, WReqRecord, WIdleFlight, WFlightRecord

LEMMA WInvInit == WInit => WInv
<1> SUFFICES ASSUME WInit PROVE WInv
  OBVIOUS
<1>1. /\ wGen = <<>> /\ wProvider = [live |-> 0, chain |-> {}] /\ wUser = WNone /\ wOps = <<>>
      /\ wFlight = WIdleFlight /\ wReq = [r \in WRequests |-> WIdleReq] /\ wLost = FALSE
  BY DEF WInit
<1>2. "switch" \in WRequests
  BY DEF WRequests
<1>3. Len(wGen) = 0 /\ wGen \in Seq(WNames)
  BY <1>1
<1>4. WUserShape
  BY <1>1, WNoneFacts DEF WUserShape
<1>5. WFlightShape
  BY <1>1, <1>3, WNoneFacts DEF WFlightShape
<1>6. WReqShape
  BY <1>1, <1>2, WNoneFacts DEF WReqShape, WSwitchServed
<1>7. WProviderShape
  <2>1. {} \in SUBSET Nat /\ 0 \in Nat /\ wLost \in BOOLEAN
    BY <1>1
  <2>2. wProvider \in [live : Nat, chain : SUBSET Nat] /\ wProvider.live = 0 /\ wProvider.chain = {}
    BY <1>1, <2>1
  <2> QED
    BY <1>3, <2>1, <2>2 DEF WProviderShape
<1>8. WQueueSound
  BY <1>1, <1>2, WNoneFacts, WQueueFacts DEF WQueueSound, WQueues
<1>9. WTenantHeld /\ WLiveHeld
  BY <1>1, <1>2, WNoneFacts DEF WTenantHeld, WLiveHeld, WServedHeld, WUserHeld, WRenewed, WSwitchServed
<1> QED
  BY <1>4, <1>5, <1>6, <1>7, <1>8, <1>9 DEF WInv

(* The shapes outlive every step that lets the generations alone or adds    *)
LEMMA WGrownSame ==
  ASSUME wGen \in Seq(WNames), wGen' = wGen PROVE WGrown
BY DEF WGrown

LEMMA WGrownMint ==
  ASSUME wGen \in Seq(WNames), NEW t \in WNames, wGen' = Append(wGen, t) PROVE WGrown
BY WMintFacts DEF WGrown

(* The shapes outlive every step that adds generations, for the parts that  *)
(* the step leaves alone.                                                   *)
LEMMA WUserKept ==
  ASSUME WUserShape, WGrown, wGen \in Seq(WNames), wGen' \in Seq(WNames), wUser' = wUser \/ wUser' = WNone
  PROVE  WUserShape'
BY WNoneFacts DEF WUserShape, WGrown

LEMMA WFlightKept ==
  ASSUME WFlightShape, WGrown, wGen \in Seq(WNames), wGen' \in Seq(WNames), wFlight' \in WFlightRecord,
         wFlight'.gen = wFlight.gen \/ wFlight'.gen = 0, wFlight'.got = wFlight.got \/ wFlight'.got = 0
  PROVE  WFlightShape'
<1>1. Len(wGen) \in Nat /\ Len(wGen') \in Nat /\ wFlight.gen \in Nat /\ wFlight.got \in Nat
  BY DEF WFlightShape, WFlightRecord
<1> QED
  BY <1>1 DEF WFlightShape, WGrown

LEMMA WReqKept ==
  ASSUME WReqShape, WGrown, wGen \in Seq(WNames), wGen' \in Seq(WNames), wReq' \in [WRequests -> WReqRecord],
         WSwitchServed' => WSwitchServed /\ wReq'["switch"].gen = wReq["switch"].gen
  PROVE  WReqShape'
<1>1. Len(wGen) \in Nat /\ Len(wGen') \in Nat
  OBVIOUS
<1>2. WSwitchServed => wReq["switch"].gen \in 1 .. Len(wGen)
  BY DEF WReqShape
<1>3. WSwitchServed' => wReq'["switch"].gen \in 1 .. Len(wGen')
  BY <1>1, <1>2 DEF WGrown
<1> QED
  BY <1>3 DEF WReqShape

(* So does where the live refresh token is.                                 *)
LEMMA WHeldKept ==
  ASSUME WTenantHeld, WLiveHeld, WReqShape, UNCHANGED <<wGen, wProvider, wGoal>>,
         wUser' = wUser \/ wUser' = WNone,
         wFlight' = wFlight \/ (~WRenewed /\ wFlight'.at \notin {"posted", "answered"}),
         WSwitchServed' <=> WSwitchServed,
         WSwitchServed => wReq'["switch"].gen = wReq["switch"].gen
  PROVE  WTenantHeld' /\ WLiveHeld'
<1>1. WRenewed' <=> WRenewed
  BY DEF WRenewed
<1>2. WRenewed => wFlight' = wFlight
  BY DEF WRenewed
<1>3. WTenantHeld'
  BY <1>1, <1>2 DEF WTenantHeld
<1>4. CASE WSwitchServed
  <2>1. wReq["switch"].gen # 0
    BY <1>4 DEF WReqShape
  <2>2. wUser'.refresh # wReq["switch"].gen
    BY <1>4, <2>1, WNoneFacts DEF WLiveHeld, WServedHeld
  <2>3. /\ wProvider'.live = wReq'["switch"].gen /\ wProvider'.chain = {}
        /\ wUser'.refresh # wReq'["switch"].gen
    BY <1>4, <2>2 DEF WLiveHeld, WServedHeld
  <2>4. /\ wFlight'.at = "posted" => wFlight'.gen # wReq'["switch"].gen
        /\ wFlight'.at = "answered" => wFlight'.got # wReq'["switch"].gen
    BY <1>4 DEF WLiveHeld, WServedHeld
  <2>5. WSwitchServed'
    BY <1>4
  <2>6. WServedHeld'
    BY <2>3, <2>4 DEF WServedHeld
  <2> QED
    BY <1>3, <2>5, <2>6 DEF WLiveHeld
<1>5. CASE ~WSwitchServed
  <2>1. /\ WRenewed => wProvider.live = wFlight.got
        /\ wUser # WNone /\ ~WRenewed => wUser.refresh = wProvider.live
        /\ wUser # WNone /\ wFlight.at = "posted" => wFlight.gen = wUser.refresh
    BY <1>5 DEF WLiveHeld, WUserHeld
  <2>2. WRenewed' => wProvider'.live = wFlight'.got
    BY <1>1, <1>2, <2>1
  <2>3. wUser' # WNone /\ ~WRenewed' => wUser'.refresh = wProvider'.live
    BY <1>1, <2>1
  <2>4. wUser' # WNone /\ wFlight'.at = "posted" => wFlight'.gen = wUser'.refresh
    BY <2>1
  <2>5. ~WSwitchServed'
    BY <1>5
  <2>6. WUserHeld'
    BY <2>2, <2>3, <2>4 DEF WUserHeld
  <2> QED
    BY <1>3, <2>5, <2>6 DEF WLiveHeld
<1> QED
  BY <1>3, <1>4, <1>5

LEMMA WInvSame ==
  ASSUME WInv, UNCHANGED <<wGen, wProvider, wUser, wOps, wFlight, wReq, wGoal, wLost>>
  PROVE  WInv'
<1>1. WSwitchServed' = WSwitchServed /\ WRenewed' = WRenewed
  BY DEF WSwitchServed, WRenewed
<1>2. WUserShape' /\ WFlightShape' /\ WReqShape' /\ WProviderShape' /\ WQueueSound'
  BY <1>1 DEF WInv, WUserShape, WFlightShape, WReqShape, WProviderShape, WQueueSound
<1>3. ~wLost => WTenantHeld' /\ WLiveHeld'
  BY <1>1 DEF WInv, WTenantHeld, WLiveHeld, WServedHeld, WUserHeld
<1> QED
  BY <1>2, <1>3 DEF WInv

(* A step of the requests, the flight and the queue alone.                  *)
LEMMA WInvHeld ==
  ASSUME WInv, UNCHANGED <<wGen, wProvider, wGoal, wLost>>,
         wUser' = wUser \/ wUser' = WNone,
         wFlight' \in WFlightRecord,
         wFlight'.gen = wFlight.gen \/ wFlight'.gen = 0, wFlight'.got = wFlight.got \/ wFlight'.got = 0,
         wFlight' = wFlight \/ (~WRenewed /\ wFlight'.at \notin {"posted", "answered"}),
         wReq' \in [WRequests -> WReqRecord],
         WSwitchServed' <=> WSwitchServed,
         WSwitchServed => wReq'["switch"].gen = wReq["switch"].gen,
         WQueueSound'
  PROVE  WInv'
<1>1. WUserShape /\ WFlightShape /\ WReqShape /\ WProviderShape /\ wGen \in Seq(WNames) /\ wGen' \in Seq(WNames)
  BY DEF WInv, WProviderShape
<1>2. WGrown
  BY <1>1, WGrownSame
<1>3. WUserShape'
  BY <1>1, <1>2, WUserKept
<1>4. WFlightShape'
  BY <1>1, <1>2, WFlightKept
<1>5. WReqShape'
  BY <1>1, <1>2, WReqKept
<1>6. WProviderShape'
  BY <1>1 DEF WProviderShape
<1>7. ~wLost => WTenantHeld' /\ WLiveHeld'
  <2> SUFFICES ASSUME ~wLost PROVE WTenantHeld' /\ WLiveHeld'
    OBVIOUS
  <2>1. WTenantHeld /\ WLiveHeld
    BY DEF WInv
  <2> QED
    BY <1>1, <2>1, WHeldKept
<1> QED
  BY <1>3, <1>4, <1>5, <1>6, <1>7 DEF WInv

(* Sends, refusals and answers of requests.                                 *)
LEMMA WInvSend == ASSUME WInv, NEW r \in WRequests, NEW t \in WNames, WSend(r, t) PROVE WInv'
<1>1. /\ wReq[r].at = "idle" /\ wUser # WNone /\ UNCHANGED <<wGen, wProvider, wExpired, wUser, wOps, wFlight, wLogout, wGoal, wLost>>
      /\ wReq' = [wReq EXCEPT ![r] = [WIdleReq EXCEPT !.at = "sent", !.gen = wUser.gen, !.tenant = t]]
  BY DEF WSend, WBusy
<1>2. /\ wReq \in [WRequests -> WReqRecord] /\ wFlight \in WFlightRecord /\ wUser.gen \in Nat /\ "switch" \in WRequests
  BY DEF WInv, WReqShape, WFlightShape, WUserShape, WRequests
<1>3. /\ [WIdleReq EXCEPT !.at = "sent", !.gen = wUser.gen, !.tenant = t] \in WReqRecord
      /\ [WIdleReq EXCEPT !.at = "sent", !.gen = wUser.gen, !.tenant = t].at = "sent"
  BY <1>2 DEF WIdleReq, WReqRecord
<1>4. wReq' \in [WRequests -> WReqRecord]
  BY <1>1, <1>2, <1>3
<1>5. CASE r = "switch"
  <2>1. wReq'["switch"].at = "sent" /\ wReq["switch"].at = "idle"
    BY <1>1, <1>2, <1>3, <1>5
  <2>2. ~WSwitchServed /\ ~WSwitchServed'
    BY <2>1 DEF WSwitchServed
  <2>3. WQueueSound'
    BY <1>1, <2>1 DEF WInv, WQueueSound
  <2> QED
    BY <1>1, <1>2, <1>4, <2>2, <2>3, WInvHeld
<1>6. CASE r # "switch"
  <2>1. wReq'["switch"] = wReq["switch"]
    BY <1>1, <1>2, <1>6
  <2>2. WSwitchServed' <=> WSwitchServed
    BY <2>1 DEF WSwitchServed
  <2>3. WQueueSound'
    BY <1>1, <2>1 DEF WInv, WQueueSound
  <2> QED
    BY <1>1, <1>2, <1>4, <2>1, <2>2, <2>3, WInvHeld
<1> QED
  BY <1>5, <1>6

LEMMA WInvRefuse == ASSUME WInv, WRefuse PROVE WInv'
<1>1. /\ wReq["switch"].at = "sent" /\ UNCHANGED <<wGen, wProvider, wUser, wOps, wFlight, wGoal, wLost>>
      /\ wReq' = [wReq EXCEPT !["switch"] = WIdleReq]
  BY DEF WRefuse
<1>2. wReq \in [WRequests -> WReqRecord] /\ wFlight \in WFlightRecord /\ "switch" \in WRequests
  BY DEF WInv, WReqShape, WFlightShape, WRequests
<1>3. wReq' \in [WRequests -> WReqRecord] /\ wReq'["switch"].at = "idle"
  BY <1>1, <1>2, WNoneFacts
<1>4. ~WSwitchServed /\ ~WSwitchServed'
  BY <1>1, <1>3 DEF WSwitchServed
<1>5. WQueueSound'
  BY <1>1, <1>3 DEF WInv, WQueueSound
<1> QED
  BY <1>1, <1>2, <1>3, <1>4, <1>5, WInvHeld

LEMMA WInvAnswered == ASSUME WInv, NEW r \in WRequests, WAnswered(r) PROVE WInv'
<1>1. wReq[r].at = "answered" /\ UNCHANGED <<wGen, wProvider, wUser, wFlight, wGoal, wLost>>
  BY DEF WAnswered
<1>2. wReq \in [WRequests -> WReqRecord] /\ wFlight \in WFlightRecord /\ "switch" \in WRequests
  BY DEF WInv, WReqShape, WFlightShape, WRequests
<1>3. CASE r = "switch"
  <2>1. wOps' = Append(wOps, "store") /\ wReq' = [wReq EXCEPT ![r].at = "storing"]
    BY <1>3 DEF WAnswered
  <2>2. wReq' \in [WRequests -> WReqRecord]
    BY <1>2, <2>1 DEF WReqRecord
  <2>3. wReq'["switch"].at = "storing" /\ wReq'["switch"].gen = wReq["switch"].gen
    BY <1>2, <1>3, <2>1 DEF WReqRecord
  <2>4. WSwitchServed /\ WSwitchServed'
    BY <1>1, <1>3, <2>3 DEF WSwitchServed
  <2>5. wOps \in WQueues \ WHasStore
    BY <1>1, <1>3 DEF WInv, WQueueSound
  <2>6. wOps' \in WQueues /\ wOps' \in WHasStore
    BY <2>1, <2>5, WQueueFacts DEF WQueues
  <2>7. wOps' \in WHasRenew <=> wOps \in WHasRenew
    BY <2>1, <2>5, WQueueFacts
  <2>8. wOps \in WRenewFirst => wOps' \in WRenewFirst
    BY <2>1, <2>5, WQueueFacts
  <2>9. WQueueSound'
    BY <1>1, <2>3, <2>6, <2>7, <2>8 DEF WInv, WQueueSound
  <2> QED
    BY <1>1, <1>2, <2>2, <2>3, <2>4, <2>9, WInvHeld
<1>4. CASE r # "switch"
  <2>1. wReq' = [wReq EXCEPT ![r] = WIdleReq] /\ wOps' = wOps
    BY <1>4 DEF WAnswered
  <2>2. wReq' \in [WRequests -> WReqRecord] /\ wReq'["switch"] = wReq["switch"]
    BY <1>2, <1>4, <2>1, WNoneFacts
  <2>3. WSwitchServed' <=> WSwitchServed
    BY <2>2 DEF WSwitchServed
  <2>4. WQueueSound'
    BY <1>1, <2>1, <2>2 DEF WInv, WQueueSound
  <2> QED
    BY <1>1, <1>2, <2>2, <2>3, <2>4, WInvHeld
<1> QED
  BY <1>3, <1>4

LEMMA WInvDenied == ASSUME WInv, NEW r \in WRequests, WDenied(r) PROVE WInv'
<1>1. wReq[r].at = "denied" /\ UNCHANGED <<wGen, wProvider, wGoal, wLost>>
  BY DEF WDenied
<1>2. wReq \in [WRequests -> WReqRecord] /\ wFlight \in WFlightRecord /\ "switch" \in WRequests
  BY DEF WInv, WReqShape, WFlightShape, WRequests
<1>3. /\ wReq' \in [WRequests -> WReqRecord]
      /\ r # "switch" => wReq'["switch"] = wReq["switch"]
      /\ wReq'[r].at \in {"idle", "waiting"}
  <2>1. CASE wReq' = [wReq EXCEPT ![r] = WIdleReq]
    BY <1>2, <2>1, WNoneFacts
  <2>2. CASE wReq' = [wReq EXCEPT ![r].at = "waiting"]
    BY <1>2, <2>2 DEF WReqRecord
  <2> QED
    BY <2>1, <2>2 DEF WDenied
<1>4. wReq'["switch"] = wReq["switch"] \/ (wReq["switch"].at = "denied" /\ wReq'["switch"].at \in {"idle", "waiting"})
  BY <1>1, <1>3
<1>5. /\ WSwitchServed' <=> WSwitchServed
      /\ WSwitchServed => wReq'["switch"].gen = wReq["switch"].gen
  BY <1>4 DEF WSwitchServed
<1>6. wReq'["switch"].at = "storing" <=> wReq["switch"].at = "storing"
  BY <1>4
<1>7. CASE wFlight' = wFlight /\ wOps' = wOps
  <2>1. wUser' = wUser \/ wUser' = WNone
    BY DEF WDenied
  <2>2. WQueueSound'
    BY <1>6, <1>7 DEF WInv, WQueueSound
  <2> QED
    BY <1>1, <1>2, <1>3, <1>5, <1>7, <2>1, <2>2, WInvHeld
<1>8. CASE /\ wFlight.at = "none" /\ wFlight' = [WIdleFlight EXCEPT !.at = "queued"] /\ wOps' = Append(wOps, "renew")
           /\ wUser' = wUser
  <2>1. wFlight' \in WFlightRecord /\ wFlight'.at = "queued" /\ wFlight'.gen = 0 /\ wFlight'.got = 0
    BY <1>8 DEF WFlightRecord, WIdleFlight
  <2>2. ~WRenewed
    BY <1>8 DEF WRenewed
  <2>3. wOps \in WQueues \ WHasRenew
    BY <1>8 DEF WInv, WQueueSound
  <2>4. wOps' \in WQueues /\ wOps' \in WHasRenew
    BY <1>8, <2>3, WQueueFacts DEF WQueues
  <2>5. wOps' \in WHasStore <=> wOps \in WHasStore
    BY <1>8, <2>3, WQueueFacts
  <2>6. WQueueSound'
    BY <1>6, <2>1, <2>4, <2>5 DEF WInv, WQueueSound
  <2> QED
    BY <1>1, <1>3, <1>5, <1>8, <2>1, <2>2, <2>6, WInvHeld
<1> QED
  BY <1>7, <1>8 DEF WDenied

(* The end of the flight wakes those who wait, never a switch under way.    *)
LEMMA WInvFlightEnds == ASSUME WInv, WFlightEnds PROVE WInv'
<1>1. /\ wFlight.at \in {"token", "failed"} /\ wFlight' = WIdleFlight
      /\ UNCHANGED <<wGen, wProvider, wOps, wGoal, wLost>>
      /\ wUser' = wUser \/ wUser' = WNone
  BY DEF WFlightEnds
<1>2. wReq \in [WRequests -> WReqRecord] /\ "switch" \in WRequests /\ wUser.gen \in Nat
  BY DEF WInv, WReqShape, WUserShape, WRequests
<1>3. \A r \in WRequests :
        /\ wReq[r].at # "waiting" => wReq'[r] = wReq[r]
        /\ wReq[r].at = "waiting" =>
             \/ wReq'[r] = WIdleReq
             \/ wReq'[r] = [wReq[r] EXCEPT !.at = "sent", !.gen = wUser.gen, !.retried = TRUE]
  BY DEF WFlightEnds
<1>4. \A r \in WRequests :
        wReq'[r] \in WReqRecord /\ (wReq'[r] = wReq[r] \/ (wReq[r].at = "waiting" /\ wReq'[r].at \in {"idle", "sent"}))
  <2> SUFFICES ASSUME NEW r \in WRequests
               PROVE  /\ wReq'[r] \in WReqRecord
                      /\ wReq'[r] = wReq[r] \/ (wReq[r].at = "waiting" /\ wReq'[r].at \in {"idle", "sent"})
    OBVIOUS
  <2>0. wReq[r] \in WReqRecord
    BY <1>2
  <2>1. CASE wReq[r].at # "waiting"
    BY <1>3, <2>0, <2>1
  <2>2. CASE wReq[r].at = "waiting" /\ wReq'[r] = WIdleReq
    BY <2>2, WNoneFacts
  <2>3. CASE wReq[r].at = "waiting" /\ wReq'[r] = [wReq[r] EXCEPT !.at = "sent", !.gen = wUser.gen, !.retried = TRUE]
    BY <1>2, <2>0, <2>3 DEF WReqRecord
  <2> QED
    BY <1>3, <2>1, <2>2, <2>3
<1>5. wReq' \in [WRequests -> WReqRecord]
  BY <1>4 DEF WFlightEnds
<1>6. wReq'["switch"] = wReq["switch"] \/ (wReq["switch"].at = "waiting" /\ wReq'["switch"].at \in {"idle", "sent"})
  BY <1>2, <1>4
<1>7. /\ WSwitchServed' <=> WSwitchServed
      /\ WSwitchServed => wReq'["switch"].gen = wReq["switch"].gen
  BY <1>6 DEF WSwitchServed
<1>8. WQueueSound'
  BY <1>1, <1>6, WNoneFacts DEF WInv, WQueueSound
<1>9. ~WRenewed
  BY <1>1 DEF WRenewed
<1> QED
  BY <1>1, <1>5, <1>7, <1>8, <1>9, WNoneFacts, WInvHeld

(* A switch that is served takes the live refresh token with it.            *)
LEMMA WInvServe == ASSUME WInv, NEW r \in WRequests, WServe(r) PROVE WInv'
<1>1. wReq[r].at = "sent" /\ UNCHANGED <<wUser, wOps, wFlight, wGoal, wLost>>
  BY DEF WServe
<1>2. /\ wReq \in [WRequests -> WReqRecord] /\ wFlight \in WFlightRecord /\ "switch" \in WRequests
      /\ wGen \in Seq(WNames) /\ Len(wGen) \in Nat
  BY DEF WInv, WReqShape, WFlightShape, WRequests, WProviderShape
<1>3. CASE /\ r = "switch" /\ WMint(wReq[r].tenant) /\ wProvider' = [live |-> WMinted, chain |-> {}]
           /\ wReq' = [wReq EXCEPT ![r].at = "answered", ![r].gen = WMinted]
  <2> DEFINE t == wReq[r].tenant
             n == Len(wGen) + 1
  <2>1. t \in WNames /\ wGen' = Append(wGen, t)
    BY <1>2, <1>3 DEF WReqRecord, WMint
  <2> HIDE DEF t
  <2>2. /\ wGen' \in Seq(WNames) /\ Len(wGen') = n /\ n \in Nat
        /\ \A i \in 1 .. Len(wGen) : wGen'[i] = wGen[i]
    BY <1>2, <2>1, WMintFacts
  <2>3. WGrown
    BY <1>2, <2>1, WGrownMint
  <2>4. wProvider' = [live |-> n, chain |-> {}] /\ wReq' = [wReq EXCEPT ![r].at = "answered", ![r].gen = n]
    BY <1>3 DEF WMinted
  <2>5. wReq' \in [WRequests -> WReqRecord] /\ wReq'["switch"].at = "answered" /\ wReq'["switch"].gen = n
    <3> DEFINE q == [wReq[r] EXCEPT !.at = "answered", !.gen = n]
    <3>1. wReq[r] \in WReqRecord
      BY <1>2
    <3>2. q \in WReqRecord /\ q.at = "answered" /\ q.gen = n
      BY <2>2, <3>1 DEF WReqRecord
    <3>3. wReq' = [wReq EXCEPT ![r] = q]
      BY <1>2, <2>4
    <3> HIDE DEF q
    <3> QED
      BY <1>2, <1>3, <3>2, <3>3
  <2>6. WSwitchServed' /\ wReq["switch"].at = "sent"
    BY <1>1, <1>3, <2>5 DEF WSwitchServed
  <2>7. WUserShape'
    BY <1>1, <1>2, <2>2, <2>3, WUserKept DEF WInv
  <2>8. WFlightShape'
    BY <1>1, <1>2, <2>2, <2>3, WFlightKept DEF WInv
  <2>9. WReqShape'
    BY <1>2, <2>2, <2>5 DEF WReqShape
  <2>10. WProviderShape'
    <3>1. wProvider' \in [live : Nat, chain : SUBSET Nat] /\ wProvider'.live = n /\ wProvider'.chain = {}
      BY <2>2, <2>4
    <3>2. wLost' \in BOOLEAN
      BY <1>1 DEF WInv, WProviderShape
    <3> QED
      BY <2>2, <3>1, <3>2 DEF WProviderShape
  <2>11. WQueueSound'
    BY <1>1, <2>5, <2>6 DEF WInv, WQueueSound
  <2>12. ~wLost => WTenantHeld' /\ WLiveHeld'
    <3> SUFFICES ASSUME ~wLost PROVE WTenantHeld' /\ WLiveHeld'
      OBVIOUS
    <3>1. WTenantHeld /\ wFlight.gen \in 0 .. Len(wGen) /\ wFlight.got \in 0 .. Len(wGen) /\ wUser.refresh <= Len(wGen)
      <4>1. WTenantHeld /\ wFlight.gen \in 0 .. Len(wGen) /\ wFlight.got \in 0 .. Len(wGen)
        BY <1>2 DEF WInv, WFlightShape, WFlightRecord
      <4>2. CASE wUser = WNone
        BY <1>2, <4>1, <4>2, WNoneFacts
      <4>3. CASE wUser # WNone
        BY <1>2, <4>1, <4>3 DEF WInv, WUserShape
      <4> QED
        BY <4>1, <4>2, <4>3
    <3>2. WRenewed' <=> WRenewed
      BY <1>1 DEF WRenewed
    <3>3. WTenantHeld'
      <4>1. wFlight'.at = "posted" /\ wFlight'.gen # 0 => wGen'[wFlight'.gen] = wGoal'
        BY <1>1, <2>2, <3>1 DEF WTenantHeld
      <4>2. WRenewed' => wGen'[wFlight'.got] = wGoal'
        BY <1>1, <2>2, <3>1, <3>2 DEF WTenantHeld, WRenewed
      <4> QED
        BY <1>1, <3>1, <4>1, <4>2 DEF WTenantHeld
    <3>4. WServedHeld'
      BY <1>1, <1>2, <2>4, <2>5, <3>1 DEF WServedHeld
    <3> QED
      BY <2>6, <3>3, <3>4 DEF WLiveHeld
  <2> QED
    BY <1>1, <2>7, <2>8, <2>9, <2>10, <2>11, <2>12 DEF WInv
<1>4. CASE /\ \E to \in {"answered", "denied"} :
                wReq' = [wReq EXCEPT ![r].at = to] /\ (r = "switch" => to = "denied")
           /\ UNCHANGED <<wGen, wProvider>>
  <2>1. PICK to \in {"answered", "denied"} :
          wReq' = [wReq EXCEPT ![r].at = to] /\ (r = "switch" => to = "denied")
    BY <1>4
  <2>2. wReq' \in [WRequests -> WReqRecord]
    BY <1>2, <2>1 DEF WReqRecord
  <2>3. CASE r = "switch"
    <3>1. wReq["switch"].at = "sent" /\ wReq'["switch"].at = "denied"
      BY <1>1, <1>2, <2>1, <2>3 DEF WReqRecord
    <3>2. ~WSwitchServed /\ ~WSwitchServed'
      BY <3>1 DEF WSwitchServed
    <3>3. WQueueSound'
      BY <1>1, <3>1 DEF WInv, WQueueSound
    <3> QED
      BY <1>1, <1>2, <1>4, <2>2, <3>2, <3>3, WInvHeld
  <2>4. CASE r # "switch"
    <3>1. wReq'["switch"] = wReq["switch"]
      BY <1>2, <2>1, <2>4
    <3>2. WSwitchServed' <=> WSwitchServed
      BY <3>1 DEF WSwitchServed
    <3>3. WQueueSound'
      BY <1>1, <3>1 DEF WInv, WQueueSound
    <3> QED
      BY <1>1, <1>2, <1>4, <2>2, <3>1, <3>2, <3>3, WInvHeld
  <2> QED
    BY <2>3, <2>4
<1>5. CASE r = "switch" /\ wReq[r].gen # 0 /\ wReq[r].gen \notin wExpired
  BY <1>3, <1>5 DEF WServe
<1>6. CASE ~(r = "switch" /\ wReq[r].gen # 0 /\ wReq[r].gen \notin wExpired)
  BY <1>4, <1>6 DEF WServe
<1> QED
  BY <1>5, <1>6

(* The renewal is posted with the refresh token of the user.                *)
LEMMA WInvRenewPost == ASSUME WInv, WRenewPost PROVE WInv'
<1>1. /\ wFlight.at = "queued" /\ wFlight' = [wFlight EXCEPT !.at = "posted", !.gen = wUser.refresh]
      /\ wOps # <<>> /\ Head(wOps) = "renew"
      /\ UNCHANGED <<wGen, wProvider, wUser, wOps, wReq, wGoal, wLost>>
  BY DEF WRenewPost, WRunning
<1>2. /\ WUserShape /\ WFlightShape /\ WReqShape /\ WProviderShape /\ WQueueSound
      /\ wFlight \in WFlightRecord /\ wGen \in Seq(WNames) /\ Len(wGen) \in Nat
  BY DEF WInv, WFlightShape, WProviderShape
<1>3. wUser.refresh \in Nat /\ wUser.refresh <= Len(wGen) /\ (wUser.refresh # 0 => wUser # WNone)
  <2>1. CASE wUser = WNone
    BY <1>2, <2>1, WNoneFacts
  <2>2. CASE wUser # WNone
    BY <1>2, <2>2 DEF WUserShape
  <2> QED
    BY <2>1, <2>2
<1>4. wFlight' \in WFlightRecord /\ wFlight'.at = "posted" /\ wFlight'.gen = wUser.refresh /\ wFlight'.got = wFlight.got
  BY <1>1, <1>2, <1>3 DEF WFlightRecord
<1>5. WFlightShape'
  BY <1>1, <1>2, <1>3, <1>4 DEF WFlightShape
<1>6. (WSwitchServed' <=> WSwitchServed) /\ ~WRenewed' /\ ~WRenewed
  BY <1>1, <1>4 DEF WSwitchServed, WRenewed
<1>7. WUserShape' /\ WReqShape' /\ WProviderShape'
  BY <1>1, <1>2, <1>6 DEF WUserShape, WReqShape, WProviderShape
<1>8. WQueueSound'
  <2>1. wOps \in WRenewFirst
    BY <1>1, <1>2, WQueueFacts DEF WQueueSound
  <2> QED
    BY <1>1, <1>2, <1>4, <2>1 DEF WQueueSound
<1>9. ~wLost => WTenantHeld' /\ WLiveHeld'
  <2> SUFFICES ASSUME ~wLost PROVE WTenantHeld' /\ WLiveHeld'
    OBVIOUS
  <2>1. WTenantHeld /\ WLiveHeld
    BY DEF WInv
  <2>2. wUser.refresh # 0 => wGen[wUser.refresh] = wGoal
    BY <1>2, <1>3, <2>1 DEF WTenantHeld, WUserShape
  <2>3. WTenantHeld'
    BY <1>1, <1>4, <1>6, <2>1, <2>2 DEF WTenantHeld
  <2>4. WSwitchServed => WServedHeld'
    BY <1>1, <1>4, <2>1 DEF WLiveHeld, WServedHeld
  <2>5. ~WSwitchServed => WUserHeld'
    BY <1>1, <1>4, <1>6, <2>1 DEF WLiveHeld, WUserHeld
  <2> QED
    BY <1>6, <2>3, <2>4, <2>5 DEF WLiveHeld
<1> QED
  BY <1>1, <1>5, <1>7, <1>8, <1>9 DEF WInv

(* The provider answers it: with a new generation if the token is live.     *)
LEMMA WInvRenewServe == ASSUME WInv, WRenewServe PROVE WInv'
<1>1. wFlight.at = "posted" /\ WSpend(wFlight.gen) /\ UNCHANGED <<wUser, wOps, wReq, wGoal, wLost>>
  BY DEF WRenewServe
<1>2. /\ WUserShape /\ WFlightShape /\ WReqShape /\ WProviderShape /\ WQueueSound
      /\ wFlight \in WFlightRecord /\ wGen \in Seq(WNames) /\ Len(wGen) \in Nat
      /\ wProvider.live \in Nat /\ wProvider.live <= Len(wGen)
  BY DEF WInv, WFlightShape, WProviderShape
<1>3. WSwitchServed' <=> WSwitchServed
  BY <1>1 DEF WSwitchServed
<1>4. ~WRenewed
  BY <1>1 DEF WRenewed
<1>5. CASE wFlight.gen = wProvider.live /\ wFlight.gen # 0
  <2> DEFINE t == wGen[wFlight.gen]
             n == Len(wGen) + 1
  <2>1. /\ wGen' = Append(wGen, t) /\ wProvider' = [live |-> n, chain |-> wProvider.chain \cup {wFlight.gen}]
        /\ wFlight' = [wFlight EXCEPT !.at = "answered", !.got = n]
    BY <1>1, <1>5 DEF WRenewServe, WSpend, WMint, WMinted
  <2>2. wFlight.gen \in 1 .. Len(wGen) /\ t \in WNames
    BY <1>2, <1>5
  <2> HIDE DEF t
  <2>3. /\ wGen' \in Seq(WNames) /\ Len(wGen') = n /\ n \in Nat /\ wGen'[n] = t
        /\ \A i \in 1 .. Len(wGen) : wGen'[i] = wGen[i]
    BY <1>2, <2>1, <2>2, WMintFacts
  <2>4. WGrown
    BY <1>2, <2>1, <2>2, WGrownMint
  <2>5. wFlight' \in WFlightRecord /\ wFlight'.at = "answered" /\ wFlight'.gen = wFlight.gen /\ wFlight'.got = n
    BY <1>2, <2>1, <2>3 DEF WFlightRecord
  <2>6. WUserShape' /\ WReqShape'
    <3>1. WUserShape'
      BY <1>1, <1>2, <2>3, <2>4, WUserKept
    <3>2. WReqShape'
      BY <1>1, <1>2, <1>3, <2>3, <2>4, WReqKept DEF WReqShape
    <3> QED
      BY <3>1, <3>2
  <2>7. WFlightShape'
    BY <1>2, <2>2, <2>3, <2>5 DEF WFlightShape
  <2>8. WProviderShape'
    <3>1. wProvider.chain \in SUBSET Nat /\ 0 \notin wProvider.chain /\ wLost' \in BOOLEAN
      BY <1>1, <1>2 DEF WProviderShape
    <3>2. wProvider' \in [live : Nat, chain : SUBSET Nat] /\ wProvider'.live = n /\ 0 \notin wProvider'.chain
      BY <2>1, <2>2, <2>3, <3>1
    <3> QED
      BY <2>3, <3>1, <3>2 DEF WProviderShape
  <2>9. WQueueSound'
    BY <1>1, <1>2, <2>5 DEF WQueueSound
  <2>10. ~wLost => WTenantHeld' /\ WLiveHeld'
    <3> SUFFICES ASSUME ~wLost PROVE WTenantHeld' /\ WLiveHeld'
      OBVIOUS
    <3>1. WTenantHeld /\ WLiveHeld
      BY DEF WInv
    <3>2. ~WSwitchServed
      BY <1>1, <1>5, <3>1 DEF WLiveHeld, WServedHeld
    <3>3. WRenewed'
      BY <2>2, <2>5, <1>2 DEF WRenewed
    <3>4. t = wGoal
      BY <1>1, <1>5, <3>1 DEF WTenantHeld, t
    <3>5. WTenantHeld'
      BY <1>1, <2>3, <2>5, <3>1, <3>4 DEF WTenantHeld
    <3>6. WUserHeld'
      BY <2>1, <2>5, <3>3 DEF WUserHeld
    <3> QED
      BY <1>3, <3>2, <3>5, <3>6 DEF WLiveHeld
  <2> QED
    BY <1>1, <2>6, <2>7, <2>8, <2>9, <2>10 DEF WInv
<1>6. CASE ~(wFlight.gen = wProvider.live /\ wFlight.gen # 0)
  <2>1. /\ wGen' = wGen /\ wFlight' = [wFlight EXCEPT !.at = "answered", !.got = 0]
        /\ wFlight.gen \notin wProvider.chain => wProvider' = wProvider
        /\ wFlight.gen \in wProvider.chain => wProvider' = [live |-> 0, chain |-> {}]
    BY <1>1, <1>6 DEF WRenewServe, WSpend
  <2>2. wFlight' \in WFlightRecord /\ wFlight'.at = "answered" /\ wFlight'.gen = wFlight.gen /\ wFlight'.got = 0
    BY <1>2, <2>1 DEF WFlightRecord
  <2>3. WUserShape' /\ WReqShape'
    BY <1>1, <1>2, <1>3, <2>1 DEF WUserShape, WReqShape
  <2>4. WFlightShape'
    BY <1>2, <2>1, <2>2 DEF WFlightShape
  <2>5. WProviderShape'
    <3>1. CASE wProvider' = wProvider
      BY <1>1, <1>2, <2>1, <3>1 DEF WProviderShape
    <3>2. CASE wProvider' = [live |-> 0, chain |-> {}]
      <4>1. wProvider' \in [live : Nat, chain : SUBSET Nat] /\ wProvider'.live = 0 /\ wProvider'.chain = {}
        BY <3>2
      <4> QED
        BY <1>1, <1>2, <2>1, <4>1 DEF WProviderShape
    <3> QED
      BY <2>1, <3>1, <3>2
  <2>6. WQueueSound'
    BY <1>1, <1>2, <2>2 DEF WQueueSound
  <2>7. ~wLost => WTenantHeld' /\ WLiveHeld'
    <3> SUFFICES ASSUME ~wLost PROVE WTenantHeld' /\ WLiveHeld'
      OBVIOUS
    <3>1. WTenantHeld /\ WLiveHeld
      BY DEF WInv
    <3>2. ~WRenewed'
      BY <2>2 DEF WRenewed
    <3>3. WTenantHeld'
      BY <1>1, <2>2, <3>1, <3>2 DEF WTenantHeld
    <3>4. CASE WSwitchServed
      <4>1. wProvider' = wProvider /\ wReq["switch"].gen # 0
        BY <1>2, <2>1, <3>1, <3>4 DEF WLiveHeld, WServedHeld, WReqShape
      <4>2. WServedHeld'
        BY <1>1, <2>2, <3>1, <3>4, <4>1 DEF WLiveHeld, WServedHeld
      <4> QED
        BY <1>3, <3>3, <3>4, <4>2 DEF WLiveHeld
    <3>5. CASE ~WSwitchServed
      <4>1. wUser = WNone
        BY <1>1, <1>2, <1>4, <1>6, <3>1, <3>5 DEF WLiveHeld, WUserHeld, WTenantHeld, WUserShape
      <4>2. WUserHeld'
        BY <1>1, <3>2, <4>1 DEF WUserHeld
      <4> QED
        BY <1>3, <3>3, <3>5, <4>2 DEF WLiveHeld
    <3> QED
      BY <3>4, <3>5
  <2> QED
    BY <1>1, <2>3, <2>4, <2>5, <2>6, <2>7 DEF WInv
<1> QED
  BY <1>5, <1>6

(* The renewal ends: its user is stored, or there is none.                  *)
LEMMA WInvRenewDone == ASSUME WInv, WRenewDone PROVE WInv'
<1>1. /\ wFlight.at = "answered" /\ wOps # <<>> /\ Head(wOps) = "renew" /\ wOps' = Tail(wOps)
      /\ UNCHANGED <<wGen, wProvider, wReq, wGoal, wLost>>
  BY DEF WRenewDone, WRunning
<1>2. /\ WUserShape /\ WFlightShape /\ WReqShape /\ WProviderShape /\ WQueueSound
      /\ wFlight \in WFlightRecord /\ wReq \in [WRequests -> WReqRecord] /\ wGen \in Seq(WNames) /\ Len(wGen) \in Nat
  BY DEF WInv, WFlightShape, WProviderShape, WReqShape
<1>3. WSwitchServed' <=> WSwitchServed
  BY <1>1 DEF WSwitchServed
<1>4. wOps' \in WQueues /\ wOps' \notin WHasRenew /\ (wOps' \in WHasStore <=> wOps \in WHasStore)
  BY <1>1, <1>2, WQueueFacts DEF WQueueSound
<1>5. wFlight'.at \notin {"queued", "posted", "answered"} => WQueueSound'
  BY <1>1, <1>2, <1>4 DEF WQueueSound
<1>6. CASE wFlight.got # 0
  <2>1. wUser' = WUserOf(wFlight.got) /\ wFlight' = [wFlight EXCEPT !.at = "token"]
    BY <1>6 DEF WRenewDone
  <2>2. wFlight' \in WFlightRecord /\ wFlight'.at = "token" /\ wFlight'.gen = wFlight.gen /\ wFlight'.got = wFlight.got
    BY <1>2, <2>1 DEF WFlightRecord
  <2>3. wFlight.got \in 1 .. Len(wGen) /\ wGen[wFlight.got] \in WNames
    BY <1>2, <1>6 DEF WFlightShape, WFlightRecord
  <2>4. /\ wUser' \in [gen : Nat, refresh : Nat, tenant : WNames]
        /\ wUser'.gen = wFlight.got /\ wUser'.refresh = wFlight.got /\ wUser'.tenant = wGen[wFlight.got]
    BY <2>1, <2>3 DEF WUserOf
  <2>5. WUserShape'
    BY <1>1, <2>3, <2>4 DEF WUserShape
  <2>6. WFlightShape' /\ WReqShape' /\ WProviderShape'
    BY <1>1, <1>2, <1>3, <2>2 DEF WFlightShape, WReqShape, WProviderShape
  <2>7. WQueueSound'
    BY <1>5, <2>2
  <2>8. ~wLost => WTenantHeld' /\ WLiveHeld'
    <3> SUFFICES ASSUME ~wLost PROVE WTenantHeld' /\ WLiveHeld'
      OBVIOUS
    <3>1. WTenantHeld /\ WLiveHeld
      BY DEF WInv
    <3>2. WRenewed /\ ~WRenewed'
      BY <1>1, <1>6, <2>2 DEF WRenewed
    <3>3. WTenantHeld'
      BY <1>1, <2>2, <2>4, <3>1, <3>2 DEF WTenantHeld
    <3>4. WSwitchServed => WServedHeld'
      BY <1>1, <2>2, <2>4, <3>1 DEF WLiveHeld, WServedHeld
    <3>5. ~WSwitchServed => WUserHeld'
      BY <1>1, <2>2, <2>4, <3>1, <3>2 DEF WLiveHeld, WUserHeld
    <3> QED
      BY <1>3, <3>3, <3>4, <3>5 DEF WLiveHeld
  <2> QED
    BY <1>1, <2>5, <2>6, <2>7, <2>8 DEF WInv
<1>7. CASE wFlight.got = 0
  <2>1. /\ wUser' = wUser
        /\ wFlight' = [wFlight EXCEPT !.at = "awaiting"] \/ wFlight' = [wFlight EXCEPT !.at = "failed"]
    BY <1>7 DEF WRenewDone
  <2>2. /\ wFlight' \in WFlightRecord /\ wFlight'.at \in {"awaiting", "failed"}
        /\ wFlight'.gen = wFlight.gen /\ wFlight'.got = wFlight.got
    BY <1>2, <2>1 DEF WFlightRecord
  <2>3. ~WRenewed
    BY <1>7 DEF WRenewed
  <2>4. WQueueSound'
    BY <1>5, <2>2
  <2>5. wReq' \in [WRequests -> WReqRecord]
    BY <1>1, <1>2
  <2> QED
    BY <1>1, <1>3, <2>1, <2>2, <2>3, <2>4, <2>5, WInvHeld
<1> QED
  BY <1>6, <1>7

(* The tokens of the switch are stored, with no renewal posted.             *)
LEMMA WInvStore == ASSUME WInv, WStore PROVE WInv'
<1> DEFINE g == wReq["switch"].gen
<1>1. /\ wOps # <<>> /\ Head(wOps) = "store" /\ wOps' = Tail(wOps)
      /\ wUser' = WUserOf(g) /\ wGoal' = wGen[g]
      /\ wReq' = [wReq EXCEPT !["switch"] = WIdleReq]
      /\ wFlight' = wFlight \/ (wFlight.at = "awaiting" /\ wFlight' = [wFlight EXCEPT !.at = "token"])
      /\ UNCHANGED <<wGen, wProvider, wLost>>
  BY DEF WStore, WRunning
<1>2. /\ WUserShape /\ WFlightShape /\ WReqShape /\ WProviderShape /\ WQueueSound
      /\ wFlight \in WFlightRecord /\ wReq \in [WRequests -> WReqRecord] /\ "switch" \in WRequests
      /\ wGen \in Seq(WNames) /\ Len(wGen) \in Nat
  BY DEF WInv, WFlightShape, WProviderShape, WReqShape, WRequests
<1>3. /\ wOps \notin WRenewFirst /\ wOps' \in WQueues /\ wOps' \notin WHasStore
      /\ wOps' \in WHasRenew <=> wOps \in WHasRenew
  BY <1>1, <1>2, WQueueFacts DEF WQueueSound
<1>4. wOps \in WHasStore
  <2>1. wOps \in WQueues /\ wOps # <<>>
    BY <1>1, <1>2 DEF WQueueSound
  <2> QED
    BY <1>3, <2>1 DEF WQueues, WHasRenew, WHasStore, WRenewFirst
<1>5. wReq["switch"].at = "storing" /\ WSwitchServed
  BY <1>2, <1>4 DEF WQueueSound, WSwitchServed
<1>6. g \in 1 .. Len(wGen) /\ wGen[g] \in WNames
  BY <1>2, <1>5 DEF WReqShape
<1>7. wFlight.at \notin {"posted", "answered"}
  BY <1>2, <1>3 DEF WQueueSound
<1>8. /\ wFlight' \in WFlightRecord /\ wFlight'.at \notin {"posted", "answered"}
      /\ wFlight'.at = "queued" <=> wFlight.at = "queued"
      /\ wFlight'.gen = wFlight.gen /\ wFlight'.got = wFlight.got
  <2>1. CASE wFlight' = wFlight
    BY <1>2, <1>7, <2>1
  <2>2. CASE wFlight.at = "awaiting" /\ wFlight' = [wFlight EXCEPT !.at = "token"]
    BY <1>2, <2>2 DEF WFlightRecord
  <2> QED
    BY <1>1, <2>1, <2>2
<1>9. wReq' \in [WRequests -> WReqRecord] /\ wReq'["switch"].at = "idle"
  BY <1>1, <1>2, WNoneFacts
<1>10. ~WSwitchServed' /\ ~WRenewed'
  BY <1>8, <1>9 DEF WSwitchServed, WRenewed
<1> HIDE DEF g
<1>11. /\ wUser' \in [gen : Nat, refresh : Nat, tenant : WNames]
       /\ wUser'.gen = g /\ wUser'.refresh = g /\ wUser'.tenant = wGen[g]
  BY <1>1, <1>6 DEF WUserOf
<1>12. WUserShape'
  BY <1>1, <1>6, <1>11 DEF WUserShape
<1>13. WFlightShape' /\ WReqShape' /\ WProviderShape'
  BY <1>1, <1>2, <1>8, <1>9, <1>10 DEF WFlightShape, WReqShape, WProviderShape
<1>14. WQueueSound'
  BY <1>2, <1>3, <1>7, <1>8, <1>9 DEF WQueueSound
<1>15. ~wLost => WTenantHeld' /\ WLiveHeld'
  <2> SUFFICES ASSUME ~wLost PROVE WTenantHeld' /\ WLiveHeld'
    OBVIOUS
  <2>1. wProvider.live = g
    BY <1>5 DEF WInv, WLiveHeld, WServedHeld, g
  <2>2. WTenantHeld'
    BY <1>1, <1>8, <1>10, <1>11 DEF WTenantHeld
  <2>3. WUserHeld'
    BY <1>1, <1>8, <1>10, <1>11, <2>1 DEF WUserHeld
  <2> QED
    BY <1>10, <2>2, <2>3 DEF WLiveHeld
<1> QED
  BY <1>1, <1>12, <1>13, <1>14, <1>15 DEF WInv

LEMMA WInvLogin == ASSUME WInv, NEW t \in WNames, WLogin(t) PROVE WInv'
<1> DEFINE n == Len(wGen) + 1
<1>1. /\ wOps = <<>> /\ wFlight = WIdleFlight /\ wReq["switch"].at = "idle"
      /\ wGen' = Append(wGen, t) /\ wProvider' = [live |-> n, chain |-> {}]
      /\ wUser' = [gen |-> n, refresh |-> n, tenant |-> t] /\ wGoal' = t /\ wLost' = FALSE
      /\ UNCHANGED <<wOps, wFlight, wReq>>
  BY DEF WLogin, WMint, WMinted, WBusy, WRequests
<1>2. /\ WFlightShape /\ WReqShape /\ WQueueSound /\ wFlight \in WFlightRecord
      /\ wGen \in Seq(WNames) /\ wReq \in [WRequests -> WReqRecord]
  BY DEF WInv, WFlightShape, WProviderShape, WReqShape
<1>3. /\ wGen' \in Seq(WNames) /\ Len(wGen') = n /\ Len(wGen) \in Nat /\ n \in Nat /\ wGen'[n] = t
  BY <1>1, <1>2, WMintFacts
<1>4. WGrown
  BY <1>1, <1>2, WGrownMint
<1>5. ~WSwitchServed' /\ ~WRenewed'
  BY <1>1, WNoneFacts DEF WSwitchServed, WRenewed
<1>6. WUserShape'
  BY <1>1, <1>3 DEF WUserShape
<1>7. WFlightShape'
  BY <1>1, <1>2, <1>3, <1>4, WFlightKept
<1>8. WReqShape'
  BY <1>1, <1>2, <1>5 DEF WReqShape
<1>9. WProviderShape'
  <2>1. wProvider' \in [live : Nat, chain : SUBSET Nat] /\ wProvider'.live = n /\ wProvider'.chain = {}
    BY <1>1, <1>3
  <2>2. wLost' \in BOOLEAN
    BY <1>1
  <2> QED
    BY <1>3, <2>1, <2>2 DEF WProviderShape
<1>10. WQueueSound'
  BY <1>1, <1>2 DEF WQueueSound
<1>11. WTenantHeld' /\ WLiveHeld'
  <2>1. wUser'.refresh = n /\ wUser'.gen = n /\ wUser'.tenant = t /\ wProvider'.live = n /\ wFlight'.at = "none"
    BY <1>1, WNoneFacts
  <2>2. WTenantHeld' /\ WUserHeld'
    BY <1>1, <1>5, <2>1 DEF WTenantHeld, WUserHeld
  <2> QED
    BY <1>5, <2>2 DEF WLiveHeld
<1> QED
  BY <1>6, <1>7, <1>8, <1>9, <1>10, <1>11 DEF WInv

(* What may end the session: an answer lost, another tab, a sign-out.       *)
LEMMA WInvLost ==
  ASSUME WInv, wLost' = TRUE, UNCHANGED <<wGen, wOps, wReq>>,
         wUser' = wUser \/ wUser' = [wUser EXCEPT !.refresh = 0], wUser' # wUser => wUser # WNone,
         wFlight' = wFlight \/ wFlight' = [wFlight EXCEPT !.got = 0],
         wProvider' = wProvider \/ wProvider' = [live |-> 0, chain |-> {}]
  PROVE  WInv'
<1>1. /\ WUserShape /\ WFlightShape /\ WReqShape /\ WProviderShape /\ WQueueSound
      /\ wFlight \in WFlightRecord /\ wUser \in [gen : Nat, refresh : Nat, tenant : WNames]
      /\ wGen \in Seq(WNames) /\ Len(wGen) \in Nat
  BY DEF WInv, WFlightShape, WProviderShape, WUserShape
<1>2. WSwitchServed' <=> WSwitchServed
  BY DEF WSwitchServed
<1>3. WUserShape'
  <2>1. CASE wUser' = wUser
    BY <1>1, <2>1 DEF WUserShape
  <2>2. CASE wUser # WNone /\ wUser' = [wUser EXCEPT !.refresh = 0]
    <3>1. /\ wUser' \in [gen : Nat, refresh : Nat, tenant : WNames]
          /\ wUser'.gen = wUser.gen /\ wUser'.refresh = 0 /\ wUser'.tenant = wUser.tenant
      BY <1>1, <2>2
    <3> QED
      BY <1>1, <2>2, <3>1 DEF WUserShape
  <2> QED
    BY <2>1, <2>2
<1>4. wFlight' \in WFlightRecord /\ wFlight'.at = wFlight.at /\ wFlight'.gen = wFlight.gen /\ wFlight'.got \in {0, wFlight.got}
  BY <1>1 DEF WFlightRecord
<1>5. WFlightShape'
  BY <1>1, <1>4 DEF WFlightShape
<1>6. WReqShape' /\ WQueueSound'
  BY <1>1, <1>2, <1>4 DEF WReqShape, WQueueSound
<1>7. WProviderShape'
  <2>1. CASE wProvider' = wProvider
    BY <1>1, <2>1 DEF WProviderShape
  <2>2. CASE wProvider' = [live |-> 0, chain |-> {}]
    <3>1. wProvider' \in [live : Nat, chain : SUBSET Nat] /\ wProvider'.live = 0 /\ wProvider'.chain = {}
      BY <2>2
    <3>2. wLost' \in BOOLEAN
      OBVIOUS
    <3> QED
      BY <1>1, <3>1, <3>2 DEF WProviderShape
  <2> QED
    BY <2>1, <2>2
<1> QED
  BY <1>3, <1>5, <1>6, <1>7 DEF WInv

LEMMA WInvLogoutLeave == ASSUME WInv, NEW fails \in BOOLEAN, WLogoutLeave(fails) PROVE WInv'
<1>1. wUser' = WNone /\ UNCHANGED <<wGen, wProvider, wGoal, wLost>>
  BY DEF WLogoutLeave
<1>2. /\ WUserShape /\ WFlightShape /\ WReqShape /\ WProviderShape /\ WQueueSound
      /\ wFlight \in WFlightRecord /\ wReq \in [WRequests -> WReqRecord] /\ "switch" \in WRequests
      /\ wGen \in Seq(WNames) /\ wGen' \in Seq(WNames)
  BY <1>1 DEF WInv, WFlightShape, WProviderShape, WReqShape, WRequests
<1>3. CASE UNCHANGED <<wOps, wFlight, wReq>>
  <2>1. WSwitchServed' <=> WSwitchServed
    BY <1>3 DEF WSwitchServed
  <2>2. WQueueSound'
    BY <1>2, <1>3 DEF WQueueSound
  <2>3. wReq' = wReq /\ wFlight' = wFlight
    BY <1>3
  <2> QED
    BY <1>1, <1>2, <2>1, <2>2, <2>3, WInvHeld
<1>4. CASE wOps' = <<>> /\ wFlight' = WIdleFlight /\ wReq' = [r \in WRequests |-> WIdleReq]
  <2>1. wReq' \in [WRequests -> WReqRecord] /\ wReq'["switch"].at = "idle"
    BY <1>2, <1>4, WNoneFacts
  <2>2. ~WSwitchServed' /\ ~WRenewed'
    BY <1>4, <2>1, WNoneFacts DEF WSwitchServed, WRenewed
  <2>3. WGrown
    BY <1>1, <1>2, WGrownSame
  <2>4. WUserShape' /\ WFlightShape' /\ WReqShape'
    <3>1. WUserShape'
      BY <1>1, <1>2, <2>3, WUserKept
    <3>2. WFlightShape'
      BY <1>2, <1>4, <2>3, WNoneFacts, WFlightKept
    <3>3. WReqShape'
      BY <2>1, <2>2 DEF WReqShape
    <3> QED
      BY <3>1, <3>2, <3>3
  <2>5. WProviderShape'
    BY <1>1, <1>2 DEF WProviderShape
  <2>6. WQueueSound'
    BY <1>4, <2>1, WNoneFacts, WQueueFacts DEF WQueueSound, WQueues
  <2>7. WTenantHeld' /\ WUserHeld'
    BY <1>1, <1>4, <2>2, WNoneFacts DEF WTenantHeld, WUserHeld
  <2>8. WLiveHeld'
    BY <2>2, <2>7 DEF WLiveHeld
  <2> QED
    BY <2>4, <2>5, <2>6, <2>7, <2>8 DEF WInv
<1> QED
  BY <1>3, <1>4 DEF WLogoutLeave

LEMMA WInvStep == WInv /\ [WNext]_wVars => WInv'
<1> SUFFICES ASSUME WInv, [WNext]_wVars PROVE WInv'
  OBVIOUS
<1>1. ASSUME NEW r \in WRequests, WRequestStep(r) PROVE WInv'
  BY <1>1, WInvServe, WInvAnswered, WInvDenied DEF WRequestStep
<1>2. CASE WTokenStep
  BY <1>2, WInvRenewPost, WInvRenewServe, WInvRenewDone, WInvStore, WInvFlightEnds DEF WTokenStep
<1>3. CASE WExpire
  BY <1>3, WInvSame DEF WExpire
<1>4. CASE WOtherTab
  BY <1>4, WInvLost DEF WOtherTab
<1>5. CASE WRenewLost
  BY <1>5, WInvLost DEF WRenewLost
<1>6. CASE WRefuse
  BY <1>6, WInvRefuse
<1>7. ASSUME NEW r \in WQueries, WSend(r, "none") PROVE WInv'
  <2>1. r \in WRequests /\ "none" \in WNames
    BY DEF WRequests, WNames
  <2> QED
    BY <1>7, <2>1, WInvSend
<1>8. ASSUME NEW t \in WTenants, WSwitchTo(t) \/ WLogin(t) PROVE WInv'
  <2>1. "switch" \in WRequests /\ t \in WNames
    BY DEF WRequests, WNames
  <2> QED
    BY <1>8, <2>1, WInvSend, WInvLogin DEF WSwitchTo
<1>9. ASSUME NEW ok \in BOOLEAN, WLogoutRevoke(ok) \/ WLogoutLeave(~ok) PROVE WInv'
  <2>1. CASE WLogoutRevoke(ok)
    BY <2>1, WInvLost DEF WLogoutRevoke
  <2>2. CASE WLogoutLeave(~ok)
    <3>1. (~ok) \in BOOLEAN
      OBVIOUS
    <3> QED
      BY <2>2, <3>1, WInvLogoutLeave
  <2> QED
    BY <1>9, <2>1, <2>2
<1>10. CASE UNCHANGED wVars
  BY <1>10, WInvSame DEF wVars
<1> QED
  BY <1>1, <1>2, <1>3, <1>4, <1>5, <1>6, <1>7, <1>8, <1>9, <1>10 DEF WNext

LEMMA WWaitingStep == WInv /\ WWaiting /\ [WNext]_wVars => WWaiting'
<1> SUFFICES ASSUME WInv, WWaiting, [WNext]_wVars PROVE WWaiting'
  OBVIOUS
<1>1. /\ wReq \in [WRequests -> WReqRecord] /\ wFlight \in WFlightRecord /\ WQueries \subseteq WRequests
      /\ "switch" \in WRequests /\ WIdleReq.at = "idle" /\ WIdleFlight.at = "none"
  BY WNoneFacts DEF WInv, WReqShape, WFlightShape, WRequests, WIdleReq, WIdleFlight
<1>2. ASSUME NEW r \in WRequests, NEW t, WSend(r, t) PROVE WWaiting'
  <2>1. wReq'[r].at = "sent" /\ \A q \in WRequests : q # r => wReq'[q] = wReq[q]
    BY <1>1, <1>2 DEF WSend, WIdleReq
  <2> QED
    BY <1>1, <1>2, <2>1 DEF WWaiting, WSend, WBusy
<1>3. ASSUME NEW r \in WRequests, WServe(r) PROVE WWaiting'
  <2>1. wReq'[r].at \in {"answered", "denied"} /\ \A q \in WRequests : q # r => wReq'[q] = wReq[q]
    BY <1>1, <1>3 DEF WServe, WReqRecord
  <2> QED
    BY <1>1, <1>3, <2>1 DEF WWaiting, WServe
<1>4. ASSUME NEW r \in WRequests, WAnswered(r) PROVE WWaiting'
  <2>1. wReq'[r].at = (IF r = "switch" THEN "storing" ELSE "idle") /\ \A q \in WRequests : q # r => wReq'[q] = wReq[q]
    BY <1>1, <1>4 DEF WAnswered, WReqRecord
  <2> QED
    BY <1>1, <1>4, <2>1 DEF WWaiting, WAnswered
<1>5. ASSUME NEW r \in WRequests, WDenied(r) PROVE WWaiting'
  <2>1. wReq'[r].at \in {"idle", "waiting"} /\ \A q \in WRequests : q # r => wReq'[q] = wReq[q]
    BY <1>1, <1>5 DEF WDenied, WReqRecord
  <2>2. \/ wFlight' = wFlight /\ (wReq'[r].at = "idle" \/ wFlight.at # "none")
        \/ wFlight'.at = "queued"
    BY <1>1, <1>5 DEF WDenied, WIdleFlight
  <2> QED
    BY <1>1, <1>5, <2>1, <2>2 DEF WWaiting, WDenied
<1>6. CASE WRefuse
  <2>1. wReq'["switch"].at = "idle" /\ \A q \in WRequests : q # "switch" => wReq'[q] = wReq[q]
    BY <1>1, <1>6 DEF WRefuse
  <2> QED
    BY <1>1, <1>6, <2>1 DEF WWaiting, WRefuse
<1>7. CASE UNCHANGED <<wReq, wFlight>>
  BY <1>7 DEF WWaiting
<1>8. CASE WRenewPost \/ WRenewServe \/ WRenewLost
  <2>1. wFlight'.at \in {"posted", "answered"} /\ UNCHANGED wReq
    BY <1>1, <1>8 DEF WRenewPost, WRenewServe, WRenewLost, WFlightRecord
  <2> QED
    BY <2>1 DEF WWaiting
<1>9. CASE WRenewDone
  <2>1. /\ wFlight'.at \in {"token", "awaiting", "failed"} /\ UNCHANGED wReq
        /\ wFlight'.at = "awaiting" => wReq["switch"].at = "storing"
    BY <1>1, <1>9 DEF WRenewDone, WFlightRecord
  <2> QED
    BY <2>1 DEF WWaiting
<1>10. CASE WStore
  <2>1. wReq'["switch"].at = "idle" /\ \A q \in WRequests : q # "switch" => wReq'[q] = wReq[q]
    BY <1>1, <1>10 DEF WStore
  <2>2. IF wFlight.at = "awaiting" THEN wFlight'.at = "token" ELSE wFlight' = wFlight
    BY <1>1, <1>10 DEF WStore, WFlightRecord
  <2> QED
    BY <1>1, <2>1, <2>2 DEF WWaiting
<1>11. CASE WFlightEnds
  <2>1. /\ wFlight'.at = "none"
        /\ \A q \in WRequests : /\ wReq'[q].at # "waiting"
                                /\ wReq'[q].at = "storing" => wReq[q].at = "storing"
    BY <1>1, <1>11 DEF WFlightEnds, WReqRecord
  <2> QED
    BY <1>1, <2>1 DEF WWaiting
<1>12. ASSUME NEW fails, WLogoutLeave(fails) PROVE WWaiting'
  <2>1. CASE UNCHANGED <<wFlight, wReq>>
    BY <1>7, <2>1
  <2>2. CASE wFlight' = WIdleFlight /\ wReq' = [r \in WRequests |-> WIdleReq]
    <3>1. wFlight'.at = "none" /\ \A q \in WRequests : wReq'[q].at = "idle"
      BY <1>1, <2>2
    <3> QED
      BY <1>1, <3>1 DEF WWaiting
  <2> QED
    BY <1>12, <2>1, <2>2 DEF WLogoutLeave
<1>13. CASE WNext
  <2>1. WExpire \/ WOtherTab \/ (\E t \in WTenants : WLogin(t)) \/ (\E ok \in BOOLEAN : WLogoutRevoke(ok))
        => UNCHANGED <<wReq, wFlight>>
    BY DEF WExpire, WOtherTab, WLogin, WLogoutRevoke
  <2> QED
    BY <1>1, <1>2, <1>3, <1>4, <1>5, <1>6, <1>7, <1>8, <1>9, <1>10, <1>11, <1>12, <1>13, <2>1
    DEF WNext, WRequestStep, WTokenStep, WSwitchTo
<1> QED
  BY <1>7, <1>13 DEF wVars

(* Whatever the interleaving of requests, renewals, tenant switches, faults *)
(* and sign-out, for any tenants and any number of queries in flight: the   *)
(* tab holds well-formed tokens, shows the tenant it was last switched to   *)
(* and, at rest, the live refresh token, unless something ended the session *)
(* from outside; and what a request waits for can always go on.             *)
THEOREM TabAlwaysSound == WSpec => []WTabSound
<1>1. WInv /\ WWaiting => WTabSound
  <2> SUFFICES ASSUME WInv, WWaiting PROVE WTabSound
    OBVIOUS
  <2>1. WTypeOK
    <3>1. wUser = WNone \/ wUser.gen \in 1 .. Len(wGen)
      BY DEF WInv, WUserShape
    <3>2. wProvider.live \in 0 .. Len(wGen)
      BY DEF WInv, WProviderShape
    <3>3. Len(wOps) <= 2 /\ \A i, j \in DOMAIN wOps : wOps[i] = wOps[j] => i = j
      BY WQueueFacts DEF WInv, WQueueSound
    <3>4. \A r \in WRequests : wReq[r].at \in {"idle", "sent", "answered", "denied", "waiting", "storing"}
      BY DEF WInv, WReqShape, WReqRecord
    <3> QED
      BY <3>1, <3>2, <3>3, <3>4 DEF WTypeOK
  <2>2. WTenantKept
    BY DEF WInv, WTenantHeld, WTenantKept
  <2>3. WTokenLive
    <3> SUFFICES ASSUME WQuiet, wUser # WNone, ~wLost PROVE wUser.refresh = wProvider.live
      BY DEF WTokenLive
    <3>1. wReq["switch"].at = "idle" /\ wFlight.at = "none"
      BY WNoneFacts DEF WQuiet, WBusy, WRequests
    <3>2. ~WSwitchServed /\ ~WRenewed
      BY <3>1 DEF WSwitchServed, WRenewed
    <3> QED
      BY <3>2 DEF WInv, WLiveHeld, WUserHeld
  <2>4. WNobodyStuck
    <3> SUFFICES ASSUME NEW r \in WRequests, wReq[r].at \in {"waiting", "storing"},
                        wFlight.at \notin {"token", "failed"}
                 PROVE  \/ WRunning("store")
                        \/ WRunning("renew") /\ wFlight.at \in {"queued", "posted", "answered"}
      BY DEF WNobodyStuck
    <3>1. wOps \in WHasRenew \/ wOps \in WHasStore
      <4>1. CASE wReq[r].at = "storing"
        BY <4>1 DEF WInv, WQueueSound, WWaiting, WRequests
      <4>2. CASE wReq[r].at = "waiting"
        BY <4>2 DEF WInv, WQueueSound, WWaiting, WFlightShape, WFlightRecord
      <4> QED
        BY <4>1, <4>2
    <3>2. WRunning("store") \/ (WRunning("renew") /\ wOps \in WHasRenew)
      <4>1. wOps # <<>> /\ Head(wOps) \in {"renew", "store"}
        BY <3>1 DEF WHasRenew, WHasStore, WRenew, WStoring, WRenewStore, WStoreRenew
      <4>2. wOps \in WQueues /\ WRenewFirst \subseteq WHasRenew
        BY DEF WInv, WQueueSound, WRenewFirst, WHasRenew
      <4> QED
        BY <4>1, <4>2, WQueueFacts DEF WRunning
    <3> QED
      BY <3>2 DEF WInv, WQueueSound
  <2> QED
    BY <2>1, <2>2, <2>3, <2>4 DEF WTabSound
<1>2. WInit => WInv /\ WWaiting
  BY WInvInit, WNoneFacts DEF WInit, WWaiting, WIdleReq, WIdleFlight, WRequests
<1> QED
  BY <1>1, <1>2, WInvStep, WWaitingStep, PTL DEF WSpec

-------------------------------------------------------------------------------
(* Account sessions.                                                        *)

(* A grant whose login or switch has saved everything that belongs to it.   *)
SIssued(g) ==
  \/ g \in SSids /\ sLog[g] # "out"
  \/ g \in SSwitches /\ sSw[g].pc \notin {"idle", "grant", "access", "refresh"}

(* A session row, stored or loaded, names a grant of its own account.       *)
SBound(row) == row # SNoRow => SIssued(row.grant) /\ sOwner[row.grant] = row.acct

SSwitchRecord ==
  [pc : SSwitchPCs, from : SAccounts \cup {SNone}, to : SAccounts \cup {SNone},
   prev : SGrants \cup {SNone}, todo : SUBSET SSids]

SShapes == STypeOK /\ sSw \in [SSwitches -> SSwitchRecord]

SLoginSound(s) ==
  /\ sLog[s] = "out" => sRow[s] = SNoRow /\ sCopy[s] = SNoRow /\ s \notin sSkipped
  /\ sLog[s] # "out" => sOwner[s] \in SAccounts
  /\ sLog[s] = "claim" => s \notin sSkipped
  /\ sLog[s] \in {"claim", "commit"} => SLimit > 0
  /\ SBound(sRow[s]) /\ SBound(sCopy[s])

SSwitchSound(w) ==
  LET sw == sSw[w]
  IN  /\ sw.pc # "idle" => sw.from \in SAccounts /\ sw.to \in SAccounts
      /\ sw.pc \notin {"idle", "grant"} => sOwner[w] = sw.to
      /\ sw.pc \in {"revoke.access", "revoke.refresh"} => sw.prev \in SGrants
      /\ \A s \in sw.todo : sLog[s] # "out"

SVictimsSound(s) ==
  /\ sLog[s] \in {"out", "claim", "commit"} => sVictims[s] = {}
  /\ \A g \in sVictims[s] : SIssued(g)
  /\ sLog[s] = "in" => \A g \in sVictims[s] : sGrant[g] = SNone /\ sTok[g] = {}

SBindInv ==
  /\ SShapes
  /\ \A s \in SSids : SLoginSound(s) /\ SVictimsSound(s)
  /\ \A w \in SSwitches : SSwitchSound(w)

(* created_at orders the live rows.                                         *)
SLiveRows == {s \in SSids : SLive(s)}
SOrdered ==
  /\ sOlder \subseteq SLiveRows \X SLiveRows
  /\ \A s \in SLiveRows : <<s, s>> \notin sOlder
  /\ \A s, t \in SLiveRows : s # t => <<s, t>> \in sOlder \/ <<t, s>> \in sOlder
  /\ \A s, t, u \in SLiveRows : <<s, t>> \in sOlder /\ <<t, u>> \in sOlder => <<s, u>> \in sOlder

(* Row locks: held by one statement each, of live rows of its account.      *)
SLocksSound ==
  \A s \in SSids :
    /\ sHeld[s] # {} => sLog[s] = "commit"
    /\ sHeld[s] \subseteq SLiveOf(sOwner[s]) \ {s}
    /\ \A t \in SSids \ {s} : sHeld[s] \cap sHeld[t] = {}

STableInv ==
  /\ SOrdered /\ SLocksSound
  /\ IsFiniteSet(SLiveRows) /\ IsFiniteSet(sSkipped)
  /\ \A s \in SLiveRows \ sMoved : sRow[s].acct = sOwner[s]

(* The sessions under an account's cap, the settled ones among them, whose  *)
(* login has evicted or skipped, and the evictions under way.               *)
SCapped(a) == SLiveOf(a) \ sMoved
SPending(s) == sLog[s] = "claim" \/ (sLog[s] = "commit" /\ s \notin sSkipped)
SSettled(a) == {s \in SCapped(a) : ~SPending(s)}
SEvicting(a) == {s \in SSids : sLog[s] = "commit" /\ s \notin sSkipped /\ sOwner[s] = a}
SSkipsOf(a) == {s \in sSkipped : sOwner[s] = a}

(* An eviction under way leaves room: it holds all settled sessions but the *)
(* skipped ones, or there was none to hold and its own still fits.          *)
SRoom(a, s) ==
  IF sHeld[s] = {}
  THEN Cardinality(SSettled(a) \cup ({s} \cap SCapped(a))) <= SLimit + Cardinality(SSkipsOf(a))
  ELSE Cardinality(SSettled(a) \ sHeld[s]) <= Cardinality(SSkipsOf(a))

(* Of two evictions under way the later one holds the earlier one's session.*)
SAware(a, s, t) ==
  s \in SCapped(a) =>
    /\ s \in sHeld[t] \/ sHeld[t] = {}
    /\ t \in SCapped(a) => s \in sHeld[t] \/ t \in sHeld[s]

SCapInv(a) ==
  /\ Cardinality(SSettled(a)) <= SLimit + Cardinality(SSkipsOf(a))
  /\ \A s \in SEvicting(a) : SRoom(a, s)
  /\ \A s, t \in SEvicting(a) : s # t => SAware(a, s, t)

SInv == /\ SBindInv /\ STableInv
        /\ SLimit > 0 => \A a \in SAccounts : SCapInv(a)

(* Counting.                                                                *)
LEMMA SSubsetBound ==
  ASSUME NEW A, NEW B, IsFiniteSet(A), B \subseteq A
  PROVE  /\ IsFiniteSet(B) /\ Cardinality(B) <= Cardinality(A)
         /\ Cardinality(A) \in Nat /\ Cardinality(B) \in Nat
<1>1. B \in SUBSET A
  OBVIOUS
<1>2. IsFiniteSet(B) /\ Cardinality(B) <= Cardinality(A)
  BY <1>1, FS_Subset
<1> QED
  BY <1>2, FS_CardinalityType

LEMMA SUnionBound ==
  ASSUME NEW A, NEW B, NEW C, IsFiniteSet(A), IsFiniteSet(B), C \subseteq A \cup B
  PROVE  /\ IsFiniteSet(C) /\ Cardinality(C) <= Cardinality(A) + Cardinality(B)
         /\ Cardinality(A) \in Nat /\ Cardinality(B) \in Nat /\ Cardinality(C) \in Nat
<1>1. IsFiniteSet(A \cup B)
      /\ Cardinality(A \cup B) = Cardinality(A) + Cardinality(B) - Cardinality(A \cap B)
  BY FS_Union
<1>2. IsFiniteSet(A \cap B)
  BY FS_Intersection
<1>3. Cardinality(A) \in Nat /\ Cardinality(B) \in Nat /\ Cardinality(A \cap B) \in Nat
  BY <1>2, FS_CardinalityType
<1>4. IsFiniteSet(C) /\ Cardinality(C) <= Cardinality(A \cup B) /\ Cardinality(C) \in Nat
  BY <1>1, SSubsetBound
<1> QED
  BY <1>1, <1>3, <1>4

LEMMA SOneMoreBound ==
  ASSUME NEW A, NEW B, NEW x, IsFiniteSet(A), B \subseteq A \cup {x}
  PROVE  /\ IsFiniteSet(B) /\ Cardinality(B) <= Cardinality(A) + 1
         /\ Cardinality(A) \in Nat /\ Cardinality(B) \in Nat
<1>1. IsFiniteSet({x}) /\ Cardinality({x}) = 1
  BY FS_Singleton
<1> QED
  BY <1>1, SUnionBound

(* Of a set of live rows, the eviction keeps no more than the limit allows: *)
(* how many newer rows a kept one has tells it from the others.             *)
LEMMA SSurplusBound ==
  ASSUME SOrdered, SLimit > 0, NEW H, H \subseteq SLiveRows, IsFiniteSet(H)
  PROVE  /\ SSurplus(H) \subseteq H
         /\ IsFiniteSet(H \ SSurplus(H))
         /\ Cardinality(H \ SSurplus(H)) <= SLimit - 1
<1> DEFINE newer(s) == {t \in H : <<s, t>> \in sOlder}
           kept == H \ SSurplus(H)
           rank == [s \in kept |-> Cardinality(newer(s))]
<1>0. SLimit \in Nat /\ SLimit - 1 \in Nat /\ SLimit - 2 \in Int
  BY SConstantsAssumption
<1>1. SSurplus(H) = {s \in H : Cardinality(newer(s)) >= SLimit - 1}
  BY DEF SSurplus
<1>2. \A s \in H : IsFiniteSet(newer(s)) /\ Cardinality(newer(s)) \in Nat
  <2> TAKE s \in H
  <2>1. newer(s) \in SUBSET H
    OBVIOUS
  <2> HIDE DEF newer
  <2> QED
    BY <2>1, FS_Subset, FS_CardinalityType
<1>3. \A s, u \in H : <<s, u>> \in sOlder => Cardinality(newer(s)) # Cardinality(newer(u))
  <2> SUFFICES ASSUME NEW s \in H, NEW u \in H, <<s, u>> \in sOlder
               PROVE  Cardinality(newer(s)) # Cardinality(newer(u))
    OBVIOUS
  <2>1. newer(u) \in SUBSET newer(s)
    BY DEF SOrdered
  <2>2. u \in newer(s) /\ u \notin newer(u)
    BY DEF SOrdered
  <2>3. IsFiniteSet(newer(s))
    BY <1>2
  <2> HIDE DEF newer
  <2> QED
    BY <2>1, <2>2, <2>3, FS_Subset
<1>4. \A s, u \in kept : s # u => rank[s] # rank[u]
  <2>1. \A s, u \in kept : s # u => <<s, u>> \in sOlder \/ <<u, s>> \in sOlder
    BY DEF SOrdered
  <2>2. \A s \in kept : rank[s] = Cardinality(newer(s))
    OBVIOUS
  <2> HIDE DEF rank, newer
  <2> QED
    BY <1>3, <2>1, <2>2
<1>5. rank \in [kept -> 0 .. SLimit - 2]
  <2> SUFFICES ASSUME NEW s \in kept PROVE Cardinality(newer(s)) \in 0 .. SLimit - 2
    OBVIOUS
  <2>1. s \in H /\ ~(Cardinality(newer(s)) >= SLimit - 1)
    BY <1>1
  <2>2. Cardinality(newer(s)) \in Nat
    BY <1>2, <2>1
  <2> HIDE DEF newer
  <2> QED
    BY <1>0, <2>1, <2>2
<1>6. IsFiniteSet(0 .. SLimit - 2) /\ Cardinality(0 .. SLimit - 2) = SLimit - 1
  <2>1. IsFiniteSet(0 .. SLimit - 2)
        /\ Cardinality(0 .. SLimit - 2) = IF 0 > SLimit - 2 THEN 0 ELSE SLimit - 2 - 0 + 1
    BY <1>0, FS_Interval
  <2> QED
    BY <1>0, <2>1
<1> HIDE DEF rank, newer
<1>7. rank \in Injection(kept, 0 .. SLimit - 2)
  BY <1>4, <1>5 DEF Injection, IsInjective
<1> QED
  BY <1>1, <1>6, <1>7, FS_Injection

(* What a step may leave of the cap: fewer settled sessions, as many skips, *)
(* and no new eviction.                                                     *)
LEMMA SCapKeeps ==
  ASSUME NEW a \in SAccounts, SCapInv(a), IsFiniteSet(SLiveRows), IsFiniteSet(sSkipped),
         SSettled(a)' \subseteq SSettled(a), SSkipsOf(a)' = SSkipsOf(a),
         SEvicting(a)' \subseteq SEvicting(a),
         \A s \in SEvicting(a)' :
           sHeld'[s] = sHeld[s] /\ (s \in SCapped(a)' => s \in SCapped(a))
  PROVE  SCapInv(a)'
<1> DEFINE K == Cardinality(SSkipsOf(a))
<1>1. /\ IsFiniteSet(SSettled(a)) /\ IsFiniteSet(SSettled(a)')
      /\ Cardinality(SSettled(a)') <= Cardinality(SSettled(a))
      /\ Cardinality(SSettled(a)) \in Nat /\ Cardinality(SSettled(a)') \in Nat /\ K \in Nat
  <2>1. SSettled(a) \in SUBSET SLiveRows /\ SSkipsOf(a) \in SUBSET sSkipped
    BY DEF SSettled, SCapped, SLiveOf, SLiveRows, SSkipsOf
  <2>2. IsFiniteSet(SSettled(a)) /\ IsFiniteSet(SSkipsOf(a))
    BY <2>1, FS_Subset
  <2> QED
    BY <2>2, FS_Subset, FS_CardinalityType
<1>2. Cardinality(SSettled(a)') <= SLimit + Cardinality(SSkipsOf(a)')
  BY <1>1, SConstantsAssumption DEF SCapInv
<1>3. ASSUME NEW s \in SEvicting(a)' PROVE SRoom(a, s)'
  <2>1. SRoom(a, s) /\ sHeld'[s] = sHeld[s] /\ s \in SEvicting(a)
    BY <1>3 DEF SCapInv
  <2>2. CASE sHeld[s] = {}
    <3> DEFINE A == SSettled(a) \cup ({s} \cap SCapped(a))
               B == SSettled(a)' \cup ({s} \cap SCapped(a)')
    <3>1. B \in SUBSET A
      BY <1>3
    <3>2. IsFiniteSet(A)
      BY <1>1, FS_Union, FS_Singleton, FS_Intersection
    <3>3. Cardinality(B) <= Cardinality(A) /\ Cardinality(A) \in Nat /\ Cardinality(B) \in Nat
      BY <3>1, <3>2, FS_Subset, FS_CardinalityType
    <3>4. Cardinality(A) <= SLimit + K
      BY <2>1, <2>2 DEF SRoom
    <3> HIDE DEF A
    <3>5. Cardinality(B) <= SLimit + K
      BY <1>1, <3>3, <3>4, SConstantsAssumption
    <3> QED
      BY <2>1, <2>2, <3>5 DEF SRoom
  <2>3. CASE sHeld[s] # {}
    <3> DEFINE A == SSettled(a) \ sHeld[s]
               B == SSettled(a)' \ sHeld[s]
    <3>1. B \in SUBSET A /\ A \in SUBSET SSettled(a)
      OBVIOUS
    <3>2. IsFiniteSet(A)
      BY <1>1, <3>1, FS_Subset
    <3>3. Cardinality(B) <= Cardinality(A) /\ Cardinality(A) \in Nat /\ Cardinality(B) \in Nat
      BY <3>1, <3>2, FS_Subset, FS_CardinalityType
    <3>4. Cardinality(A) <= K
      BY <2>1, <2>3 DEF SRoom
    <3> HIDE DEF A
    <3>5. Cardinality(B) <= K
      BY <1>1, <3>3, <3>4
    <3> QED
      BY <2>1, <2>3, <3>5 DEF SRoom
  <2> QED
    BY <2>2, <2>3
<1>4. ASSUME NEW s \in SEvicting(a)', NEW t \in SEvicting(a)', s # t PROVE SAware(a, s, t)'
  <2>1. SAware(a, s, t)
    BY <1>4 DEF SCapInv
  <2> QED
    BY <1>4, <2>1 DEF SAware
<1> QED
  BY <1>2, <1>3, <1>4 DEF SCapInv

(* What no step takes back: a grant that was issued stays so, for the       *)
(* account it was saved for.                                                *)
SGrowth == \A g \in SGrants : SIssued(g) => SIssued(g)' /\ sOwner'[g] = sOwner[g]

SRowsBound == \A s \in SSids : SBound(sRow[s]) /\ SBound(sCopy[s])

(* Rows that a step takes from where they were are bound as before.         *)
LEMMA SRowsStayBound ==
  ASSUME SShapes, SRowsBound, SGrowth,
         \A s \in SSids : /\ sRow'[s] \in {SNoRow, sRow[s], sCopy[s]}
                          /\ sCopy'[s] \in {SNoRow, sRow[s], sCopy[s]}
  PROVE  SRowsBound'
<1> SUFFICES ASSUME NEW s \in SSids PROVE SBound(sRow[s])' /\ SBound(sCopy[s])'
  BY DEF SRowsBound
<1>1. sRow[s] \in SSessionRow \cup {SNoRow} /\ sCopy[s] \in SSessionRow \cup {SNoRow}
  BY DEF SShapes, STypeOK
<1>2. SBound(sRow[s]) /\ SBound(sCopy[s])
  BY DEF SRowsBound
<1>3. \A row \in {SNoRow, sRow[s], sCopy[s]} :
        row # SNoRow => SIssued(row.grant)' /\ sOwner'[row.grant] = row.acct
  BY <1>1, <1>2 DEF SBound, SGrowth, SSessionRow
<1> QED
  BY <1>3 DEF SBound

(* The statements on the table, and their types.                            *)
LEMMA SDeleteType ==
  ASSUME STypeOK, NEW sids, NEW grants, SDelete(sids, grants)
  PROVE  /\ sRow' \in [SSids -> SSessionRow \cup {SNoRow}]
         /\ sOlder' \subseteq SSids \X SSids
         /\ sGrant' \in [SGrants -> SAccounts \cup {SNone}]
         /\ sTok' \in [SGrants -> SUBSET STokenKinds]
         /\ \A s \in SSids : sRow'[s] = IF s \in sids THEN SNoRow ELSE sRow[s]
         /\ \A g \in SGrants : /\ sGrant[g] = SNone => sGrant'[g] = SNone
                               /\ sTok'[g] \subseteq sTok[g]
                               /\ g \in grants => sGrant'[g] = SNone /\ sTok'[g] = {}
BY DEF STypeOK, SDelete

LEMMA SWriteType ==
  ASSUME STypeOK, NEW s \in SSids, NEW row \in SSessionRow, SWriteSession(s, row)
  PROVE  /\ sRow' \in [SSids -> SSessionRow \cup {SNoRow}]
         /\ sOlder' \subseteq SSids \X SSids
         /\ sRow'[s] = row
         /\ \A t \in SSids : t # s => sRow'[t] = sRow[t]
BY DEF STypeOK, SWriteSession

LEMMA SNoRowFacts == SNoRow \notin SSessionRow
BY SConstantsAssumption DEF SNoRow, SSessionRow

(* What logins, victims and switches ask of a step that leaves where logins *)
(* are, what they claimed and what switches know.                           *)
LEMMA SBindLogin ==
  ASSUME SBindInv, NEW s \in SSids, NEW a \in SAccounts, SLogin(s, a)
  PROVE  SBindInv'
<1> DEFINE row == [acct |-> a, grant |-> s]
<1>1. STypeOK /\ sSw \in [SSwitches -> SSwitchRecord] /\ SLoginSound(s) /\ sLog[s] = "out"
  BY DEF SBindInv, SShapes, SLogin
<1>2. s \in SGrants /\ row \in SSessionRow
  BY DEF SGrants, SSessionRow
<1>3. /\ sRow' \in [SSids -> SSessionRow \cup {SNoRow}] /\ sOlder' \subseteq SSids \X SSids
      /\ sRow'[s] = row /\ \A t \in SSids : t # s => sRow'[t] = sRow[t]
  BY <1>1, <1>2, SWriteType DEF SLogin
<1>4. SShapes'
  BY <1>1, <1>2, <1>3 DEF SLogin, SShapes, STypeOK, sClaims
<1>5. SGrowth
  BY <1>1, SConstantsAssumption DEF SGrowth, SIssued, SLogin, STypeOK, SGrants
<1>6. SIssued(s)' /\ sOwner'[s] = a /\ sLog'[s] # "out"
  BY <1>1, <1>2 DEF SIssued, SLogin, STypeOK
<1>7. SRowsBound'
  <2> SUFFICES ASSUME NEW t \in SSids PROVE SBound(sRow[t])' /\ SBound(sCopy[t])'
    BY DEF SRowsBound
  <2>1. SBound(sRow[t]) /\ SBound(sCopy[t]) /\ SBound(sCopy[t]) /\ sCopy'[t] = sCopy[t]
    BY DEF SBindInv, SLoginSound, SLogin
  <2>2. /\ sRow[t] \in SSessionRow \cup {SNoRow} /\ sCopy[t] \in SSessionRow \cup {SNoRow}
    BY <1>1 DEF STypeOK
  <2>3. SBound(sCopy[t])'
    BY <2>1, <2>2, <1>5 DEF SBound, SGrowth, SSessionRow
  <2>4. SBound(sRow[t])'
    <3>1. CASE t = s
      BY <3>1, <1>3, <1>6 DEF SBound
    <3>2. CASE t # s
      BY <3>2, <1>3, <2>1, <2>2, <1>5 DEF SBound, SGrowth, SSessionRow
    <3> QED
      BY <3>1, <3>2
  <2> QED
    BY <2>3, <2>4
<1>8. \A t \in SSids : SLoginSound(t)'
  <2> TAKE t \in SSids
  <2>1. SLoginSound(t)
    BY DEF SBindInv
  <2>2. sCopy' = sCopy /\ sSkipped' = sSkipped
    BY DEF SLogin, sClaims
  <2>3. CASE t = s
    BY <1>1, <1>6, <1>7, <2>2, <2>3, SConstantsAssumption DEF SLoginSound, SRowsBound, SLogin, STypeOK
  <2>4. CASE t # s
    BY <1>1, <1>3, <1>7, <2>1, <2>2, <2>4 DEF SLoginSound, SRowsBound, SLogin, STypeOK
  <2> QED
    BY <2>3, <2>4
<1>9. \A t \in SSids : SVictimsSound(t)'
  <2> TAKE t \in SSids
  <2>1. SVictimsSound(t) /\ sVictims[t] \subseteq SGrants /\ sVictims' = sVictims
    BY <1>1 DEF SBindInv, SLogin, sClaims, STypeOK
  <2>2. ~SIssued(s)
    BY <1>1, SConstantsAssumption DEF SIssued
  <2>3. \A g \in sVictims[t] : g # s /\ SIssued(g)'
    BY <2>1, <2>2, <1>5 DEF SVictimsSound, SGrowth
  <2>4. \A g \in sVictims[t] : sGrant'[g] = sGrant[g] /\ sTok'[g] = sTok[g]
    BY <2>1, <2>3, <1>1 DEF SLogin, STypeOK
  <2>5. CASE t = s
    <3>1. sVictims'[t] = {}
      BY <1>1, <2>1, <2>5 DEF SVictimsSound
    <3> QED
      BY <3>1 DEF SVictimsSound
  <2>6. CASE t # s
    <3>1. sLog'[t] = sLog[t]
      BY <1>1, <2>6 DEF SLogin, STypeOK
    <3> QED
      BY <2>1, <2>3, <2>4, <3>1 DEF SVictimsSound
  <2> QED
    BY <2>5, <2>6
<1>10. \A w \in SSwitches : SSwitchSound(w)'
  <2> TAKE w \in SSwitches
  <2>1. SSwitchSound(w) /\ sSw' = sSw /\ w \in SGrants /\ w # s /\ sSw[w].todo \subseteq SSids
    BY <1>1, SConstantsAssumption DEF SBindInv, SLogin, SGrants, STypeOK
  <2>2. sOwner'[w] = sOwner[w] /\ \A t \in SSids : sLog[t] # "out" => sLog'[t] # "out"
    BY <1>1, <1>6, <2>1 DEF SLogin, STypeOK
  <2> QED
    BY <2>1, <2>2 DEF SSwitchSound
<1> QED
  BY <1>4, <1>8, <1>9, <1>10 DEF SBindInv

(* The steps of the session limit and of the provider, and the deletions:   *)
(* a login that began goes on; no switch and no owner changes.              *)
SLogForward == \A s \in SSids : sLog[s] = "out" <=> sLog'[s] = "out"

LEMMA SBindDelete ==
  ASSUME SBindInv, SShapes', UNCHANGED <<sOwner, sSw>>, SLogForward,
         \A s \in SSids :
           /\ sRow'[s] \in {SNoRow, sRow[s], sCopy[s]} /\ sCopy'[s] \in {SNoRow, sRow[s], sCopy[s]}
           /\ sLog'[s] \in {"out", "claim"} => s \notin sSkipped'
           /\ sLog'[s] \in {"claim", "commit"} => sLog[s] \in {"claim", "commit"}
           /\ SVictimsSound(s)'
  PROVE  SBindInv'
<1>1. SGrowth
  BY DEF SGrowth, SIssued, SLogForward
<1>2. SRowsBound'
  <2>1. SRowsBound
    BY DEF SRowsBound, SBindInv, SLoginSound
  <2> QED
    BY <1>1, <2>1, SRowsStayBound DEF SBindInv
<1>3. \A s \in SSids : SLoginSound(s)'
  <2> TAKE s \in SSids
  <2>1. SLoginSound(s)
    BY DEF SBindInv
  <2> QED
    BY <1>2, <2>1 DEF SLoginSound, SRowsBound, SLogForward
<1>4. \A w \in SSwitches : SSwitchSound(w)'
  <2> TAKE w \in SSwitches
  <2>1. SSwitchSound(w) /\ sSw[w].todo \subseteq SSids
    BY DEF SBindInv, SShapes, STypeOK
  <2> QED
    BY <2>1 DEF SSwitchSound, SLogForward
<1> QED
  BY <1>3, <1>4 DEF SBindInv

LEMMA SBindEnforce ==
  ASSUME SBindInv, SLocksSound, NEW s \in SSids,
         SEnforceClaim(s) \/ SEnforceCommit(s) \/ SEnforceClear(s)
  PROVE  SBindInv'
<1>1. STypeOK /\ sSw \in [SSwitches -> SSwitchRecord]
  BY DEF SBindInv, SShapes
<1>2. \A t \in SSids : SLoginSound(t) /\ SVictimsSound(t)
  BY DEF SBindInv
<1>3. CASE SEnforceClaim(s)
  <2>1. /\ sLog[s] = "claim" /\ sLog' = [sLog EXCEPT ![s] = "commit"]
        /\ UNCHANGED <<sRow, sOlder, sGrant, sTok, sOwner, sVictims, sSw, sCopy, sMoved, sRevoked>>
    BY <1>3 DEF SEnforceClaim, sStore
  <2>2. sHeld' \in [SSids -> SUBSET SSids] /\ sSkipped' \subseteq SSids /\ sSkipped' \subseteq sSkipped \cup {s}
    BY <1>1, <1>3 DEF SEnforceClaim, SCandidates, SLiveOf, STypeOK
  <2>3. SShapes'
    BY <1>1, <2>1, <2>2 DEF SShapes, STypeOK
  <2>4. \A t \in SSids : sLog'[t] = IF t = s THEN "commit" ELSE sLog[t]
    BY <1>1, <2>1 DEF STypeOK
  <2>5. \A t \in SSids : SVictimsSound(t)'
    <3> TAKE t \in SSids
    <3>1. \A g \in SGrants : SIssued(g) => SIssued(g)'
      BY <2>1, <2>4 DEF SIssued
    <3> QED
      BY <1>1, <1>2, <2>1, <2>4, <3>1 DEF SVictimsSound, STypeOK
  <2>6. \A t \in SSids : sLog'[t] \in {"out", "claim"} => t \notin sSkipped'
    BY <1>2, <2>2, <2>4 DEF SLoginSound
  <2> QED
    BY <2>1, <2>3, <2>4, <2>5, <2>6, SBindDelete DEF SLogForward
<1>4. CASE SEnforceCommit(s)
  <2> DEFINE gone == SSurplus(sHeld[s])
  <2>1. /\ sLog[s] = "commit" /\ SDelete(gone, {})
        /\ sHeld' = [sHeld EXCEPT ![s] = {}]
        /\ sVictims' = [sVictims EXCEPT ![s] = {sRow[t].grant : t \in gone}]
        /\ sLog' = [sLog EXCEPT ![s] = IF gone = {} THEN "in" ELSE "clear"]
        /\ UNCHANGED <<sOwner, sSkipped, sSw, sCopy, sMoved, sRevoked>>
    BY <1>4 DEF SEnforceCommit
  <2>2. gone \subseteq sHeld[s] /\ sHeld[s] \subseteq SSids
    BY <1>1 DEF SSurplus, STypeOK
  <2>3. \A t \in gone : SLive(t)
    BY <2>2 DEF SLocksSound, SLiveOf
  <2> HIDE DEF gone
  <2>4. /\ sRow' \in [SSids -> SSessionRow \cup {SNoRow}] /\ sOlder' \subseteq SSids \X SSids
        /\ sGrant' \in [SGrants -> SAccounts \cup {SNone}] /\ sTok' \in [SGrants -> SUBSET STokenKinds]
        /\ \A t \in SSids : sRow'[t] = IF t \in gone THEN SNoRow ELSE sRow[t]
        /\ \A g \in SGrants : (sGrant[g] = SNone => sGrant'[g] = SNone) /\ sTok'[g] \subseteq sTok[g]
    BY <1>1, <2>1, SDeleteType
  <2>5. \A t \in gone : sRow[t].grant \in SGrants /\ SIssued(sRow[t].grant)
    BY <1>1, <1>2, <2>2, <2>3 DEF STypeOK, SSessionRow, SLoginSound, SBound, SLive
  <2>6. SShapes'
    <3>1. sVictims' \in [SSids -> SUBSET SGrants]
      <4>1. {sRow[t].grant : t \in gone} \subseteq SGrants
        BY <2>5
      <4> QED
        BY <1>1, <2>1, <4>1 DEF STypeOK
    <3> QED
      BY <1>1, <2>1, <2>4, <3>1 DEF SShapes, STypeOK
  <2>7. \A t \in SSids : sLog'[t] = IF t = s THEN IF gone = {} THEN "in" ELSE "clear" ELSE sLog[t]
    BY <1>1, <2>1 DEF STypeOK
  <2>8. \A g \in SGrants : SIssued(g) => SIssued(g)'
    BY <2>1, <2>7 DEF SIssued
  <2>9. \A t \in SSids : SVictimsSound(t)'
    <3> TAKE t \in SSids
    <3>1. CASE t = s
      <4>1. sVictims'[t] = {sRow[u].grant : u \in gone}
        BY <1>1, <2>1, <3>1 DEF STypeOK
      <4> QED
        BY <2>5, <2>7, <2>8, <3>1, <4>1 DEF SVictimsSound
    <3>2. CASE t # s
      <4>1. sVictims'[t] = sVictims[t] /\ sVictims[t] \subseteq SGrants /\ SVictimsSound(t)
        BY <1>1, <1>2, <2>1, <3>2 DEF STypeOK
      <4> QED
        BY <2>4, <2>7, <2>8, <3>2, <4>1 DEF SVictimsSound
    <3> QED
      BY <3>1, <3>2
  <2>10. \A t \in SSids : sLog'[t] \in {"out", "claim"} => t \notin sSkipped'
    BY <1>2, <2>1, <2>7 DEF SLoginSound
  <2> QED
    BY <2>1, <2>4, <2>6, <2>7, <2>9, <2>10, SBindDelete DEF SLogForward
<1>5. CASE SEnforceClear(s)
  <2>1. /\ sLog[s] = "clear" /\ SDelete({}, sVictims[s]) /\ sLog' = [sLog EXCEPT ![s] = "in"]
        /\ UNCHANGED <<sOwner, sHeld, sVictims, sSkipped, sSw, sCopy, sMoved, sRevoked>>
    BY <1>5 DEF SEnforceClear, sClaims
  <2>2. /\ sRow' \in [SSids -> SSessionRow \cup {SNoRow}] /\ sOlder' \subseteq SSids \X SSids
        /\ sGrant' \in [SGrants -> SAccounts \cup {SNone}] /\ sTok' \in [SGrants -> SUBSET STokenKinds]
        /\ \A t \in SSids : sRow'[t] = sRow[t]
        /\ \A g \in SGrants : /\ sGrant[g] = SNone => sGrant'[g] = SNone
                              /\ sTok'[g] \subseteq sTok[g]
                              /\ g \in sVictims[s] => sGrant'[g] = SNone /\ sTok'[g] = {}
    BY <1>1, <2>1, SDeleteType
  <2>3. SShapes'
    BY <1>1, <2>1, <2>2 DEF SShapes, STypeOK
  <2>4. \A t \in SSids : sLog'[t] = IF t = s THEN "in" ELSE sLog[t]
    BY <1>1, <2>1 DEF STypeOK
  <2>5. \A g \in SGrants : SIssued(g) => SIssued(g)'
    BY <2>1, <2>4 DEF SIssued
  <2>6. \A t \in SSids : SVictimsSound(t)'
    <3> TAKE t \in SSids
    <3>1. sVictims[t] \subseteq SGrants
      BY <1>1 DEF STypeOK
    <3> QED
      BY <1>2, <2>1, <2>2, <2>4, <2>5, <3>1 DEF SVictimsSound
  <2>7. \A t \in SSids : sLog'[t] \in {"out", "claim"} => t \notin sSkipped'
    BY <1>2, <2>1, <2>4 DEF SLoginSound
  <2> QED
    BY <2>1, <2>2, <2>3, <2>4, <2>6, <2>7, SBindDelete DEF SLogForward
<1> QED
  BY <1>3, <1>4, <1>5

LEMMA SBindProvider ==
  ASSUME SBindInv,
         \/ \E s \in SSids : SProviderLoad(s) \/ SProviderSave(s) \/ SRemoveSession(s)
         \/ \E a \in SAccounts : SRevokeSessions(a)
         \/ UNCHANGED sVars
  PROVE  SBindInv'
<1>1. STypeOK /\ sSw \in [SSwitches -> SSwitchRecord]
  BY DEF SBindInv, SShapes
<1>2. \A t \in SSids : SLoginSound(t) /\ SVictimsSound(t)
  BY DEF SBindInv
<1>3. /\ UNCHANGED <<sOwner, sLog, sHeld, sVictims, sSkipped, sSw>>
      /\ sMoved' \subseteq SSids /\ sRevoked' \subseteq SSids
      /\ sRow' \in [SSids -> SSessionRow \cup {SNoRow}] /\ sOlder' \subseteq SSids \X SSids
      /\ sGrant' \in [SGrants -> SAccounts \cup {SNone}] /\ sTok' \in [SGrants -> SUBSET STokenKinds]
      /\ sCopy' \in [SSids -> SSessionRow \cup {SNoRow}]
      /\ \A t \in SSids : /\ sRow'[t] \in {SNoRow, sRow[t], sCopy[t]}
                          /\ sCopy'[t] \in {SNoRow, sRow[t], sCopy[t]}
      /\ \A g \in SGrants : (sGrant[g] = SNone => sGrant'[g] = SNone) /\ sTok'[g] \subseteq sTok[g]
  <2>1. ASSUME NEW s \in SSids, SProviderLoad(s) PROVE <1>3!:
    BY <1>1, <2>1 DEF SProviderLoad, STypeOK, sStore, sClaims
  <2>2. ASSUME NEW s \in SSids, SProviderSave(s) PROVE <1>3!:
    <3>1. sCopy[s] \in SSessionRow
      BY <1>1, <2>2 DEF SProviderSave, STypeOK
    <3>2. /\ sRow' \in [SSids -> SSessionRow \cup {SNoRow}] /\ sOlder' \subseteq SSids \X SSids
          /\ sRow'[s] = sCopy[s] /\ \A t \in SSids : t # s => sRow'[t] = sRow[t]
      BY <1>1, <2>2, <3>1, SWriteType DEF SProviderSave
    <3> QED
      BY <1>1, <2>2, <3>2 DEF SProviderSave, STypeOK, sClaims
  <2>3. ASSUME NEW s \in SSids, SRemoveSession(s) PROVE <1>3!:
    BY <1>1, <2>3, SDeleteType DEF SRemoveSession, STypeOK, sClaims
  <2>4. ASSUME NEW a \in SAccounts, SRevokeSessions(a) PROVE <1>3!:
    BY <1>1, <2>4, SDeleteType DEF SRevokeSessions, SDeleteAllForAccount, STypeOK, sClaims, SLiveOf
  <2>5. CASE UNCHANGED sVars
    BY <1>1, <2>5 DEF sVars, STypeOK
  <2> QED
    BY <2>1, <2>2, <2>3, <2>4, <2>5
<1>4. SShapes'
  BY <1>1, <1>3 DEF SShapes, STypeOK
<1>5. \A t \in SSids : SVictimsSound(t)'
  <2> TAKE t \in SSids
  <2>1. sVictims[t] \subseteq SGrants /\ \A g \in SGrants : SIssued(g) => SIssued(g)'
    BY <1>1, <1>3 DEF STypeOK, SIssued
  <2> QED
    BY <1>2, <1>3, <2>1 DEF SVictimsSound
<1>6. \A t \in SSids : sLog'[t] \in {"out", "claim"} => t \notin sSkipped'
  BY <1>2, <1>3 DEF SLoginSound
<1> QED
  BY <1>3, <1>4, <1>5, <1>6, SBindDelete DEF SLogForward

(* The steps of a switch.                                                   *)
LEMMA SBindSwitch ==
  ASSUME SBindInv, SShapes', UNCHANGED <<sLog, sHeld, sVictims, sSkipped, sCopy>>,
         NEW w \in SSwitches, sSw[w].pc # "done",
         \A v \in SSwitches : v # w => sSw'[v] = sSw[v],
         \A g \in SGrants : g # w => sOwner'[g] = sOwner[g],
         SIssued(w) => SIssued(w)' /\ sOwner'[w] = sOwner[w],
         \A g \in SGrants : SIssued(g) =>
           (sGrant[g] = SNone => sGrant'[g] = SNone) /\ sTok'[g] \subseteq sTok[g],
         SSwitchSound(w)',
         \A s \in SSids : \/ sRow'[s] \in {SNoRow, sRow[s]}
                          \/ /\ sLog[s] # "out" /\ sRow'[s] = SRebound(w)
                             /\ SIssued(w)' /\ sOwner'[w] = sSw[w].to
  PROVE  SBindInv'
<1>1. STypeOK /\ w \in SGrants
  BY DEF SBindInv, SShapes, SGrants
<1>2. \A t \in SSids : SLoginSound(t) /\ SVictimsSound(t) /\ t \in SGrants /\ t # w
  BY SConstantsAssumption DEF SBindInv, SGrants
<1>3. SGrowth
  <2> SUFFICES ASSUME NEW g \in SGrants, SIssued(g) PROVE SIssued(g)' /\ sOwner'[g] = sOwner[g]
    BY DEF SGrowth
  <2> QED
    BY DEF SIssued
<1>4. \A s \in SSids : SLoginSound(s)'
  <2> TAKE s \in SSids
  <2>1. SLoginSound(s) /\ sRow[s] \in SSessionRow \cup {SNoRow} /\ sCopy[s] \in SSessionRow \cup {SNoRow}
    BY <1>1, <1>2 DEF STypeOK
  <2>2. SBound(sCopy[s])'
    BY <2>1, <1>3 DEF SLoginSound, SBound, SGrowth, SSessionRow
  <2>3. SBound(sRow[s])'
    <3>1. CASE sRow'[s] \in {SNoRow, sRow[s]}
      BY <2>1, <3>1, <1>3 DEF SLoginSound, SBound, SGrowth, SSessionRow
    <3>2. CASE sRow'[s] = SRebound(w) /\ SIssued(w)' /\ sOwner'[w] = sSw[w].to
      BY <3>2 DEF SBound, SRebound
    <3> QED
      BY <3>1, <3>2
  <2> QED
    BY <1>2, <2>1, <2>2, <2>3 DEF SLoginSound
<1>5. \A s \in SSids : SVictimsSound(s)'
  <2> TAKE s \in SSids
  <2>1. sVictims[s] \subseteq SGrants /\ SVictimsSound(s)
    BY <1>1, <1>2 DEF STypeOK
  <2> QED
    BY <2>1, <1>3 DEF SVictimsSound, SGrowth
<1>6. \A v \in SSwitches : SSwitchSound(v)'
  <2> TAKE v \in SSwitches
  <2>1. SSwitchSound(v) /\ v \in SGrants
    BY DEF SBindInv, SGrants
  <2> QED
    BY <2>1 DEF SSwitchSound
<1> QED
  BY <1>4, <1>5, <1>6 DEF SBindInv

LEMMA SBindSwitchNext ==
  ASSUME SBindInv, NEW w \in SSwitches,
         SSwitchStep(w) \/ \E g \in SGrants, to \in SAccounts : SSwitchBegin(w, g, to)
  PROVE  SBindInv'
<1>1. /\ STypeOK /\ sSw \in [SSwitches -> SSwitchRecord] /\ sSw[w] \in SSwitchRecord
      /\ SSwitchSound(w) /\ w \in SGrants
  BY DEF SBindInv, SShapes, SGrants
<1>2. UNCHANGED <<sLog, sHeld, sVictims, sSkipped, sCopy, sRevoked>>
  BY DEF SSwitchStep, SSwitchBegin, SIssueGrant, SIssueToken, SRevokeGrant, SRevokeTokens, SRebindLoad,
     SRebindSave, SSwitchSweep, SSwitchRest, sClaims
<1>3. \A sw : SSwitchTo(w, sw) => sSw'[w] = sw /\ \A v \in SSwitches : v # w => sSw'[v] = sSw[v]
  BY <1>1 DEF SSwitchTo
<1>4. \A sw \in SSwitchRecord : SSwitchTo(w, sw) => sSw' \in [SSwitches -> SSwitchRecord]
  BY <1>1 DEF SSwitchTo
<1>5. \A pc \in SSwitchPCs : SSwitchAt(w, pc) =>
        /\ sSw' \in [SSwitches -> SSwitchRecord] /\ sSw'[w].pc = pc
        /\ sSw'[w].from = sSw[w].from /\ sSw'[w].to = sSw[w].to
        /\ sSw'[w].prev = sSw[w].prev /\ sSw'[w].todo = sSw[w].todo
        /\ \A v \in SSwitches : v # w => sSw'[v] = sSw[v]
  <2> TAKE pc \in SSwitchPCs
  <2>1. [sSw[w] EXCEPT !.pc = pc] \in SSwitchRecord
    BY <1>1 DEF SSwitchRecord
  <2> QED
    BY <1>1, <1>3, <1>4, <2>1 DEF SSwitchAt, SSwitchRecord
<1>6. STypeOK' <=> /\ sRow' \in [SSids -> SSessionRow \cup {SNoRow}] /\ sOlder' \subseteq SSids \X SSids
                   /\ sGrant' \in [SGrants -> SAccounts \cup {SNone}]
                   /\ sOwner' \in [SGrants -> SAccounts \cup {SNone}]
                   /\ sTok' \in [SGrants -> SUBSET STokenKinds]
                   /\ \A v \in SSwitches : /\ sSw'[v].pc \in SSwitchPCs
                                           /\ {sSw'[v].from, sSw'[v].to} \subseteq SAccounts \cup {SNone}
                                           /\ sSw'[v].prev \in SGrants \cup {SNone}
                                           /\ sSw'[v].todo \subseteq SSids
                   /\ sMoved' \subseteq SSids
  BY <1>1, <1>2 DEF STypeOK
<1>7. ASSUME sSw' \in [SSwitches -> SSwitchRecord],
             sRow' \in [SSids -> SSessionRow \cup {SNoRow}], sOlder' \subseteq SSids \X SSids,
             sGrant' \in [SGrants -> SAccounts \cup {SNone}],
             sOwner' \in [SGrants -> SAccounts \cup {SNone}],
             sTok' \in [SGrants -> SUBSET STokenKinds], sMoved' \subseteq SSids
      PROVE  SShapes'
  BY <1>6, <1>7 DEF SShapes, SSwitchRecord
<1>8. ASSUME NEW g \in SGrants, NEW to \in SAccounts, SSwitchBegin(w, g, to) PROVE SBindInv'
  <2> DEFINE sw == [pc |-> "grant", from |-> sOwner[g], to |-> to,
                    prev |-> IF "access" \in sTok[g] THEN g ELSE SNone, todo |-> {}]
  <2>1. /\ sSw[w].pc = "idle" /\ sOwner[g] \in SAccounts /\ SSwitchTo(w, sw)
        /\ UNCHANGED <<sRow, sOlder, sGrant, sTok, sOwner, sMoved>>
    BY <1>1, <1>8 DEF SSwitchBegin, sStore, STypeOK
  <2>2. sw \in SSwitchRecord
    BY <1>8, <2>1 DEF SSwitchRecord, SSwitchPCs
  <2>3. SShapes' /\ sSw'[w] = sw /\ \A v \in SSwitches : v # w => sSw'[v] = sSw[v]
    BY <1>1, <1>3, <1>4, <1>7, <2>1, <2>2 DEF STypeOK
  <2>4. SSwitchSound(w)' /\ ~SIssued(w)
    BY <2>1, <2>3, <1>8, SConstantsAssumption DEF SSwitchSound, SIssued
  <2> QED
    BY <1>2, <2>1, <2>3, <2>4, SBindSwitch
<1>9. CASE SIssueGrant(w)
  <2>1. /\ sSw[w].pc = "grant" /\ SSwitchAt(w, "access") /\ sSw[w].to \in SAccounts
        /\ sGrant' = [sGrant EXCEPT ![w] = sSw[w].to] /\ sOwner' = [sOwner EXCEPT ![w] = sSw[w].to]
        /\ UNCHANGED <<sRow, sOlder, sTok, sMoved>>
    BY <1>1, <1>9 DEF SIssueGrant, SSwitchSound
  <2>2. SShapes' /\ sOwner'[w] = sSw[w].to /\ \A g \in SGrants : g # w => sOwner'[g] = sOwner[g] /\ sGrant'[g] = sGrant[g]
    BY <1>1, <1>5, <1>7, <2>1 DEF STypeOK, SSwitchPCs
  <2>3. SSwitchSound(w)' /\ ~SIssued(w)
    BY <1>1, <1>2, <1>5, <2>1, <2>2, SConstantsAssumption DEF SSwitchSound, SIssued, SSwitchPCs
  <2> QED
    BY <1>2, <1>5, <2>1, <2>2, <2>3, SBindSwitch DEF SSwitchPCs
<1>10. ASSUME NEW kind \in STokenKinds, NEW next \in {"refresh", "revoke.grant"}, SIssueToken(w, kind, next),
              kind = "access" => next = "refresh"
       PROVE  SBindInv'
  <2>1. /\ sSw[w].pc = kind /\ SSwitchAt(w, next) /\ sTok' = [sTok EXCEPT ![w] = @ \cup {kind}]
        /\ UNCHANGED <<sRow, sOlder, sGrant, sOwner, sMoved>>
    BY <1>10 DEF SIssueToken
  <2>2. SShapes' /\ \A g \in SGrants : g # w => sTok'[g] = sTok[g]
    BY <1>1, <1>5, <1>7, <1>10, <2>1 DEF STypeOK, SSwitchPCs
  <2>3. SSwitchSound(w)' /\ ~SIssued(w)
    BY <1>1, <1>2, <1>5, <1>10, <2>1, SConstantsAssumption DEF SSwitchSound, SIssued, SSwitchPCs, STokenKinds
  <2> QED
    BY <1>2, <1>5, <1>10, <2>1, <2>2, <2>3, SBindSwitch DEF SSwitchPCs, STokenKinds
<1>11. CASE SRevokeGrant(w)
  <2>1. /\ sSw[w].pc = "revoke.grant" /\ UNCHANGED <<sRow, sOlder, sTok, sOwner, sMoved>>
        /\ sGrant' \in [SGrants -> SAccounts \cup {SNone}]
        /\ \A g \in SGrants : sGrant[g] = SNone => sGrant'[g] = SNone
        /\ \/ SSwitchAt(w, "load")
           \/ SSwitchAt(w, "revoke.access") /\ sSw[w].prev \in SGrants
    BY <1>1, <1>11 DEF SRevokeGrant, STypeOK, SSwitchRecord
  <2>2. SShapes' /\ \A v \in SSwitches : v # w => sSw'[v] = sSw[v]
    BY <1>1, <1>5, <1>7, <2>1 DEF STypeOK, SSwitchPCs
  <2>3. SSwitchSound(w)' /\ SIssued(w)'
    BY <1>1, <1>2, <1>5, <2>1 DEF SSwitchSound, SIssued, SSwitchPCs
  <2> QED
    BY <1>2, <2>1, <2>2, <2>3, SBindSwitch
<1>12. ASSUME NEW kind \in STokenKinds, NEW from \in {"revoke.access", "revoke.refresh"},
              NEW next \in {"revoke.refresh", "load"}, SRevokeTokens(w, kind, from, next)
       PROVE  SBindInv'
  <2>1. /\ sSw[w].pc = from /\ SSwitchAt(w, next) /\ sSw[w].prev \in SGrants
        /\ sTok' = [sTok EXCEPT ![sSw[w].prev] = @ \ {kind}]
        /\ UNCHANGED <<sRow, sOlder, sGrant, sOwner, sMoved>>
    BY <1>1, <1>12 DEF SRevokeTokens, SSwitchSound
  <2>2. sTok' \in [SGrants -> SUBSET STokenKinds] /\ \A g \in SGrants : sTok'[g] \subseteq sTok[g]
    BY <1>1, <2>1 DEF STypeOK
  <2>3. SShapes' /\ \A v \in SSwitches : v # w => sSw'[v] = sSw[v]
    BY <1>1, <1>5, <1>7, <1>12, <2>1, <2>2 DEF STypeOK, SSwitchPCs
  <2>4. SSwitchSound(w)' /\ SIssued(w)'
    BY <1>1, <1>2, <1>5, <1>12, <2>1 DEF SSwitchSound, SIssued, SSwitchPCs
  <2> QED
    BY <1>2, <1>12, <2>1, <2>2, <2>3, <2>4, SBindSwitch
<1>13. CASE SRebindLoad(w)
  <2> DEFINE sw == [sSw[w] EXCEPT !.pc = "save", !.todo = SLiveOf(sSw[w].from)]
  <2>1. /\ sSw[w].pc = "load" /\ SSwitchTo(w, sw)
        /\ UNCHANGED <<sRow, sOlder, sGrant, sTok, sOwner, sMoved>>
    BY <1>13 DEF SRebindLoad, sStore
  <2>2. sw \in SSwitchRecord
    BY <1>1 DEF SSwitchRecord, SSwitchPCs, SLiveOf
  <2>3. SShapes' /\ sSw'[w] = sw /\ \A v \in SSwitches : v # w => sSw'[v] = sSw[v]
    BY <1>1, <1>3, <1>4, <1>7, <2>1, <2>2 DEF STypeOK
  <2>4. /\ sw.pc = "save" /\ sw.from = sSw[w].from /\ sw.to = sSw[w].to /\ sw.todo = SLiveOf(sSw[w].from)
    BY <1>1 DEF SSwitchRecord
  <2>5. \A s \in SLiveOf(sSw[w].from) : sLog[s] # "out"
    BY DEF SLiveOf, SLive, SBindInv, SLoginSound
  <2> HIDE DEF sw
  <2>6. SSwitchSound(w)' /\ SIssued(w)'
    BY <1>1, <1>2, <2>1, <2>3, <2>4, <2>5 DEF SSwitchSound, SIssued
  <2> QED
    BY <1>2, <2>1, <2>3, <2>6, SBindSwitch
<1>14. CASE SRebindSave(w)
  <2>1. sSw[w].pc = "save" /\ UNCHANGED <<sGrant, sTok, sOwner>> /\ sOwner[w] = sSw[w].to
    BY <1>1, <1>14 DEF SRebindSave, SSwitchSound
  <2>2. CASE sSw[w].todo = {}
    <3>1. SSwitchAt(w, "sweep") /\ UNCHANGED <<sRow, sOlder, sMoved>>
      BY <1>14, <2>2 DEF SRebindSave
    <3>2. SShapes' /\ \A v \in SSwitches : v # w => sSw'[v] = sSw[v]
      BY <1>1, <1>5, <1>7, <2>1, <3>1 DEF STypeOK, SSwitchPCs
    <3>3. SSwitchSound(w)' /\ SIssued(w)'
      BY <1>1, <1>2, <1>5, <2>1, <3>1 DEF SSwitchSound, SIssued, SSwitchPCs
    <3> QED
      BY <1>2, <2>1, <3>1, <3>2, <3>3, SBindSwitch
  <2>3. CASE sSw[w].todo # {}
    <3>1. PICK s \in sSw[w].todo : /\ SWriteSession(s, SRebound(w)) /\ sMoved' = sMoved \cup {s}
                                   /\ SSwitchTo(w, [sSw[w] EXCEPT !.todo = @ \ {s}])
      BY <1>14, <2>3 DEF SRebindSave
    <3> DEFINE sw == [sSw[w] EXCEPT !.todo = @ \ {s}]
    <3>2. s \in SSids /\ sLog[s] # "out" /\ SRebound(w) \in SSessionRow
      BY <1>1, <2>1, <3>1 DEF SSwitchRecord, SSwitchSound, SRebound, SSessionRow
    <3>3. /\ sRow' \in [SSids -> SSessionRow \cup {SNoRow}] /\ sOlder' \subseteq SSids \X SSids
          /\ sRow'[s] = SRebound(w) /\ \A t \in SSids : t # s => sRow'[t] = sRow[t]
      BY <1>1, <3>1, <3>2, SWriteType
    <3>4. /\ sw \in SSwitchRecord /\ sw.pc = "save" /\ sw.from = sSw[w].from /\ sw.to = sSw[w].to
          /\ sw.todo \subseteq sSw[w].todo
      BY <1>1, <2>1 DEF SSwitchRecord
    <3>5. SShapes' /\ sSw'[w] = sw /\ \A v \in SSwitches : v # w => sSw'[v] = sSw[v]
      BY <1>1, <1>3, <1>4, <1>7, <2>1, <3>1, <3>2, <3>3, <3>4 DEF STypeOK
    <3> HIDE DEF sw
    <3>6. SSwitchSound(w)' /\ SIssued(w)'
      BY <1>1, <1>2, <2>1, <3>4, <3>5 DEF SSwitchSound, SIssued
    <3> QED
      BY <1>2, <2>1, <3>2, <3>3, <3>5, <3>6, SBindSwitch
  <2> QED
    BY <2>2, <2>3
<1>15. CASE SSwitchSweep(w)
  <2>1. sSw[w].pc = "sweep" /\ SSwitchAt(w, "done") /\ UNCHANGED <<sOwner, sMoved>>
    BY <1>15 DEF SSwitchSweep
  <2>2. /\ sRow' \in [SSids -> SSessionRow \cup {SNoRow}] /\ sOlder' \subseteq SSids \X SSids
        /\ sGrant' \in [SGrants -> SAccounts \cup {SNone}] /\ sTok' \in [SGrants -> SUBSET STokenKinds]
        /\ \A s \in SSids : sRow'[s] \in {SNoRow, sRow[s]}
        /\ \A g \in SGrants : (sGrant[g] = SNone => sGrant'[g] = SNone) /\ sTok'[g] \subseteq sTok[g]
    <3>1. CASE UNCHANGED sStore
      BY <1>1, <3>1 DEF sStore, STypeOK
    <3>2. CASE SDeleteAllForAccount(sSw[w].from)
      BY <1>1, <3>2, SDeleteType DEF SDeleteAllForAccount
    <3> QED
      BY <1>15, <3>1, <3>2 DEF SSwitchSweep
  <2>3. SShapes' /\ \A v \in SSwitches : v # w => sSw'[v] = sSw[v]
    BY <1>1, <1>5, <1>7, <2>1, <2>2 DEF STypeOK, SSwitchPCs
  <2>4. SSwitchSound(w)' /\ SIssued(w)'
    BY <1>1, <1>2, <1>5, <2>1 DEF SSwitchSound, SIssued, SSwitchPCs
  <2> QED
    BY <1>2, <2>1, <2>2, <2>3, <2>4, SBindSwitch
<1> QED
  BY <1>8, <1>9, <1>10, <1>11, <1>12, <1>13, <1>14, <1>15 DEF SSwitchStep, STokenKinds

(* The order of the rows after a deletion and after a write.                *)
LEMMA SOrderDelete ==
  ASSUME STypeOK, SOrdered, IsFiniteSet(SLiveRows), NEW sids, NEW grants, SDelete(sids, grants)
  PROVE  SOrdered' /\ SLiveRows' = SLiveRows \ sids /\ IsFiniteSet(SLiveRows')
<1>1. SLiveRows' = SLiveRows \ sids
  BY SDeleteType DEF SLiveRows, SLive
<1>2. IsFiniteSet(SLiveRows')
  BY <1>1, FS_Difference
<1>3. \A s, t \in SLiveRows' : s \in SLiveRows /\ t \in SLiveRows /\ (<<s, t>> \in sOlder' <=> <<s, t>> \in sOlder)
  BY <1>1 DEF SDelete
<1>4. sOlder' \subseteq SLiveRows' \X SLiveRows'
  BY <1>1 DEF SDelete, SOrdered
<1> QED
  BY <1>1, <1>2, <1>3, <1>4 DEF SOrdered

LEMMA SOrderWrite ==
  ASSUME STypeOK, SOrdered, IsFiniteSet(SLiveRows), NEW s \in SSids, NEW row \in SSessionRow,
         SWriteSession(s, row)
  PROVE  SOrdered' /\ SLiveRows' = SLiveRows \cup {s} /\ IsFiniteSet(SLiveRows')
<1>1. SLiveRows' = SLiveRows \cup {s}
  BY SWriteType, SNoRowFacts DEF SLiveRows, SLive
<1>2. IsFiniteSet(SLiveRows')
  BY <1>1, FS_AddElement
<1>3. CASE s \in SLiveRows
  <2>1. sOlder' = sOlder /\ SLiveRows' = SLiveRows
    BY <1>1, <1>3 DEF SWriteSession, SLiveRows
  <2> QED
    BY <1>1, <1>2, <2>1 DEF SOrdered
<1>4. CASE s \notin SLiveRows
  <2>1. sOlder' = sOlder \cup {<<t, s>> : t \in SLiveRows}
    BY <1>4 DEF SWriteSession, SLiveRows
  <2>2. sOlder \subseteq SLiveRows \X SLiveRows
    BY DEF SOrdered
  <2>3. \A t, u : <<t, u>> \in sOlder' <=> <<t, u>> \in sOlder \/ (t \in SLiveRows /\ u = s)
    BY <2>1
  <2>4. \A t, u : <<t, u>> \in sOlder => t \in SLiveRows /\ u \in SLiveRows
    BY <2>2
  <2>5. sOlder' \subseteq SLiveRows' \X SLiveRows'
    BY <1>1, <2>1, <2>2
  <2>6. \A t \in SLiveRows' : <<t, t>> \notin sOlder'
    BY <1>1, <1>4, <2>3, <2>4 DEF SOrdered
  <2>7. \A t, u \in SLiveRows' : t # u => <<t, u>> \in sOlder' \/ <<u, t>> \in sOlder'
    BY <1>1, <2>3 DEF SOrdered
  <2>8. \A t, u, v \in SLiveRows' : <<t, u>> \in sOlder' /\ <<u, v>> \in sOlder' => <<t, v>> \in sOlder'
    BY <1>1, <1>4, <2>3, <2>4 DEF SOrdered
  <2> QED
    BY <1>1, <1>2, <2>5, <2>6, <2>7, <2>8 DEF SOrdered
<1> QED
  BY <1>3, <1>4

(* A step that is not of a login's own: locked rows stay, and a session is  *)
(* not brought under a cap.                                                 *)
SQuiet ==
  /\ UNCHANGED <<sHeld, sSkipped>>
  /\ \A s \in SSids : /\ sOwner'[s] = sOwner[s]
                      /\ sLog'[s] = sLog[s] \/ (sLog[s] = "clear" /\ sLog'[s] = "in")
  /\ \A s \in SLocked : sRow'[s] = sRow[s]
  /\ \A s \in SLiveRows' \ sMoved' : s \in SLiveRows \ sMoved /\ sRow'[s] = sRow[s]
  /\ SOrdered' /\ IsFiniteSet(SLiveRows')

LEMMA SQuietKeeps ==
  ASSUME STypeOK, STableInv, SQuiet
  PROVE  /\ STableInv'
         /\ \A a \in SAccounts : SCapInv(a) => SCapInv(a)'
<1>1. SLocksSound'
  <2> SUFFICES ASSUME NEW s \in SSids
               PROVE  /\ sHeld'[s] # {} => sLog'[s] = "commit"
                      /\ sHeld'[s] \subseteq SLiveOf(sOwner[s])' \ {s}
                      /\ \A t \in SSids \ {s} : sHeld'[s] \cap sHeld'[t] = {}
    BY DEF SLocksSound
  <2>1. sHeld'[s] = sHeld[s] /\ sOwner'[s] = sOwner[s] /\ \A t \in sHeld[s] : sRow'[t] = sRow[t]
    BY DEF SQuiet, SLocked
  <2> QED
    BY <2>1 DEF SQuiet, STableInv, SLocksSound, SLiveOf, SLive
<1>2. STableInv'
  BY <1>1 DEF STableInv, SQuiet, SLiveRows
<1>3. ASSUME NEW a \in SAccounts, SCapInv(a) PROVE SCapInv(a)'
  <2>1. SCapped(a)' \subseteq SCapped(a)
    BY DEF SCapped, SLiveOf, SQuiet, SLiveRows
  <2>2. SSettled(a)' \subseteq SSettled(a)
    BY <2>1 DEF SSettled, SPending, SQuiet, SCapped, SLiveOf
  <2>3. SSkipsOf(a)' = SSkipsOf(a)
    BY DEF SSkipsOf, SQuiet, STypeOK
  <2>4. SEvicting(a)' \subseteq SEvicting(a) /\ \A s \in SEvicting(a)' : sHeld'[s] = sHeld[s]
    BY DEF SEvicting, SQuiet
  <2> QED
    BY <1>3, <2>1, <2>2, <2>3, <2>4, SCapKeeps DEF STableInv
<1> QED
  BY <1>2, <1>3

LEMMA SDeleteQuiet ==
  ASSUME STypeOK, STableInv, NEW sids, NEW grants, SDelete(sids, grants), sids \cap SLocked = {},
         UNCHANGED <<sHeld, sSkipped, sMoved>>,
         \A s \in SSids : /\ sOwner'[s] = sOwner[s]
                          /\ sLog'[s] = sLog[s] \/ (sLog[s] = "clear" /\ sLog'[s] = "in")
  PROVE  SQuiet
<1>1. \A s \in SSids : sRow'[s] = IF s \in sids THEN SNoRow ELSE sRow[s]
  BY SDeleteType
<1>2. SOrdered' /\ SLiveRows' = SLiveRows \ sids /\ IsFiniteSet(SLiveRows')
  BY SOrderDelete DEF STableInv
<1>3. SLocked \subseteq SSids /\ SLiveRows \subseteq SSids
  BY DEF SLocked, STypeOK, SLiveRows
<1> QED
  BY <1>1, <1>2, <1>3 DEF SQuiet

LEMMA SSameQuiet ==
  ASSUME STypeOK, STableInv, UNCHANGED <<sRow, sOlder, sHeld, sSkipped, sMoved, sLog>>,
         \A s \in SSids : sOwner'[s] = sOwner[s]
  PROVE  SQuiet
BY DEF SQuiet, STableInv, SOrdered, SLiveRows, SLive

LEMMA SWriteQuiet ==
  ASSUME STypeOK, STableInv, NEW s \in SSids, NEW row \in SSessionRow, SWriteSession(s, row),
         sMoved' = sMoved \cup {s} \/ (sMoved' = sMoved /\ sRow[s] = row),
         UNCHANGED <<sHeld, sSkipped, sLog, sOwner>>
  PROVE  SQuiet
<1>1. sRow'[s] = row /\ \A t \in SSids : t # s => sRow'[t] = sRow[t]
  BY SWriteType
<1>2. SOrdered' /\ SLiveRows' = SLiveRows \cup {s} /\ IsFiniteSet(SLiveRows')
  BY SOrderWrite DEF STableInv
<1>3. SLocked \subseteq SSids /\ s \notin SLocked /\ SLiveRows \subseteq SSids
  BY DEF SLocked, STypeOK, SWriteSession, SLiveRows
<1>4. sRow[s] = row => s \in SLiveRows
  BY SNoRowFacts DEF SLiveRows, SLive
<1> QED
  BY <1>1, <1>2, <1>3, <1>4 DEF SQuiet

LEMMA SQuietSteps ==
  ASSUME SBindInv, STableInv,
         \/ \E s \in SSids : SEnforceClear(s) \/ SProviderLoad(s) \/ SProviderSave(s) \/ SRemoveSession(s)
         \/ \E w \in SSwitches :
              SSwitchStep(w) \/ \E g \in SGrants, to \in SAccounts : SSwitchBegin(w, g, to)
         \/ \E a \in SAccounts : SRevokeSessions(a)
         \/ UNCHANGED sVars
  PROVE  SQuiet
<1>0. STypeOK /\ sSw \in [SSwitches -> SSwitchRecord]
  BY DEF SBindInv, SShapes
<1>1. ASSUME NEW s \in SSids, SEnforceClear(s) PROVE SQuiet
  <2>1. /\ sLog[s] = "clear" /\ SDelete({}, sVictims[s]) /\ sLog' = [sLog EXCEPT ![s] = "in"]
        /\ UNCHANGED <<sOwner, sHeld, sSkipped, sMoved>>
    BY <1>1 DEF SEnforceClear, sClaims
  <2>2. \A t \in SSids : sLog'[t] = sLog[t] \/ (sLog[t] = "clear" /\ sLog'[t] = "in")
    BY <1>0, <2>1 DEF STypeOK
  <2> QED
    BY <1>0, <2>1, <2>2, SDeleteQuiet
<1>2. ASSUME NEW s \in SSids, SProviderLoad(s) PROVE SQuiet
  BY <1>0, <1>2, SSameQuiet DEF SProviderLoad, sStore, sClaims
<1>3. ASSUME NEW s \in SSids, SProviderSave(s) PROVE SQuiet
  <2>1. sCopy[s] \in SSessionRow
    BY <1>0, <1>3 DEF SProviderSave, STypeOK
  <2> QED
    BY <1>0, <1>3, <2>1, SWriteQuiet DEF SProviderSave, sClaims
<1>4. ASSUME NEW s \in SSids, SRemoveSession(s) PROVE SQuiet
  BY <1>0, <1>4, SDeleteQuiet DEF SRemoveSession, sClaims
<1>5. ASSUME NEW a \in SAccounts, SRevokeSessions(a) PROVE SQuiet
  BY <1>0, <1>5, SDeleteQuiet DEF SRevokeSessions, SDeleteAllForAccount, sClaims
<1>6. ASSUME NEW w \in SSwitches,
             SSwitchStep(w) \/ \E g \in SGrants, to \in SAccounts : SSwitchBegin(w, g, to)
      PROVE  SQuiet
  <2>1. UNCHANGED <<sLog, sHeld, sVictims, sSkipped>> /\ \A s \in SSids : sOwner'[s] = sOwner[s]
    <3>1. UNCHANGED <<sLog, sHeld, sVictims, sSkipped>>
      BY <1>6 DEF SSwitchStep, SSwitchBegin, SIssueGrant, SIssueToken, SRevokeGrant, SRevokeTokens, SRebindLoad,
         SRebindSave, SSwitchSweep, SSwitchRest, sClaims
    <3>2. UNCHANGED sOwner \/ sOwner' = [sOwner EXCEPT ![w] = sSw[w].to]
      BY <1>6 DEF SSwitchStep, SSwitchBegin, SIssueGrant, SIssueToken, SRevokeGrant, SRevokeTokens, SRebindLoad,
         SRebindSave, SSwitchSweep
    <3> QED
      BY <1>0, <3>1, <3>2, SConstantsAssumption DEF STypeOK, SGrants
  <2>2. CASE SRebindSave(w) /\ sSw[w].todo # {}
    <3>1. PICK s \in sSw[w].todo : SWriteSession(s, SRebound(w)) /\ sMoved' = sMoved \cup {s} /\ UNCHANGED sOwner
      BY <2>2 DEF SRebindSave
    <3>2. s \in SSids /\ SRebound(w) \in SSessionRow
      BY <1>0, <1>6, <2>2, <3>1 DEF SSwitchRecord, SSwitchSound, SRebound, SSessionRow, SRebindSave, SBindInv, SGrants
    <3> QED
      BY <1>0, <2>1, <3>1, <3>2, SWriteQuiet
  <2>3. CASE SSwitchSweep(w) /\ SDeleteAllForAccount(sSw[w].from)
    BY <1>0, <2>1, <2>3, SDeleteQuiet DEF SSwitchSweep, SDeleteAllForAccount
  <2>4. CASE UNCHANGED <<sRow, sOlder, sMoved>>
    BY <1>0, <2>1, <2>4, SSameQuiet
  <2> QED
    BY <1>6, <2>2, <2>3, <2>4 DEF SSwitchStep, SSwitchBegin, SIssueGrant, SIssueToken, SRevokeGrant, SRevokeTokens,
       SRebindLoad, SRebindSave, SSwitchSweep, sStore
<1>7. CASE UNCHANGED sVars
  BY <1>0, <1>7, SSameQuiet DEF sVars
<1> QED
  BY <1>1, <1>2, <1>3, <1>4, <1>5, <1>6, <1>7

(* A login's own steps.  Its session is pending when it is stored...        *)
LEMMA SLoginKeeps ==
  ASSUME SBindInv, STableInv, NEW s \in SSids, NEW b \in SAccounts, SLogin(s, b)
  PROVE  /\ STableInv'
         /\ SLimit > 0 => \A a \in SAccounts : SCapInv(a) => SCapInv(a)'
<1> DEFINE row == [acct |-> b, grant |-> s]
<1>1. STypeOK /\ SLoginSound(s) /\ sLog[s] = "out" /\ row \in SSessionRow /\ s \in SGrants
  BY DEF SBindInv, SShapes, SLogin, SSessionRow, SGrants
<1>2. sRow'[s] = row /\ \A t \in SSids : t # s => sRow'[t] = sRow[t]
  BY <1>1, SWriteType DEF SLogin
<1>3. SOrdered' /\ SLiveRows' = SLiveRows \cup {s} /\ IsFiniteSet(SLiveRows')
  BY <1>1, SOrderWrite DEF STableInv, SLogin
<1>4. /\ UNCHANGED <<sHeld, sSkipped, sMoved>>
      /\ sOwner'[s] = b /\ \A t \in SSids : t # s => sOwner'[t] = sOwner[t] /\ sLog'[t] = sLog[t]
      /\ sLog'[s] = IF SLimit = 0 THEN "in" ELSE "claim"
  BY <1>1 DEF SLogin, STypeOK, sClaims, SGrants
<1>5. s \notin SLiveRows /\ s \notin sSkipped /\ s \notin SLocked /\ sHeld[s] = {}
  BY <1>1 DEF SLiveRows, SLive, SLoginSound, SLogin, SWriteSession, STableInv, SLocksSound
<1>6. SLocksSound'
  <2> SUFFICES ASSUME NEW t \in SSids
               PROVE  /\ sHeld'[t] # {} => sLog'[t] = "commit"
                      /\ sHeld'[t] \subseteq SLiveOf(sOwner[t])' \ {t}
                      /\ \A u \in SSids \ {t} : sHeld'[t] \cap sHeld'[u] = {}
    BY DEF SLocksSound
  <2>1. CASE t = s
    BY <1>4, <1>5, <2>1
  <2>2. CASE t # s
    <3>1. \A u \in sHeld[t] : sRow'[u] = sRow[u]
      BY <1>1, <1>2, <1>5 DEF SLocked, STypeOK
    <3> QED
      BY <1>4, <2>2, <3>1 DEF STableInv, SLocksSound, SLiveOf, SLive
  <2> QED
    BY <2>1, <2>2
<1>7. STableInv'
  <2>1. \A t \in SLiveRows' \ sMoved' : sRow'[t].acct = sOwner'[t]
    BY <1>2, <1>3, <1>4 DEF STableInv, SLiveRows
  <2> QED
    BY <1>3, <1>4, <1>6, <2>1 DEF STableInv
<1>8. ASSUME SLimit > 0, NEW a \in SAccounts, SCapInv(a) PROVE SCapInv(a)'
  <2>0. SPending(s)' /\ \A t \in SSids : t # s => (SPending(t)' <=> SPending(t))
    BY <1>4, <1>8 DEF SPending
  <2>1. SSettled(a)' \subseteq SSettled(a)
    BY <1>2, <1>4, <2>0 DEF SSettled, SCapped, SLiveOf, SLive
  <2>2. SSkipsOf(a)' = SSkipsOf(a)
    BY <1>1, <1>4, <1>5 DEF SSkipsOf, STypeOK
  <2>3. SEvicting(a)' \subseteq SEvicting(a) /\ s \notin SEvicting(a)'
    BY <1>4, <1>8 DEF SEvicting
  <2>4. \A t \in SEvicting(a)' : sHeld'[t] = sHeld[t] /\ (t \in SCapped(a)' => t \in SCapped(a))
    BY <1>2, <1>4, <2>3 DEF SCapped, SLiveOf, SLive, SEvicting
  <2> QED
    BY <1>8, <2>1, <2>2, <2>3, <2>4, SCapKeeps DEF STableInv
<1> QED
  BY <1>7, <1>8

(* ... and while its eviction statement runs, unless that skipped a row.    *)
LEMMA SClaimKeeps ==
  ASSUME SBindInv, STableInv, NEW s \in SSids, SEnforceClaim(s)
  PROVE  /\ STableInv'
         /\ \A a \in SAccounts : SCapInv(a) => SCapInv(a)'
<1> DEFINE b == sOwner[s]
           skips == (SLiveOf(b) \ {s}) \cap SLocked # {}
<1>1. STypeOK /\ SLoginSound(s) /\ sLog[s] = "claim" /\ b \in SAccounts /\ SLimit > 0 /\ s \notin sSkipped
  BY DEF SBindInv, SShapes, SEnforceClaim, SLoginSound
<1>2. /\ UNCHANGED <<sRow, sOlder, sOwner, sMoved>>
      /\ sSkipped' = IF skips THEN sSkipped \cup {s} ELSE sSkipped
      /\ sHeld'[s] = SCandidates(b, s) /\ sLog'[s] = "commit"
      /\ \A t \in SSids : t # s => sHeld'[t] = sHeld[t] /\ sLog'[t] = sLog[t]
  BY <1>1 DEF SEnforceClaim, STypeOK, sStore
<1>3. sHeld[s] = {}
  BY <1>1 DEF STableInv, SLocksSound
<1>4. SLocksSound'
  <2> SUFFICES ASSUME NEW t \in SSids
               PROVE  /\ sHeld'[t] # {} => sLog'[t] = "commit"
                      /\ sHeld'[t] \subseteq SLiveOf(sOwner[t])' \ {t}
                      /\ \A u \in SSids \ {t} : sHeld'[t] \cap sHeld'[u] = {}
    BY DEF SLocksSound
  <2>0. SLiveOf(sOwner[t])' = SLiveOf(sOwner[t])
    BY <1>2 DEF SLiveOf, SLive
  <2>1. CASE t = s
    BY <1>2, <2>0, <2>1 DEF SCandidates, SLocked
  <2>2. CASE t # s
    BY <1>2, <2>0, <2>2 DEF SCandidates, SLocked, STableInv, SLocksSound
  <2> QED
    BY <2>1, <2>2
<1>5. STableInv'
  <2>1. IsFiniteSet(sSkipped')
    BY <1>2, FS_AddElement DEF STableInv
  <2> QED
    BY <1>2, <1>4, <2>1 DEF STableInv, SOrdered, SLiveRows, SLive
<1>6. ASSUME NEW a \in SAccounts, SCapInv(a) PROVE SCapInv(a)'
  <2>0. SCapped(a)' = SCapped(a) /\ SLiveOf(a)' = SLiveOf(a)
    BY <1>2 DEF SCapped, SLiveOf, SLive
  <2>1. CASE a # b
    <3>1. s \notin SCapped(a)
      BY <2>1 DEF SCapped, SLiveOf, STableInv, SLiveRows
    <3>2. SSettled(a)' \subseteq SSettled(a)
      BY <1>2, <2>0, <3>1 DEF SSettled, SPending, SCapped, SLiveOf
    <3>3. SSkipsOf(a)' = SSkipsOf(a) /\ SEvicting(a)' \subseteq SEvicting(a) /\ s \notin SEvicting(a)'
      BY <1>2, <2>1 DEF SSkipsOf, SEvicting
    <3>4. \A t \in SEvicting(a)' : sHeld'[t] = sHeld[t] /\ (t \in SCapped(a)' => t \in SCapped(a))
      BY <1>2, <2>0, <3>3 DEF SEvicting
    <3> QED
      BY <1>6, <3>2, <3>3, <3>4, SCapKeeps DEF STableInv
  <2>2. CASE a = b /\ ~skips
    <3>1. SSettled(a)' = SSettled(a) /\ s \notin SSettled(a)
      BY <1>1, <1>2, <2>0, <2>2 DEF SSettled, SPending, SCapped, SLiveOf
    <3>2. SSkipsOf(a)' = SSkipsOf(a) /\ SEvicting(a)' = SEvicting(a) \cup {s} /\ s \notin SEvicting(a)
      BY <1>1, <1>2, <2>2 DEF SSkipsOf, SEvicting
    <3>3. sHeld'[s] = SLiveOf(a) \ {s}
      BY <1>2, <2>2 DEF SCandidates
    <3>4. \A t \in SEvicting(a) : t # s /\ sHeld'[t] = sHeld[t] /\ t \in SSids
      BY <1>2, <3>2 DEF SEvicting
    <3>5. IsFiniteSet(SSkipsOf(a)) /\ Cardinality(SSkipsOf(a)) \in Nat
      <4>1. SSkipsOf(a) \in SUBSET sSkipped
        BY DEF SSkipsOf
      <4> QED
        BY <4>1, FS_Subset, FS_CardinalityType DEF STableInv
    <3>6. SRoom(a, s)'
      <4>1. SSettled(a) \subseteq sHeld'[s]
        BY <3>1, <3>3 DEF SSettled, SCapped
      <4>2. CASE sHeld'[s] = {}
        <5>1. SSettled(a)' \cup ({s} \cap SCapped(a)') \in SUBSET {s}
          BY <3>1, <4>1, <4>2
        <5>2. IsFiniteSet({s}) /\ Cardinality({s}) = 1
          BY FS_Singleton
        <5> DEFINE X == SSettled(a)' \cup ({s} \cap SCapped(a)')
        <5>3. X \subseteq {s}
          BY <5>1
        <5> HIDE DEF X
        <5>4. Cardinality(X) <= 1 /\ Cardinality(X) \in Nat
          BY <5>2, <5>3, SSubsetBound
        <5>5. Cardinality(X) <= SLimit + Cardinality(SSkipsOf(a))
          BY <1>1, <3>5, <5>4, SConstantsAssumption
        <5> QED
          BY <3>2, <4>2, <5>5 DEF SRoom, X
      <4>3. CASE sHeld'[s] # {}
        <5>1. SSettled(a)' \ sHeld'[s] = {}
          BY <3>1, <4>1
        <5>2. Cardinality(SSettled(a)' \ sHeld'[s]) = 0
          BY <5>1, FS_EmptySet
        <5> QED
          BY <3>2, <3>5, <4>3, <5>2 DEF SRoom
      <4> QED
        BY <4>2, <4>3
    <3>7. \A t \in SEvicting(a) : SRoom(a, t)'
      BY <1>6, <2>0, <3>1, <3>2, <3>4 DEF SCapInv, SRoom
    <3>8. \A t \in SEvicting(a) : SAware(a, s, t)' /\ SAware(a, t, s)'
      <4> TAKE t \in SEvicting(a)
      <4>1. sHeld[t] \subseteq SLiveOf(a) /\ sHeld[t] \subseteq SLocked
        BY <3>4 DEF SEvicting, STableInv, SLocksSound, SLocked
      <4>2. sHeld[t] \subseteq {s}
        BY <2>2, <4>1
      <4>3. t \in SCapped(a) => t \in sHeld'[s]
        BY <3>3, <3>4 DEF SCapped
      <4> QED
        BY <2>0, <3>4, <4>2, <4>3 DEF SAware
    <3>9. \A t, u \in SEvicting(a) : t # u => SAware(a, t, u)'
      BY <1>6, <2>0, <3>4 DEF SCapInv, SAware
    <3>10. Cardinality(SSettled(a)') <= SLimit + Cardinality(SSkipsOf(a)')
      BY <1>6, <3>1, <3>2 DEF SCapInv
    <3> QED
      BY <3>2, <3>6, <3>7, <3>8, <3>9, <3>10 DEF SCapInv
  <2>3. CASE a = b /\ skips
    <3>1. SSettled(a)' \subseteq SSettled(a) \cup {s}
      BY <1>2, <2>0 DEF SSettled, SPending, SCapped, SLiveOf
    <3>2. SSkipsOf(a)' = SSkipsOf(a) \cup {s} /\ s \notin SSkipsOf(a)
      BY <1>1, <1>2, <2>3 DEF SSkipsOf
    <3>3. SEvicting(a)' \subseteq SEvicting(a) /\ s \notin SEvicting(a)'
      BY <1>2, <2>3 DEF SEvicting
    <3>4. /\ IsFiniteSet(SSettled(a)) /\ IsFiniteSet(SSkipsOf(a))
          /\ Cardinality(SSettled(a)) \in Nat /\ Cardinality(SSkipsOf(a)) \in Nat
      <4>1. SSettled(a) \in SUBSET SLiveRows /\ SSkipsOf(a) \in SUBSET sSkipped
        BY DEF SSettled, SCapped, SLiveOf, SLiveRows, SSkipsOf
      <4>2. IsFiniteSet(SSettled(a)) /\ IsFiniteSet(SSkipsOf(a))
        BY <4>1, FS_Subset DEF STableInv
      <4> QED
        BY <4>2, FS_CardinalityType
    <3>5. Cardinality(SSkipsOf(a)') = Cardinality(SSkipsOf(a)) + 1
      BY <3>2, <3>4, FS_AddElement
    <3>7. Cardinality(SSettled(a)') <= SLimit + Cardinality(SSkipsOf(a)')
      <4>1. Cardinality(SSettled(a)) <= SLimit + Cardinality(SSkipsOf(a))
        BY <1>6 DEF SCapInv
      <4>2. Cardinality(SSettled(a)') <= Cardinality(SSettled(a)) + 1 /\ Cardinality(SSettled(a)') \in Nat
        BY <3>1, <3>4, SOneMoreBound
      <4> QED
        BY <3>4, <3>5, <4>1, <4>2, SConstantsAssumption
    <3>8. ASSUME NEW t \in SEvicting(a)' PROVE SRoom(a, t)'
      <4>1. SRoom(a, t) /\ sHeld'[t] = sHeld[t]
        BY <1>2, <1>6, <3>3, <3>8 DEF SCapInv, SEvicting
      <4>2. CASE sHeld[t] = {}
        <5> DEFINE A == SSettled(a) \cup ({t} \cap SCapped(a))
                   B == SSettled(a)' \cup ({t} \cap SCapped(a)')
        <5>1. IsFiniteSet(A) /\ B \subseteq A \cup {s}
          BY <2>0, <3>1, <3>4, FS_Union, FS_Singleton, FS_Intersection
        <5>2. Cardinality(A) <= SLimit + Cardinality(SSkipsOf(a))
          BY <4>1, <4>2 DEF SRoom
        <5> HIDE DEF A, B
        <5>3. Cardinality(B) <= Cardinality(A) + 1 /\ Cardinality(A) \in Nat /\ Cardinality(B) \in Nat
          BY <5>1, SOneMoreBound
        <5>4. Cardinality(B) <= SLimit + Cardinality(SSkipsOf(a)')
          BY <3>4, <3>5, <5>2, <5>3, SConstantsAssumption
        <5> QED
          BY <4>1, <4>2, <5>4 DEF SRoom, B
      <4>3. CASE sHeld[t] # {}
        <5> DEFINE A == SSettled(a) \ sHeld[t]
                   B == SSettled(a)' \ sHeld[t]
        <5>1. IsFiniteSet(A) /\ B \subseteq A \cup {s}
          BY <3>1, <3>4, FS_Difference
        <5>2. Cardinality(A) <= Cardinality(SSkipsOf(a))
          BY <4>1, <4>3 DEF SRoom
        <5> HIDE DEF A, B
        <5>3. Cardinality(B) <= Cardinality(A) + 1 /\ Cardinality(A) \in Nat /\ Cardinality(B) \in Nat
          BY <5>1, SOneMoreBound
        <5>4. Cardinality(B) <= Cardinality(SSkipsOf(a)')
          BY <3>4, <3>5, <5>2, <5>3
        <5> QED
          BY <4>1, <4>3, <5>4 DEF SRoom, B
      <4> QED
        BY <4>2, <4>3
    <3>9. \A t, u \in SEvicting(a)' : t # u => SAware(a, t, u)'
      <4>1. \A t \in SEvicting(a)' : t \in SEvicting(a) /\ sHeld'[t] = sHeld[t]
        BY <1>2, <3>3 DEF SEvicting
      <4> QED
        BY <1>6, <2>0, <4>1 DEF SCapInv, SAware
    <3> QED
      BY <3>7, <3>8, <3>9 DEF SCapInv
  <2> QED
    BY <2>1, <2>2, <2>3
<1> QED
  BY <1>5, <1>6

(* ... and settled by the commit, which leaves room for it.                 *)
LEMMA SCommitKeeps ==
  ASSUME SBindInv, STableInv, NEW s \in SSids, SEnforceCommit(s)
  PROVE  /\ STableInv'
         /\ \A a \in SAccounts : SCapInv(a) => SCapInv(a)'
<1> DEFINE H == sHeld[s]
           gone == SSurplus(H)
           kept == H \ gone
<1>1. STypeOK /\ SLoginSound(s) /\ sLog[s] = "commit" /\ SLimit > 0 /\ SLimit \in Nat
  BY SConstantsAssumption DEF SBindInv, SShapes, SEnforceCommit, SLoginSound
<1>2. /\ H \subseteq SLiveRows /\ H \subseteq SLiveOf(sOwner[s]) \ {s} /\ IsFiniteSet(H)
  <2>1. H \subseteq SLiveRows /\ H \subseteq SLiveOf(sOwner[s]) \ {s}
    BY DEF STableInv, SLocksSound, SLiveOf, SLiveRows
  <2> QED
    BY <2>1, SSubsetBound DEF STableInv
<1>3. gone \subseteq H /\ IsFiniteSet(kept) /\ Cardinality(kept) <= SLimit - 1
  BY <1>1, <1>2, SSurplusBound DEF STableInv
<1>4. SDelete(gone, {})
  BY DEF SEnforceCommit
<1>5. /\ UNCHANGED <<sOwner, sSkipped, sMoved>>
      /\ sHeld'[s] = {} /\ sLog'[s] \in {"in", "clear"}
      /\ \A t \in SSids : t # s => sHeld'[t] = sHeld[t] /\ sLog'[t] = sLog[t]
  BY <1>1 DEF SEnforceCommit, STypeOK
<1>6. \A t \in SSids : sRow'[t] = IF t \in gone THEN SNoRow ELSE sRow[t]
  BY <1>1, <1>4, SDeleteType
<1>7. SOrdered' /\ SLiveRows' = SLiveRows \ gone /\ IsFiniteSet(SLiveRows')
  BY <1>1, <1>4, SOrderDelete DEF STableInv
<1> HIDE DEF gone
<1>8. SLocksSound'
  <2> SUFFICES ASSUME NEW t \in SSids
               PROVE  /\ sHeld'[t] # {} => sLog'[t] = "commit"
                      /\ sHeld'[t] \subseteq SLiveOf(sOwner[t])' \ {t}
                      /\ \A u \in SSids \ {t} : sHeld'[t] \cap sHeld'[u] = {}
    BY DEF SLocksSound
  <2>1. CASE t = s
    BY <1>5, <2>1
  <2>2. CASE t # s
    <3>1. sHeld[t] \cap gone = {} /\ sHeld[t] \subseteq SLiveOf(sOwner[t]) \ {t}
      BY <1>3, <2>2 DEF STableInv, SLocksSound
    <3>2. sHeld[t] \subseteq SLiveOf(sOwner[t])' \ {t}
      BY <1>5, <1>6, <3>1 DEF SLiveOf, SLive
    <3> QED
      BY <1>5, <2>2, <3>2 DEF STableInv, SLocksSound
  <2> QED
    BY <2>1, <2>2
<1>9. STableInv'
  <2>1. \A t \in SLiveRows' \ sMoved' : sRow'[t].acct = sOwner'[t]
    BY <1>5, <1>6, <1>7 DEF STableInv, SLiveRows
  <2> QED
    BY <1>5, <1>7, <1>8, <2>1 DEF STableInv
<1>10. ASSUME NEW a \in SAccounts, SCapInv(a) PROVE SCapInv(a)'
  <2> DEFINE U == SCapped(a)
             S == SSettled(a)
             K == Cardinality(SSkipsOf(a))
  <2>1. U' = U \ gone
    BY <1>5, <1>6 DEF SCapped, SLiveOf, SLive
  <2>2. SSkipsOf(a)' = SSkipsOf(a) /\ SEvicting(a)' = SEvicting(a) \ {s}
    BY <1>5 DEF SSkipsOf, SEvicting
  <2>3. \A t \in SEvicting(a)' : t \in SEvicting(a) /\ t # s /\ sHeld'[t] = sHeld[t]
    BY <1>5, <2>2 DEF SEvicting
  <2>4. S' \subseteq (S \ gone) \cup ({s} \cap U)
    BY <1>5, <2>1 DEF SSettled, SPending, SCapped, SLiveOf
  <2>5. CASE s \notin SEvicting(a)
    <3>1. s \in U => s \in S
      BY <1>1, <2>5 DEF SEvicting, SSettled, SPending, SCapped, SLiveOf, STableInv, SLiveRows
    <3>2. S' \subseteq S
      BY <2>4, <3>1
    <3> QED
      BY <1>10, <2>1, <2>2, <2>3, <3>2, SCapKeeps DEF STableInv
  <2>6. CASE s \in SEvicting(a)
    <3>1. SRoom(a, s)
      BY <1>10, <2>6 DEF SCapInv
    <3>2. S \subseteq SLiveRows /\ SSkipsOf(a) \subseteq sSkipped /\ S \subseteq U
      BY DEF SSettled, SCapped, SLiveOf, SLiveRows, SSkipsOf
    <3>3. IsFiniteSet(S) /\ K \in Nat
      BY <3>2, SSubsetBound DEF STableInv
    <3>4. ASSUME H # {}, NEW C, C \subseteq ((S \ H) \cup kept) \cup {s}
          PROVE  Cardinality(C) <= SLimit + K
      <4> DEFINE A == S \ H
      <4>1. IsFiniteSet(A)
        BY <3>3, SSubsetBound
      <4>2. Cardinality(A) <= K
        BY <3>1, <3>4 DEF SRoom
      <4>3. C \subseteq (A \cup kept) \cup {s}
        BY <3>4
      <4> HIDE DEF A, kept, K
      <4>4. /\ IsFiniteSet(A \cup kept) /\ Cardinality(A \cup kept) <= Cardinality(A) + Cardinality(kept)
            /\ Cardinality(A) \in Nat /\ Cardinality(kept) \in Nat /\ Cardinality(A \cup kept) \in Nat
        BY <1>3, <4>1, SUnionBound
      <4>5. Cardinality(C) <= Cardinality(A \cup kept) + 1 /\ Cardinality(C) \in Nat
        BY <4>3, <4>4, SOneMoreBound
      <4> QED
        BY <1>1, <1>3, <3>3, <4>2, <4>4, <4>5
    <3>5. ASSUME H = {}, NEW C, C \subseteq S \cup ({s} \cap U)
          PROVE  Cardinality(C) <= SLimit + K
      <4> DEFINE A == S \cup ({s} \cap U)
      <4>1. IsFiniteSet(A)
        BY <3>3, FS_Union, FS_Singleton, FS_Intersection
      <4>2. Cardinality(A) <= SLimit + K
        BY <3>1, <3>5 DEF SRoom
      <4>3. C \subseteq A
        BY <3>5
      <4> HIDE DEF A
      <4>4. Cardinality(C) <= Cardinality(A) /\ Cardinality(A) \in Nat /\ Cardinality(C) \in Nat
        BY <4>1, <4>3, SSubsetBound
      <4> QED
        BY <1>1, <3>3, <4>2, <4>4
    <3>6. Cardinality(S') <= SLimit + K
      <4>1. CASE H = {}
        BY <2>4, <3>5, <4>1
      <4>2. CASE H # {}
        <5>1. S' \subseteq ((S \ H) \cup kept) \cup {s}
          BY <2>4
        <5> QED
          BY <3>4, <4>2, <5>1
      <4> QED
        BY <4>1, <4>2
    <3>7. ASSUME NEW t \in SEvicting(a)' PROVE SRoom(a, t)'
      <4>1. /\ t \in SEvicting(a) /\ t # s /\ sHeld'[t] = sHeld[t]
            /\ SRoom(a, t) /\ SAware(a, s, t)
        BY <1>10, <2>3, <2>6, <3>7 DEF SCapInv
      <4>2. CASE sHeld[t] # {}
        <5>1. S' \ sHeld[t] \subseteq S \ sHeld[t]
          BY <2>4, <4>1, <4>2 DEF SAware
        <5>2. IsFiniteSet(S \ sHeld[t])
          BY <3>3, SSubsetBound
        <5>3. /\ Cardinality(S' \ sHeld[t]) <= Cardinality(S \ sHeld[t])
              /\ Cardinality(S \ sHeld[t]) \in Nat /\ Cardinality(S' \ sHeld[t]) \in Nat
          BY <5>1, <5>2, SSubsetBound
        <5>4. Cardinality(S \ sHeld[t]) <= K
          BY <4>1, <4>2 DEF SRoom
        <5>5. Cardinality(S' \ sHeld[t]) <= K
          BY <3>3, <5>3, <5>4
        <5> QED
          BY <2>2, <4>1, <4>2, <5>5 DEF SRoom
      <4>3. CASE sHeld[t] = {}
        <5> DEFINE C == S' \cup ({t} \cap U')
        <5>1. CASE s \notin U
          <6> DEFINE A == S \cup ({t} \cap U)
          <6>1. C \subseteq A
            BY <2>1, <2>4, <5>1
          <6>2. IsFiniteSet(A)
            BY <3>3, FS_Union, FS_Singleton, FS_Intersection
          <6>3. Cardinality(A) <= SLimit + K
            BY <4>1, <4>3 DEF SRoom
          <6> HIDE DEF A, C
          <6>4. Cardinality(C) <= Cardinality(A) /\ Cardinality(A) \in Nat /\ Cardinality(C) \in Nat
            BY <6>1, <6>2, SSubsetBound
          <6>5. Cardinality(C) <= SLimit + K
            BY <1>1, <3>3, <6>3, <6>4
          <6> QED
            BY <2>2, <4>1, <4>3, <6>5 DEF SRoom, C
        <5>2. CASE s \in U /\ t \notin U
          <6>1. C = S'
            BY <2>1, <5>2
          <6> QED
            BY <2>2, <3>6, <4>1, <4>3, <6>1 DEF SRoom
        <5>3. CASE s \in U /\ t \in U
          <6>1. t \in H
            BY <4>1, <4>3, <5>3 DEF SAware
          <6>2. C \subseteq ((S \ H) \cup kept) \cup {s}
            BY <2>1, <2>4, <6>1
          <6>3. Cardinality(C) <= SLimit + K
            BY <3>4, <6>1, <6>2
          <6> QED
            BY <2>2, <4>1, <4>3, <6>3 DEF SRoom
        <5> QED
          BY <5>1, <5>2, <5>3
      <4> QED
        BY <4>2, <4>3
    <3>8. \A t, u \in SEvicting(a)' : t # u => SAware(a, t, u)'
      <4> SUFFICES ASSUME NEW t \in SEvicting(a)', NEW u \in SEvicting(a)', t # u
                   PROVE  SAware(a, t, u)'
        OBVIOUS
      <4>1. SAware(a, t, u) /\ sHeld'[t] = sHeld[t] /\ sHeld'[u] = sHeld[u]
        BY <1>10, <2>3 DEF SCapInv
      <4> QED
        BY <2>1, <4>1 DEF SAware
    <3> QED
      BY <2>2, <3>6, <3>7, <3>8 DEF SCapInv
  <2> QED
    BY <2>5, <2>6
<1> QED
  BY <1>9, <1>10

LEMMA SInvInit == SInit => SInv
<1> SUFFICES ASSUME SInit PROVE SInv
  OBVIOUS
<1>1. /\ SLiveRows = {} /\ sSkipped = {} /\ sOlder = {}
      /\ \A s \in SSids : sRow[s] = SNoRow /\ sCopy[s] = SNoRow /\ sLog[s] = "out"
                          /\ sHeld[s] = {} /\ sVictims[s] = {}
      /\ \A w \in SSwitches : sSw[w] = SNoSwitch
  BY DEF SInit, SLiveRows, SLive
<1>2. SShapes
  <2>1. SNoSwitch \in SSwitchRecord
    BY DEF SNoSwitch, SSwitchRecord, SSwitchPCs
  <2>2. sSw \in [SSwitches -> SSwitchRecord]
    BY <2>1 DEF SInit
  <2>3. \A w \in SSwitches : /\ sSw[w].pc \in SSwitchPCs
                             /\ {sSw[w].from, sSw[w].to} \subseteq SAccounts \cup {SNone}
                             /\ sSw[w].prev \in SGrants \cup {SNone}
                             /\ sSw[w].todo \subseteq SSids
    BY <2>2 DEF SSwitchRecord
  <2> QED
    BY <2>2, <2>3 DEF SShapes, STypeOK, SInit
<1>3. SBindInv
  <2>1. \A s \in SSids : SLoginSound(s) /\ SVictimsSound(s)
    BY <1>1 DEF SLoginSound, SVictimsSound, SBound
  <2>2. \A w \in SSwitches : SSwitchSound(w)
    BY <1>1 DEF SSwitchSound, SNoSwitch
  <2> QED
    BY <1>2, <2>1, <2>2 DEF SBindInv
<1>4. STableInv
  <2>1. SOrdered
    BY <1>1 DEF SOrdered
  <2>2. SLocksSound
    BY <1>1 DEF SLocksSound
  <2> QED
    BY <1>1, <2>1, <2>2, FS_EmptySet DEF STableInv
<1>5. ASSUME NEW a \in SAccounts PROVE SCapInv(a)
  <2>1. SSettled(a) = {} /\ SSkipsOf(a) = {} /\ SEvicting(a) = {}
    BY <1>1 DEF SSettled, SCapped, SLiveOf, SLive, SSkipsOf, SEvicting
  <2>2. Cardinality(SSettled(a)) = 0 /\ Cardinality(SSkipsOf(a)) = 0
    BY <2>1, FS_EmptySet
  <2> QED
    BY <2>1, <2>2, SConstantsAssumption DEF SCapInv
<1> QED
  BY <1>3, <1>4, <1>5 DEF SInv

LEMMA SInvNext == SInv /\ [SNext]_sVars => SInv'
<1> SUFFICES ASSUME SInv, [SNext]_sVars PROVE SInv'
  OBVIOUS
<1>1. SBindInv /\ STableInv /\ STypeOK
  BY DEF SInv, SBindInv, SShapes
<1>2. ASSUME NEW s \in SSids, NEW a \in SAccounts, SLogin(s, a) PROVE SInv'
  BY <1>1, <1>2, SBindLogin, SLoginKeeps DEF SInv
<1>3. ASSUME NEW s \in SSids, SEnforceClaim(s) PROVE SInv'
  <2>1. SBindInv'
    BY <1>1, <1>3, SBindEnforce DEF STableInv
  <2> QED
    BY <1>1, <1>3, <2>1, SClaimKeeps DEF SInv
<1>4. ASSUME NEW s \in SSids, SEnforceCommit(s) PROVE SInv'
  <2>1. SBindInv'
    BY <1>1, <1>4, SBindEnforce DEF STableInv
  <2> QED
    BY <1>1, <1>4, <2>1, SCommitKeeps DEF SInv
<1>5. ASSUME SQuiet, SBindInv' PROVE SInv'
  BY <1>1, <1>5, SQuietKeeps DEF SInv
<1>6. ASSUME NEW s \in SSids, SEnforceClear(s) PROVE SInv'
  <2>1. SBindInv'
    BY <1>1, <1>6, SBindEnforce DEF STableInv
  <2> QED
    BY <1>1, <1>5, <1>6, <2>1, SQuietSteps
<1>7. CASE \/ \E s \in SSids : SProviderLoad(s) \/ SProviderSave(s) \/ SRemoveSession(s)
           \/ \E a \in SAccounts : SRevokeSessions(a)
           \/ UNCHANGED sVars
  <2>1. SBindInv'
    BY <1>1, <1>7, SBindProvider
  <2>2. SQuiet
    BY <1>1, <1>7, SQuietSteps
  <2> QED
    BY <1>5, <2>1, <2>2
<1>8. ASSUME NEW w \in SSwitches,
             SSwitchStep(w) \/ \E g \in SGrants, to \in SAccounts : SSwitchBegin(w, g, to)
      PROVE  SInv'
  <2>1. SBindInv'
    BY <1>1, <1>8, SBindSwitchNext
  <2>2. SQuiet
    BY <1>1, <1>8, SQuietSteps
  <2> QED
    BY <1>5, <2>1, <2>2
<1> QED
  BY <1>2, <1>3, <1>4, <1>6, <1>7, <1>8 DEF SNext

(* What the invariant says once no login of an account is enforcing: all    *)
(* its sessions under the cap are settled.                                  *)
LEMMA SInvSound == SInv => SSessionsSound
<1> SUFFICES ASSUME SInv PROVE SSessionsSound
  OBVIOUS
<1>1. SBindInv /\ STableInv /\ STypeOK
  BY DEF SInv, SBindInv, SShapes
<1>2. SCapHolds
  <2> SUFFICES ASSUME SLimit > 0, NEW a \in SAccounts,
                      \A s \in SSids : sOwner[s] = a => sLog[s] \notin {"claim", "commit"}
               PROVE  Cardinality(SLiveOf(a) \ sMoved)
                        <= SLimit + Cardinality({s \in sSkipped : sOwner[s] = a})
    BY DEF SCapHolds
  <2>1. \A s \in SCapped(a) : sOwner[s] = a /\ s \in SSids
    BY <1>1 DEF SCapped, SLiveOf, STableInv, SLiveRows
  <2>2. SSettled(a) = SLiveOf(a) \ sMoved
    BY <2>1 DEF SSettled, SPending, SCapped
  <2> QED
    BY <2>2 DEF SInv, SCapInv, SSkipsOf
<1>3. SEvictedPowerless
  BY <1>1 DEF SEvictedPowerless, SBindInv, SVictimsSound
<1>4. SGrantOfAccount
  BY <1>1 DEF SGrantOfAccount, SBindInv, SLoginSound, SBound, SLive
<1> QED
  BY <1>1, <1>2, <1>3, <1>4 DEF SSessionsSound

(* Whatever logins, evictions, switches, force-logouts and stale saves      *)
(* interleave, for any number of accounts, sessions and switches and any    *)
(* limit: once no login of an account is enforcing, it has no more sessions *)
(* than the limit and one more for each eviction that skipped locked rows   *)
(* (claimSurplusSessions); a login that returned has left no grant and no   *)
(* token of a session it evicted (deleteSessions); and no session pairs an  *)
(* account with another account's grant (rebindSessionsToAccount).          *)
THEOREM SessionsAlwaysSound == SSpec => []SSessionsSound
<1>1. SInit => SInv
  BY SInvInit
<1>2. SInv /\ [SNext]_sVars => SInv'
  BY SInvNext
<1>3. SInv => SSessionsSound
  BY SInvSound
<1> QED
  BY <1>1, <1>2, <1>3, PTL DEF SSpec

(* A session that was logged out by force had been logged in.               *)
SRevokedKnown == \A s \in sRevoked : s \in SSids /\ sLog[s] # "out"

LEMMA SRevokedKnownNext == SInv /\ SRevokedKnown /\ [SNext]_sVars => SRevokedKnown'
<1> SUFFICES ASSUME SInv, SRevokedKnown, [SNext]_sVars PROVE SRevokedKnown'
  OBVIOUS
<1>1. /\ STypeOK /\ \A s \in SSids : SLoginSound(s)
  BY DEF SInv, SBindInv, SShapes
<1>2. \A s \in SSids : sLog[s] # "out" => sLog'[s] # "out"
  <2>1. sLog' = sLog \/ \E s \in SSids : \E pc \in {"claim", "commit", "clear", "in"} : sLog' = [sLog EXCEPT ![s] = pc]
    BY DEF SNext, sVars, SLogin, SEnforceClaim, SEnforceCommit, SEnforceClear, SProviderLoad, SProviderSave,
       SRemoveSession, SSwitchBegin, SSwitchStep, SIssueGrant, SIssueToken, SRevokeGrant, SRevokeTokens, SRebindLoad,
       SRebindSave, SSwitchSweep, SSwitchRest, SRevokeSessions
  <2> QED
    BY <1>1, <2>1 DEF STypeOK
<1>3. sRevoked' = sRevoked \/ \E a \in SAccounts : sRevoked' = sRevoked \cup SLiveOf(a)
  BY DEF SNext, sVars, SLogin, SEnforceClaim, SEnforceCommit, SEnforceClear, SProviderLoad, SProviderSave,
     SRemoveSession, SSwitchBegin, SSwitchStep, SIssueGrant, SIssueToken, SRevokeGrant, SRevokeTokens, SRebindLoad,
     SRebindSave, SSwitchSweep, SSwitchRest, SRevokeSessions
<1>4. \A a \in SAccounts : \A s \in SLiveOf(a) : s \in SSids /\ sLog[s] # "out"
  BY <1>1 DEF SLiveOf, SLive, SLoginSound
<1> QED
  BY <1>2, <1>3, <1>4 DEF SRevokedKnown

(* For any accounts, sessions and switches, a session that an administrator *)
(* logged out by force (revokeSessions) comes back only by a copy of it     *)
(* that the provider had loaded, or a switch had found, while it was there: *)
(* no login, eviction or other step brings it back.                         *)
THEOREM LogoutUndoneOnlyByCopy == SSpec => SBackOnlyByCopy
<1> DEFINE ByCopy == \A s \in sRevoked : ~SLive(s) /\ SLive(s)' =>
                       sCopy[s] # SNoRow \/ \E w \in SSwitches : s \in sSw[w].todo
<1>1. SInit => SInv /\ SRevokedKnown
  BY SInvInit DEF SInit, SRevokedKnown
<1>2. SInv /\ SRevokedKnown /\ [SNext]_sVars => SInv' /\ SRevokedKnown'
  BY SInvNext, SRevokedKnownNext
<1>3. SInv /\ SRevokedKnown /\ [SNext]_sVars => [ByCopy]_sVars
  <2> SUFFICES ASSUME SInv, SRevokedKnown, SNext, NEW s \in sRevoked, ~SLive(s), SLive(s)'
               PROVE  sCopy[s] # SNoRow \/ \E w \in SSwitches : s \in sSw[w].todo
    OBVIOUS
  <2>1. STypeOK /\ s \in SSids /\ sLog[s] # "out" /\ sRow[s] = SNoRow /\ sRow'[s] # SNoRow
    BY DEF SInv, SBindInv, SShapes, SRevokedKnown, SLive
  <2>2. \A sids, grants : ~SDelete(sids, grants)
    BY <2>1, SDeleteType
  <2>3. \A t \in SSids : \A row : SWriteSession(t, row) => t = s
    BY <2>1 DEF SWriteSession, STypeOK
  <2>4. ~UNCHANGED sRow
    BY <2>1
  <2>5. ASSUME NEW t \in SSids, NEW a \in SAccounts, SLogin(t, a) PROVE FALSE
    BY <2>1, <2>3, <2>5 DEF SLogin
  <2>6. ASSUME NEW t \in SSids, SProviderSave(t) PROVE sCopy[s] # SNoRow
    BY <2>3, <2>6 DEF SProviderSave
  <2>7. ASSUME NEW w \in SSwitches, SRebindSave(w) PROVE s \in sSw[w].todo
    <3>1. sSw[w].todo \subseteq SSids
      BY <2>1, <2>7 DEF STypeOK
    <3> QED
      BY <2>3, <2>4, <2>7, <3>1 DEF SRebindSave
  <2>8. ASSUME NEW t \in SSids
        PROVE  /\ ~SEnforceClaim(t) /\ ~SEnforceCommit(t) /\ ~SEnforceClear(t)
               /\ ~SProviderLoad(t) /\ ~SRemoveSession(t)
    BY <2>2, <2>4 DEF SEnforceClaim, SEnforceCommit, SEnforceClear, SProviderLoad, SRemoveSession, sStore
  <2>9. ASSUME NEW w \in SSwitches, SSwitchStep(w) \/ \E g \in SGrants, to \in SAccounts : SSwitchBegin(w, g, to)
        PROVE  SRebindSave(w)
    BY <2>2, <2>4, <2>9 DEF SSwitchStep, SSwitchBegin, SIssueGrant, SIssueToken, SRevokeGrant, SRevokeTokens,
       SRebindLoad, SSwitchSweep, SDeleteAllForAccount, sStore
  <2>10. \A a \in SAccounts : ~SRevokeSessions(a)
    BY <2>2 DEF SRevokeSessions, SDeleteAllForAccount
  <2> QED
    BY <2>5, <2>6, <2>7, <2>8, <2>9, <2>10 DEF SNext
<1> QED
  BY <1>1, <1>2, <1>3, PTL DEF SSpec, SBackOnlyByCopy
===============================================================================
