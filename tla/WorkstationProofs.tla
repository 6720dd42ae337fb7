-------------------------- MODULE WorkstationProofs --------------------------
(***************************************************************************)
(* Proofs about a workstation: its keys (WorkstationKeys), for any number  *)
(* of commands, codes, principals and keys and any lifetime of a code, and *)
(* the schedule of its probe (WorkstationSchedule), for any number of      *)
(* plans, invocations and edits of the crontab.                            *)
(***************************************************************************)
EXTENDS WorkstationKeys, WorkstationSchedule, SequenceTheorems, WellFoundedInduction, TLAPS

-----------------------------------------------------------------------------
(* Type correctness.                                                       *)

LEMMA RowsAreRows ==
  /\ \A row \in CodeRow : [row EXCEPT !.consumed = TRUE] \in CodeRow
  /\ \A row \in CodeRow, p \in Principals :
       [row EXCEPT !.owner = p, !.approved = TRUE] \in CodeRow
  /\ None \notin CodeRow
  /\ None \notin WorkstationRow
  /\ None \notin Exchange
  BY WorkstationAssumption DEF CodeRow

CommandOK ==
    /\ pc \in [Commands -> Labels]
    /\ code \in [Commands -> Codes \cup {None}]
    /\ key \in [Commands -> Nat]
    /\ \A m \in Commands : pc[m] \in {"poll", "send", "exchanging"} => code[m] # None

LEMMA StepOK ==
  ASSUME CommandOK, NEW m \in Commands, NEW l \in Labels, NEW c \in Codes \cup {None},
         NEW k \in Nat, Step(m, l, c, k),
         l \in {"poll", "send", "exchanging"} => c # None
  PROVE  CommandOK'
<1>1. /\ pc' \in [Commands -> Labels] /\ code' \in [Commands -> Codes \cup {None}]
      /\ key' \in [Commands -> Nat]
  BY DEF CommandOK, Step
<1>2. ASSUME NEW n \in Commands, pc'[n] \in {"poll", "send", "exchanging"}
      PROVE  code'[n] # None
  BY <1>2 DEF CommandOK, Step
<1> QED
  BY <1>1, <1>2 DEF CommandOK

LEMMA DoneOK ==
  ASSUME CommandOK, NEW m \in Commands, Done(m)
  PROVE  CommandOK'
<1>1. "idle" \in Labels /\ "idle" \notin {"poll", "send", "exchanging"}
  BY DEF Labels
<1> QED
  BY <1>1, StepOK DEF Done

LEMMA TypeInductive == TypeOK /\ [Next]_vars => TypeOK'
<1> SUFFICES ASSUME TypeOK, [Next]_vars PROVE TypeOK'
  OBVIOUS
<1> USE DEF TypeOK, Labels, server, command, history
<1>0. CommandOK
  BY DEF CommandOK
<1>1. ASSUME NEW m \in Commands,
             StartLogin(m) \/ WriteCredential(m) \/ StartLogout(m)
             \/ ForgetCredential(m) \/ Interrupt(m)
      PROVE  TypeOK'
  <2>1. CASE StartLogin(m)
    <3>0. PICK l \in {"consent", "pair"} : Step(m, l, None, 0)
      BY <2>1 DEF StartLogin
    <3>1. CommandOK'
      <4>1. l \in Labels /\ l \notin {"poll", "send", "exchanging"} /\ 0 \in Nat
        OBVIOUS
      <4> QED
        BY <1>0, <3>0, <4>1, StepOK
    <3> QED
      BY <2>1, <3>1 DEF StartLogin, CommandOK
  <2>2. CASE StartLogout(m)
    <3>1. CommandOK'
      BY <1>0, <2>2, StepOK DEF StartLogout
    <3> QED
      BY <2>2, <3>1 DEF StartLogout, CommandOK
  <2>3. CASE WriteCredential(m) \/ ForgetCredential(m) \/ Interrupt(m)
    <3>1. CommandOK'
      BY <1>0, <2>3, DoneOK DEF WriteCredential, ForgetCredential, Interrupt
    <3> QED
      BY <2>3, <3>1 DEF WriteCredential, ForgetCredential, Interrupt, CommandOK
  <2> QED
    BY <1>1, <2>1, <2>2, <2>3
<1>2. ASSUME NEW m \in Commands, Poll(m) PROVE TypeOK'
  <2>1. CommandOK'
    BY <1>0, <1>2, StepOK, DoneOK DEF Poll
  <2> QED
    BY <1>2, <2>1 DEF Poll, CommandOK
<1>3. ASSUME NEW m \in Commands, NEW c \in Codes, PairStart(m, c) PROVE TypeOK'
  <2>1. [owner |-> Nobody, expires |-> now + TTL, consumed |-> FALSE,
         pairing |-> TRUE, approved |-> FALSE] \in CodeRow
    BY WorkstationAssumption DEF CodeRow
  <2> QED
    BY <1>3, <2>1, WorkstationAssumption DEF PairStart, CreateCode, Step
<1>4. ASSUME NEW m \in Commands, NEW c \in Codes, NEW p \in Principals, Authorize(m, c, p)
      PROVE  TypeOK'
  <2>1. [owner |-> p, expires |-> now + TTL, consumed |-> FALSE,
         pairing |-> FALSE, approved |-> FALSE] \in CodeRow
    BY WorkstationAssumption DEF CodeRow
  <2> QED
    BY <1>4, <2>1, WorkstationAssumption DEF Authorize, CreateCode, Step
<1>5. ASSUME NEW c \in Codes, NEW p \in Principals, PairApprove(c, p) PROVE TypeOK'
  <2>1. codes' \in [Codes -> CodeRow \cup {None}]
    BY <1>5, RowsAreRows DEF PairApprove
  <2> QED
    BY <1>5, <2>1 DEF PairApprove
<1>6. ASSUME NEW c \in Codes, ~Refused(c), NEW b \in Commands \cup {None}
      PROVE  [by |-> b, code |-> c, owner |-> codes[c].owner] \in Exchange
  BY <1>6 DEF Refused, Exchange, CodeRow
<1>7. ASSUME NEW m \in Commands, ExchangeRead(m) PROVE TypeOK'
  <2>1. code[m] \in Codes
    BY <1>7 DEF ExchangeRead
  <2>2. CommandOK'
    BY <1>0, <1>7, <2>1, StepOK, DoneOK, WorkstationAssumption DEF ExchangeRead
  <2> QED
    BY <1>7, <1>6, <2>1, <2>2 DEF ExchangeRead, CommandOK
<1>8. ASSUME NEW c \in Codes, StrayExchange(c) PROVE TypeOK'
  BY <1>8, <1>6 DEF StrayExchange
<1>9. CASE ExchangeCommit
  <2>1. /\ exchange.code \in Codes /\ exchange.owner \in Principals \cup {Nobody}
        /\ exchange.by \in Commands \cup {None}
    BY <1>9 DEF ExchangeCommit, Exchange
  <2>2. codes' \in [Codes -> CodeRow \cup {None}]
    BY <1>9, <2>1, RowsAreRows DEF ExchangeCommit, Consume, Consumes
  <2>3. minted' \in Seq(Codes) /\ workstation' \in WorkstationRow \cup {None}
    BY <1>9, <2>1 DEF ExchangeCommit, WorkstationRow
  <2>4. \/ UNCHANGED command
        \/ exchange.by \in Commands /\ Done(exchange.by)
        \/ exchange.by \in Commands /\ Step(exchange.by, "write", None, Len(minted) + 1)
    BY <1>9, <2>1 DEF ExchangeCommit
  <2>5. CommandOK'
    <3>1. CASE UNCHANGED command
      BY <1>0, <3>1 DEF CommandOK
    <3>2. CASE exchange.by \in Commands /\ Done(exchange.by)
      BY <1>0, <3>2, DoneOK
    <3>3. CASE exchange.by \in Commands /\ Step(exchange.by, "write", None, Len(minted) + 1)
      <4>1. Len(minted) + 1 \in Nat
        OBVIOUS
      <4> QED
        BY <1>0, <3>3, <4>1, StepOK
    <3> QED
      BY <2>4, <3>1, <3>2, <3>3
  <2> QED
    BY <1>9, <2>2, <2>3, <2>5 DEF ExchangeCommit, CommandOK
<1>10. ConsumeAll \in [Codes -> CodeRow \cup {None}]
  BY RowsAreRows DEF ConsumeAll
<1>11. ASSUME NEW m \in Commands, Revoke(m) PROVE TypeOK'
  <2>1. workstation' \in WorkstationRow \cup {None}
    BY <1>11 DEF Revoke, Live, WorkstationRow
  <2> QED
    BY <1>11, <1>10, <2>1 DEF Revoke, Step
<1>12. CASE DeleteWorkstation
  BY <1>12, <1>10 DEF DeleteWorkstation
<1>13. CASE Evict \/ Tick
  BY <1>13 DEF Evict, Tick
<1>14. CASE Purge
  BY <1>14 DEF Purge
<1>15. CASE UNCHANGED vars
  BY <1>15 DEF vars
<1> QED
  BY <1>1, <1>2, <1>3, <1>4, <1>5, <1>7, <1>8, <1>9, <1>11, <1>12, <1>13, <1>14, <1>15
     DEF Next

\* The tables and every command under way are well typed in every reachable state.
THEOREM TypeCorrect == Spec => []TypeOK
<1>1. Init => TypeOK
  BY DEF Init, TypeOK, Labels
<1> QED
  BY <1>1, TypeInductive, PTL DEF Spec

-----------------------------------------------------------------------------
(* Codes and keys.                                                         *)

\* The steps that leave the codes, the workstation and the history alone.
Quiet ==
    /\ UNCHANGED <<codes, workstation, history>>
    /\ \/ exchange' = exchange
       \/ exchange' = None
       \/ \E b \in Commands \cup {None}, c \in Codes :
            /\ codes[c] # None
            /\ exchange' = [by |-> b, code |-> c, owner |-> codes[c].owner]

\* A new code: of a pairing nobody owns yet, or of the principal who consents.
NewCode(c) ==
    /\ Coordinated /\ UNCHANGED exchange
    /\ c \notin created /\ created' = created \cup {c}
    /\ \E row \in CodeRow :
         /\ codes' = [codes EXCEPT ![c] = row]
         /\ (row.pairing => row.approved) => row.owner \in consent'[c]
    /\ \A d \in Codes : consent[d] \subseteq consent'[d]
    /\ UNCHANGED <<workstation, minted, voided>>

LEMMA StepKinds ==
  ASSUME TypeOK, [Next]_vars
  PROVE  \/ Quiet
         \/ \E c \in Codes : NewCode(c)
         \/ \E c \in Codes, p \in Principals : PairApprove(c, p)
         \/ ExchangeCommit
         \/ \E m \in Commands : Revoke(m) /\ Live(key[m])
         \/ DeleteWorkstation
         \/ Purge
<1> USE DEF TypeOK, server, command, history
<1>1. ASSUME NEW m \in Commands,
             StartLogin(m) \/ Poll(m) \/ WriteCredential(m) \/ StartLogout(m)
             \/ ForgetCredential(m) \/ Interrupt(m)
      PROVE  Quiet
  BY <1>1 DEF StartLogin, Poll, WriteCredential, StartLogout, ForgetCredential, Interrupt,
              Quiet
<1>2. ASSUME NEW m \in Commands, Revoke(m), ~Live(key[m]) PROVE Quiet
  BY <1>2 DEF Revoke, Quiet
<1>3. ASSUME NEW m \in Commands, ExchangeRead(m) PROVE Quiet
  <2>1. code[m] \in Codes
    BY <1>3 DEF ExchangeRead
  <2> QED
    BY <1>3, <2>1 DEF ExchangeRead, Refused, Quiet
<1>4. ASSUME NEW c \in Codes, StrayExchange(c) PROVE Quiet
  BY <1>4 DEF StrayExchange, Refused, Quiet
<1>5. CASE Evict \/ Tick \/ UNCHANGED vars
  BY <1>5 DEF Evict, Tick, vars, Quiet
<1>6. ASSUME NEW m \in Commands, NEW c \in Codes, PairStart(m, c) PROVE NewCode(c)
  <2> DEFINE row == [owner |-> Nobody, expires |-> now + TTL, consumed |-> FALSE,
                     pairing |-> TRUE, approved |-> FALSE]
  <2>1. row \in CodeRow /\ row.pairing /\ ~row.approved
    BY WorkstationAssumption DEF CodeRow
  <2>2. codes' = [codes EXCEPT ![c] = row]
    BY <1>6 DEF PairStart, CreateCode
  <2> QED
    BY <1>6, <2>1, <2>2 DEF PairStart, CreateCode, NewCode
<1>7. ASSUME NEW m \in Commands, NEW c \in Codes, NEW p \in Principals, Authorize(m, c, p)
      PROVE  NewCode(c)
  <2> DEFINE row == [owner |-> p, expires |-> now + TTL, consumed |-> FALSE,
                     pairing |-> FALSE, approved |-> FALSE]
  <2>1. row \in CodeRow /\ row.owner = p
    BY WorkstationAssumption DEF CodeRow
  <2>2. codes' = [codes EXCEPT ![c] = row]
    BY <1>7 DEF Authorize, CreateCode
  <2>3. p \in consent'[c] /\ \A d \in Codes : consent[d] \subseteq consent'[d]
    BY <1>7 DEF Authorize
  <2> QED
    BY <1>7, <2>1, <2>2, <2>3 DEF Authorize, CreateCode, NewCode
<1> QED
  BY <1>1, <1>2, <1>3, <1>4, <1>5, <1>6, <1>7 DEF Next

\* A code that minted a key, or that was voided, is consumed or purged for good.
Spent(c) == c \in created /\ (codes[c] # None => codes[c].consumed)

CodeInv ==
    /\ \A c \in Codes : codes[c] # None => c \in created
    /\ \A i \in 1..Len(minted) : Spent(minted[i])
    /\ \A c \in voided : Spent(c)
    /\ CodeMintsOnce

\* The mint of a key: by a code neither consumed nor purged.
LEMMA MintsUnspent ==
  ASSUME TypeOK, ExchangeCommit
  PROVE  /\ exchange.code \in Codes
         /\ \/ minted' = minted
            \/ /\ minted' = Append(minted, exchange.code)
               /\ ~Spent(exchange.code)
               /\ codes[exchange.code] # None
               /\ codes' = Consume(exchange.code)
         /\ \/ codes' = codes
            \/ codes[exchange.code] # None /\ codes' = Consume(exchange.code)
<1>1. exchange.code \in Codes
  BY DEF TypeOK, ExchangeCommit, Exchange
<1>2. \/ minted' = minted
      \/ /\ minted' = Append(minted, exchange.code)
         /\ Consumes(codes[exchange.code])
         /\ codes' = Consume(exchange.code)
  BY DEF ExchangeCommit
<1>3. \/ codes' = codes
      \/ Consumes(codes[exchange.code]) /\ codes' = Consume(exchange.code)
  BY DEF ExchangeCommit
<1> QED
  BY <1>1, <1>2, <1>3 DEF Consumes, Spent

LEMMA ConsumeSpends ==
  ASSUME TypeOK, NEW c \in Codes, codes[c] # None, codes' = Consume(c)
  PROVE  /\ codes'[c] # None /\ codes'[c].consumed
         /\ codes'[c].owner = codes[c].owner
         /\ codes'[c].pairing = codes[c].pairing
         /\ codes'[c].approved = codes[c].approved
         /\ \A d \in Codes : d # c => codes'[d] = codes[d]
<1>1. codes[c] \in CodeRow
  BY DEF TypeOK
<1>2. /\ codes'[c] = [codes[c] EXCEPT !.consumed = TRUE]
      /\ \A d \in Codes : d # c => codes'[d] = codes[d]
  BY DEF TypeOK, Consume
<1>3. codes'[c] # None
  BY <1>1, <1>2, RowsAreRows
<1> QED
  BY <1>1, <1>2, <1>3 DEF CodeRow

LEMMA CodeInductive ==
  ASSUME TypeOK, CodeInv, [Next]_vars
  PROVE  CodeInv'
<1> USE DEF TypeOK, CodeInv
<1>0. \A i \in 1..Len(minted) : minted[i] \in Codes
  OBVIOUS
<1>1. ASSUME UNCHANGED minted,
             \A c \in Codes : codes'[c] # None => c \in created',
             \A c \in Codes : Spent(c) => Spent(c)',
             \A c \in voided' : Spent(c)'
      PROVE  CodeInv'
  BY <1>0, <1>1 DEF CodeMintsOnce
<1>2. CASE Quiet
  BY <1>1, <1>2 DEF Quiet, history, Spent
<1>3. ASSUME NEW c \in Codes, NewCode(c) PROVE CodeInv'
  BY <1>1, <1>3 DEF NewCode, Spent
<1>4. ASSUME NEW c \in Codes, NEW p \in Principals, PairApprove(c, p) PROVE CodeInv'
  <2>1. \A d \in Codes : codes[d] = None => codes'[d] = None
    BY <1>4 DEF PairApprove
  <2>2. \A d \in Codes : Spent(d) => codes'[d] = codes[d]
    BY <1>4 DEF PairApprove, Spent
  <2> QED
    BY <1>1, <1>4, <2>1, <2>2 DEF PairApprove, Spent
<1>5. CASE ExchangeCommit
  <2>0. PICK c \in Codes : c = exchange.code
    BY <1>5, MintsUnspent
  <2>1. UNCHANGED <<created, voided>>
    BY <1>5 DEF ExchangeCommit
  <2>2. /\ \A d \in Codes : codes'[d] # None => codes[d] # None
        /\ \A d \in Codes : Spent(d) => Spent(d)'
    BY <1>5, <2>1, MintsUnspent, ConsumeSpends DEF Spent
  <2>3. CASE minted' = minted
    BY <1>1, <2>1, <2>2, <2>3
  <2>4. CASE minted' # minted
    <3>1. /\ c \in Codes /\ minted' = Append(minted, c) /\ ~Spent(c)
          /\ codes[c] # None /\ codes' = Consume(c)
      BY <1>5, <2>0, <2>4, MintsUnspent
    <3>2. /\ Len(minted') = Len(minted) + 1 /\ minted'[Len(minted) + 1] = c
          /\ \A i \in 1..Len(minted) : minted'[i] = minted[i]
          /\ Len(minted) \in Nat
      BY <3>1
    <3>3. \A i \in 1..Len(minted') : i \in 1..Len(minted) \/ i = Len(minted) + 1
      BY <3>2
    <3>4. Spent(c)'
      <4>1. codes'[c] # None /\ codes'[c].consumed /\ c \in created
        BY <3>1, ConsumeSpends
      <4> QED
        BY <2>1, <4>1 DEF Spent
    <3>5. ASSUME NEW i \in 1..Len(minted) PROVE minted[i] # c
      <4>1. Spent(minted[i])
        BY <3>5
      <4> QED
        BY <3>1, <4>1 DEF Spent
    <3>6. CodeMintsOnce'
      <4> SUFFICES ASSUME NEW i \in 1..Len(minted'), NEW j \in 1..Len(minted'),
                          minted'[i] = minted'[j]
                   PROVE  i = j
        BY DEF CodeMintsOnce
      <4>1. i \in 1..Len(minted) /\ j \in 1..Len(minted) => i = j
        BY <3>2 DEF CodeMintsOnce
      <4> QED
        BY <3>2, <3>3, <3>5, <4>1
    <3>7. ASSUME NEW i \in 1..Len(minted') PROVE Spent(minted[i])'
      <4>1. CASE i \in 1..Len(minted)
        <5>1. Spent(minted[i]) /\ minted[i] \in Codes /\ minted'[i] = minted[i]
          BY <1>0, <3>2, <4>1
        <5> QED
          BY <2>2, <5>1 DEF Spent
      <4>2. CASE i = Len(minted) + 1
        BY <3>2, <3>4, <4>2 DEF Spent
      <4> QED
        BY <3>3, <4>1, <4>2
    <3> QED
      BY <2>1, <2>2, <3>6, <3>7
  <2> QED
    BY <2>3, <2>4
<1>6. CASE DeleteWorkstation \/ \E m \in Commands : Revoke(m) /\ Live(key[m])
  <2>1. codes' = ConsumeAll /\ created' = created /\ minted' = minted
        /\ voided' = voided \cup created
    BY <1>6 DEF DeleteWorkstation, Revoke
  <2>2. \A d \in Codes : codes'[d] # None => codes[d] # None /\ codes'[d].consumed
    BY <2>1 DEF ConsumeAll, CodeRow
  <2> QED
    BY <1>1, <2>1, <2>2 DEF Spent
<1>7. CASE Purge
  <2>1. \A d \in Codes : codes'[d] = None \/ codes'[d] = codes[d]
    BY <1>7 DEF Purge
  <2> QED
    BY <1>1, <1>7, <2>1 DEF Purge, history, Spent
<1> QED
  BY <1>2, <1>3, <1>4, <1>5, <1>6, <1>7, StepKinds

LEMMA CodeInvariant == Spec => []CodeInv
<1>1. Init => CodeInv
  BY DEF Init, CodeInv, CodeMintsOnce
<1>2. TypeOK /\ CodeInv /\ [Next]_vars => CodeInv'
  BY CodeInductive
<1> QED
  BY <1>1, <1>2, TypeCorrect, PTL DEF Spec

\* The exchange route hands out at most one key per authorization code, however often
\* the request is replayed and whatever login, purge or revocation races it.
THEOREM CodesMintOnce == Spec => []CodeMintsOnce
<1>1. CodeInv => CodeMintsOnce
  BY DEF CodeInv
<1> QED
  BY <1>1, CodeInvariant, PTL

\* No code that existed at a revocation or a deletion ever yields a key after it.
THEOREM VoidedCodesStayPowerless == Spec => [][VoidedCodesPowerless]_vars
<1>1. TypeOK /\ CodeInv /\ [Next]_vars => [VoidedCodesPowerless]_vars
  <2> SUFFICES ASSUME TypeOK, CodeInv, [Next]_vars, minted' # minted
               PROVE  minted'[Len(minted')] \notin voided
    BY DEF VoidedCodesPowerless
  <2>1. ExchangeCommit
    BY StepKinds DEF Quiet, history, NewCode, PairApprove, Revoke, DeleteWorkstation, Purge
  <2>2. exchange.code \in Codes /\ minted' = Append(minted, exchange.code)
        /\ ~Spent(exchange.code)
    BY <2>1, MintsUnspent
  <2>3. minted'[Len(minted')] = exchange.code
    BY <2>2 DEF TypeOK
  <2> QED
    BY <2>2, <2>3 DEF CodeInv
<1> QED
  BY <1>1, TypeCorrect, CodeInvariant, PTL DEF Spec

-----------------------------------------------------------------------------
(* Owners.                                                                 *)

\* A code that may be consumed belongs to somebody who consented to it.
Consented ==
    \A c \in Codes :
      codes[c] # None /\ (codes[c].pairing => codes[c].approved) => codes[c].owner \in consent[c]

\* Nobody re-owns the code of the exchange under way.
OwnerStable ==
    exchange # None /\ codes[exchange.code] # None
      => codes[exchange.code].owner = exchange.owner

\* The key of the row was minted.
KeyMinted == workstation # None => workstation.key \in 1..Len(minted)

OwnerInv == Consented /\ OwnerStable /\ KeyMinted /\ EnrolledByConsent

LEMMA OwnerInductive ==
  ASSUME TypeOK, OwnerInv, [Next]_vars
  PROVE  OwnerInv'
<1> USE DEF TypeOK, OwnerInv
<1>0. workstation # None => minted[workstation.key] \in Codes
  BY DEF KeyMinted
<1>1. CASE Quiet
  <2>1. Consented' /\ KeyMinted' /\ EnrolledByConsent'
    BY <1>1 DEF Quiet, history, Consented, KeyMinted, EnrolledByConsent
  <2>2. OwnerStable'
    BY <1>1 DEF Quiet, OwnerStable
  <2> QED
    BY <2>1, <2>2
<1>2. ASSUME NEW c \in Codes, NewCode(c) PROVE OwnerInv'
  <2>1. PICK row \in CodeRow :
          /\ codes' = [codes EXCEPT ![c] = row]
          /\ (row.pairing => row.approved) => row.owner \in consent'[c]
    BY <1>2 DEF NewCode
  <2>2. /\ UNCHANGED <<workstation, exchange, minted>> /\ exchange = None
        /\ \A d \in Codes : consent[d] \subseteq consent'[d]
    BY <1>2 DEF NewCode, Coordinated
  <2>3. Consented'
    BY <2>1, <2>2 DEF Consented
  <2> QED
    BY <1>0, <2>2, <2>3 DEF OwnerStable, KeyMinted, EnrolledByConsent
<1>3. ASSUME NEW c \in Codes, NEW p \in Principals, PairApprove(c, p) PROVE OwnerInv'
  <2>1. /\ UNCHANGED <<workstation, exchange, minted>> /\ exchange = None
        /\ p \in consent'[c] /\ \A d \in Codes : consent[d] \subseteq consent'[d]
    BY <1>3 DEF PairApprove, Coordinated
  <2>2. /\ codes'[c].owner = p
        /\ \A d \in Codes : d # c => codes'[d] = codes[d]
    BY <1>3 DEF PairApprove, CodeRow
  <2>3. Consented'
    BY <2>1, <2>2 DEF Consented
  <2> QED
    BY <1>0, <2>1, <2>3 DEF OwnerStable, KeyMinted, EnrolledByConsent
<1>4. CASE ExchangeCommit
  <2>0. PICK c \in Codes : c = exchange.code
    BY <1>4, MintsUnspent
  <2>1. UNCHANGED consent /\ exchange' = None
    BY <1>4 DEF ExchangeCommit
  <2>2. Consented'
    BY <1>4, <2>0, <2>1, MintsUnspent, ConsumeSpends DEF Consented
  <2>3. CASE UNCHANGED <<workstation, minted>>
    BY <2>1, <2>2, <2>3 DEF OwnerStable, KeyMinted, EnrolledByConsent
  <2>4. CASE ~UNCHANGED <<workstation, minted>>
    <3>1. /\ minted' = Append(minted, c)
          /\ workstation' = [owner |-> exchange.owner, key |-> Len(minted) + 1, revoked |-> FALSE]
          /\ Consumes(codes[c]) /\ codes[c].owner = exchange.owner
      BY <1>4, <2>0, <2>4 DEF ExchangeCommit, Mints
    <3>2. Len(minted') = Len(minted) + 1 /\ minted'[Len(minted) + 1] = c /\ Len(minted) \in Nat
      BY <3>1
    <3>3. exchange.owner \in consent[c]
      BY <3>1 DEF Consented, Consumes
    <3>4. EnrolledByConsent'
      BY <2>1, <3>1, <3>2, <3>3 DEF EnrolledByConsent
    <3>5. KeyMinted'
      BY <3>1, <3>2 DEF KeyMinted
    <3> QED
      BY <2>1, <2>2, <3>4, <3>5 DEF OwnerStable
  <2> QED
    BY <2>3, <2>4
<1>5. CASE DeleteWorkstation \/ \E m \in Commands : Revoke(m) /\ Live(key[m])
  <2>1. codes' = ConsumeAll /\ UNCHANGED <<consent, minted>> /\ exchange = None /\ exchange' = None
    BY <1>5 DEF DeleteWorkstation, Revoke, Coordinated
  <2>2. \/ workstation' = None
        \/ /\ workstation # None /\ workstation'.owner = workstation.owner
           /\ workstation'.key = workstation.key
    BY <1>5 DEF DeleteWorkstation, Revoke, Live, WorkstationRow
  <2>3. Consented'
    BY <2>1 DEF Consented, ConsumeAll, CodeRow
  <2> QED
    BY <2>1, <2>2, <2>3 DEF OwnerStable, KeyMinted, EnrolledByConsent
<1>6. CASE Purge
  <2>1. \A d \in Codes : codes'[d] = None \/ codes'[d] = codes[d]
    BY <1>6 DEF Purge
  <2>2. exchange # None => exchange.code \in Codes
    BY DEF Exchange
  <2> QED
    BY <1>6, <2>1, <2>2
       DEF Purge, history, Consented, OwnerStable, KeyMinted, EnrolledByConsent
<1> QED
  BY <1>1, <1>2, <1>3, <1>4, <1>5, <1>6, StepKinds

LEMMA OwnerInvariant == Spec => []OwnerInv
<1>1. Init => OwnerInv
  BY DEF Init, OwnerInv, Consented, OwnerStable, KeyMinted, EnrolledByConsent
<1>2. TypeOK /\ OwnerInv /\ [Next]_vars => OwnerInv'
  BY OwnerInductive
<1> QED
  BY <1>1, <1>2, TypeCorrect, PTL DEF Spec

\* A workstation belongs to a principal who consented to the code its key came from.
THEOREM EnrollmentNeedsConsent == Spec => []EnrolledByConsent
<1>1. OwnerInv => EnrolledByConsent
  BY DEF OwnerInv
<1> QED
  BY <1>1, OwnerInvariant, PTL

\* The exchange that consumes its code finds a workstation row to answer with.
THEOREM ConsumedCodesHaveRow == Spec => [][ConsumedCodeHasRow]_vars
<1>1. TypeOK /\ OwnerInv /\ [Next]_vars => [ConsumedCodeHasRow]_vars
  <2> SUFFICES ASSUME TypeOK, OwnerInv, [Next]_vars, exchange # None, exchange' = None,
                      codes'[exchange.code] # codes[exchange.code]
               PROVE  workstation' # None
    BY DEF ConsumedCodeHasRow
  <2>1. CASE ExchangeCommit
    <3>1. Consumes(codes[exchange.code])
      BY <2>1 DEF ExchangeCommit
    <3>2. codes[exchange.code].owner = exchange.owner
      BY <3>1 DEF OwnerInv, OwnerStable, Consumes
    <3>3. CASE Mints(exchange)
      <4>1. workstation' = [owner |-> exchange.owner, key |-> Len(minted) + 1, revoked |-> FALSE]
        BY <2>1, <3>1, <3>3 DEF ExchangeCommit
      <4>2. workstation' \in WorkstationRow
        <5>1. exchange.owner \in Principals \cup {Nobody}
          BY DEF TypeOK, Exchange
        <5>2. Len(minted) + 1 \in Nat \ {0}
          BY DEF TypeOK
        <5> QED
          BY <4>1, <5>1, <5>2 DEF WorkstationRow
      <4> QED
        BY <4>2, RowsAreRows
    <3>4. CASE ~Mints(exchange)
      BY <2>1, <3>2, <3>4 DEF ExchangeCommit, Mints
    <3> QED
      BY <3>3, <3>4
  <2>2. CASE Purge
    BY <2>2 DEF Purge
  <2> QED
    BY <2>1, <2>2, StepKinds
       DEF Quiet, NewCode, PairApprove, Revoke, DeleteWorkstation, Coordinated
<1> QED
  BY <1>1, TypeCorrect, OwnerInvariant, PTL DEF Spec

\* For any commands, codes and principals: a code mints one key, for a workstation whose
\* owner consented to it.
THEOREM CodesAreGuarded == Spec => []CodesGuarded
  BY CodesMintOnce, EnrollmentNeedsConsent, PTL DEF CodesGuarded

\* For any commands, codes and principals: an exchange spends no voided code and finds the
\* row that it answers with.
THEOREM ExchangesAreSound == Spec => ExchangesSound
  BY VoidedCodesStayPowerless, ConsumedCodesHaveRow, PTL DEF ExchangesSound

-----------------------------------------------------------------------------
(* Logout.                                                                 *)

\* The keys in use were minted, so that no later key is one of them; the key a logout
\* read is dead once it has been revoked.
LogoutInv ==
    /\ credential <= Len(minted)
    /\ \A m \in Commands :
         /\ key[m] <= Len(minted)
         /\ pc[m] = "forget" => ~Live(key[m])
         /\ pc[m] = "write" => key[m] # 0

LEMMA LogoutInductive ==
  ASSUME TypeOK, LogoutInv, [Next]_vars
  PROVE  LogoutInv'
<1> USE DEF TypeOK, LogoutInv, server, command, history
<1>0. Len(minted) \in Nat
  OBVIOUS
<1>1. ASSUME NEW m \in Commands,
             StartLogin(m) \/ Poll(m) \/ WriteCredential(m) \/ StartLogout(m)
             \/ ForgetCredential(m) \/ Interrupt(m) \/ ExchangeRead(m)
      PROVE  LogoutInv'
  <2>1. UNCHANGED <<workstation, minted>>
    BY <1>1 DEF StartLogin, Poll, WriteCredential, StartLogout, ForgetCredential, Interrupt,
                ExchangeRead
  <2>2. credential' <= Len(minted) /\ key'[m] <= Len(minted)
    BY <1>0, <1>1 DEF StartLogin, Poll, WriteCredential, StartLogout, ForgetCredential,
                      Interrupt, ExchangeRead, Step, Done
  <2>3. /\ pc'[m] \notin {"forget", "write"}
        /\ \A n \in Commands \ {m} : pc'[n] = pc[n] /\ key'[n] = key[n]
    BY <1>1 DEF StartLogin, Poll, WriteCredential, StartLogout, ForgetCredential,
                Interrupt, ExchangeRead, Step, Done
  <2> QED
    BY <2>1, <2>2, <2>3 DEF Live
<1>2. ASSUME NEW m \in Commands, NEW c \in Codes,
             PairStart(m, c) \/ \E p \in Principals : Authorize(m, c, p)
      PROVE  LogoutInv'
  BY <1>0, <1>2 DEF PairStart, Authorize, CreateCode, Step, Live
<1>3. ASSUME NEW m \in Commands, Revoke(m) PROVE LogoutInv'
  <2>1. /\ UNCHANGED <<credential, minted>> /\ key' = key
        /\ \A n \in Commands \ {m} : pc'[n] = pc[n]
        /\ pc'[m] = "forget"
    BY <1>3 DEF Revoke, Step
  <2>2. IF Live(key[m])
        THEN workstation'.revoked
        ELSE workstation' = workstation
    BY <1>3 DEF Revoke, Live, WorkstationRow
  <2>3. ~Live(key[m])'
    BY <2>1, <2>2 DEF Live
  <2>4. \A k \in Nat : ~Live(k) => ~Live(k)'
    BY <2>2 DEF Live
  <2> QED
    BY <2>1, <2>3, <2>4
<1>4. CASE ExchangeCommit
  <2>1. UNCHANGED credential /\ Len(minted') \in {Len(minted), Len(minted) + 1}
    BY <1>4 DEF ExchangeCommit, Exchange
  <2>2. workstation' = workstation \/ workstation'.key = Len(minted) + 1
    BY <1>4 DEF ExchangeCommit
  <2>3. ASSUME NEW m \in Commands
        PROVE  \/ pc'[m] = pc[m] /\ key'[m] = key[m]
               \/ pc'[m] = "idle" /\ key'[m] = 0
               \/ pc'[m] = "write" /\ key'[m] = Len(minted') /\ key'[m] # 0
    BY <1>4 DEF ExchangeCommit, Exchange, Step, Done
  <2> QED
    BY <1>0, <2>1, <2>2, <2>3 DEF Live
<1>5. CASE DeleteWorkstation
  BY <1>5 DEF DeleteWorkstation, Live
<1>6. ASSUME NEW c \in Codes,
             StrayExchange(c) \/ \E p \in Principals : PairApprove(c, p)
      PROVE  LogoutInv'
  BY <1>6 DEF StrayExchange, PairApprove, Live
<1>7. CASE Evict \/ Purge \/ Tick \/ UNCHANGED vars
  BY <1>7 DEF Evict, Purge, Tick, vars, Live
<1> QED
  BY <1>1, <1>2, <1>3, <1>4, <1>5, <1>6, <1>7 DEF Next

\* Logout removes a credential whose key works only when a login replaced the file
\* after the logout had read it: a refusal, a lost answer or an interruption keeps it.
THEOREM LogoutKeepsLiveKey == Spec => LogoutForgetsDeadKey
<1>1. Init => LogoutInv
  BY DEF Init, LogoutInv
<1>2. TypeOK /\ LogoutInv /\ [Next]_vars => LogoutInv'
  BY LogoutInductive
<1> DEFINE A == credential # 0 /\ credential' = 0 /\ Live(credential)
                => \E m \in Commands : pc[m] = "forget" /\ key[m] # credential
<1>3. TypeOK /\ LogoutInv /\ [Next]_vars => [A]_vars
  <2> SUFFICES ASSUME TypeOK, LogoutInv, Next, credential # 0, credential' = 0, Live(credential)
               PROVE  \E m \in Commands : pc[m] = "forget" /\ key[m] # credential
    BY DEF vars
  <2>1. ASSUME NEW m \in Commands, ForgetCredential(m)
        PROVE  pc[m] = "forget" /\ key[m] # credential
    BY <2>1 DEF ForgetCredential, LogoutInv
  <2>2. ASSUME NEW m \in Commands, WriteCredential(m) PROVE FALSE
    BY <2>2 DEF WriteCredential, LogoutInv
  <2> QED
    BY <2>1, <2>2
       DEF Next, StartLogin, Poll, ExchangeRead, StartLogout, Revoke, Interrupt, PairStart,
           Authorize, StrayExchange, PairApprove, ExchangeCommit, DeleteWorkstation, Evict,
           Purge, Tick
<1> QED
  BY <1>1, <1>2, <1>3, TypeCorrect, PTL DEF Spec, LogoutForgetsDeadKey

-----------------------------------------------------------------------------
(****************************************************************************)
(* The schedule: what an installation, its rollback and a removal leave.    *)
(****************************************************************************)

-----------------------------------------------------------------------------
(* What an invocation has before it, from each of its steps on.            *)

Fields == {"service", "timer"}

CommandNames == {"bootout?", "bootstrap", "enable", "daemon-reload", "enable-now", "create",
             "battery", "bootout", "disable-now", "delete", "daemon-reload?"}

Steps == ({"write", "restore", "remove"} \X Fields)
         \cup ({"run", "try", "unregister"} \X CommandNames)
         \cup {<<"put-back", "task">>}
         \cup ({"read", "rewrite"} \X {"install", "remove"})

\* launchd: installation, restoration, taking down, removal.
LI4 == <<<<"write", "timer">>, <<"run", "bootout?">>, <<"run", "bootstrap">>, <<"run", "enable">>>>
LI3 == <<<<"run", "bootout?">>, <<"run", "bootstrap">>, <<"run", "enable">>>>
LI2 == <<<<"run", "bootstrap">>, <<"run", "enable">>>>
LI1 == <<<<"run", "enable">>>>
LR4 == <<<<"restore", "timer">>, <<"try", "bootout?">>, <<"try", "bootstrap">>, <<"try", "enable">>>>
LR3 == <<<<"try", "bootout?">>, <<"try", "bootstrap">>, <<"try", "enable">>>>
LR2 == <<<<"try", "bootstrap">>, <<"try", "enable">>>>
LR1 == <<<<"try", "enable">>>>
LD2 == <<<<"try", "bootout">>, <<"remove", "timer">>>>
LX2 == <<<<"unregister", "bootout">>, <<"remove", "timer">>>>
RT1 == <<<<"remove", "timer">>>>

\* systemd.
SI4 == <<<<"write", "service">>, <<"write", "timer">>, <<"run", "daemon-reload">>,
         <<"run", "enable-now">>>>
SI3 == <<<<"write", "timer">>, <<"run", "daemon-reload">>, <<"run", "enable-now">>>>
SI2 == <<<<"run", "daemon-reload">>, <<"run", "enable-now">>>>
SI1 == <<<<"run", "enable-now">>>>
SR4 == <<<<"restore", "service">>, <<"restore", "timer">>, <<"try", "daemon-reload">>,
         <<"try", "enable-now">>>>
SR3 == <<<<"restore", "timer">>, <<"try", "daemon-reload">>, <<"try", "enable-now">>>>
SR2 == <<<<"try", "daemon-reload">>, <<"try", "enable-now">>>>
SR1 == <<<<"try", "enable-now">>>>
SD3 == <<<<"try", "disable-now">>, <<"remove", "service">>, <<"remove", "timer">>>>
SD2 == <<<<"remove", "service">>, <<"remove", "timer">>>>
SX4 == <<<<"unregister", "disable-now">>, <<"remove", "service">>, <<"remove", "timer">>,
         <<"try", "daemon-reload?">>>>
SX3 == <<<<"remove", "service">>, <<"remove", "timer">>, <<"try", "daemon-reload?">>>>
SX2 == <<<<"remove", "timer">>, <<"try", "daemon-reload?">>>>
SX1 == <<<<"try", "daemon-reload?">>>>

\* Windows.
WI2 == <<<<"run", "create">>, <<"run", "battery">>>>
WI1 == <<<<"run", "battery">>>>
WP1 == <<<<"put-back", "task">>>>
WD1 == <<<<"try", "delete">>>>
WX1 == <<<<"unregister", "delete">>>>

\* crontab.
CRI == <<<<"read", "install">>>>
CWI == <<<<"rewrite", "install">>>>
CRR == <<<<"read", "remove">>>>
CWR == <<<<"rewrite", "remove">>>>

-----------------------------------------------------------------------------
(* The inductive invariant.                                                *)

Contents == (0..PlanCount) \cup {TORN}

Machine == [service : Contents, timer : Contents, known : Contents, active : BOOLEAN,
            task : Contents, battery : BOOLEAN]

Invocation == [at : {"idle", "install", "remove", "rollback", "cron"},
               backend : Backends \cup {"none"}, plan : Contents, todo : Seq(Steps),
               before : Machine, table : Seq(Int), read : Seq(Int), clean : BOOLEAN,
               result : {"none", "install", "remove", "cron", "error", "unwritten",
                         "unrecorded"}]

ScheduleTypeOK ==
    /\ native \in Natives /\ os \in Machine
    /\ crontab \in Seq(Int) /\ lines \in Seq(Nat)
    /\ scheduleFile \in {"none", "cron", native}
    /\ cli \in Invocation /\ cli.backend \in {"none", "cron", native}
    /\ intact \in BOOLEAN /\ undisturbed \in BOOLEAN
    /\ setups \in Nat /\ edits \in Nat

\* The steps of an installation, of its rollback and of a removal.
Forth == ({"write"} \X Fields) \cup ({"run"} \X CommandNames)
Back == ({"restore", "remove"} \X Fields) \cup ({"try"} \X CommandNames) \cup {<<"put-back", "task">>}
Off == ({"remove"} \X Fields) \cup ({"unregister", "try"} \X CommandNames)

\* Which invocation may be under way, given the record.
Placed ==
    /\ cli.at \in {"install", "rollback"} =>
         cli.backend = native /\ scheduleFile \in {"none", native}
    /\ cli.at = "install" => cli.plan \in Plans
    /\ cli.at = "remove" => cli.backend = scheduleFile /\ scheduleFile # "none"
    /\ cli.at = "cron" => cli.backend = "cron" /\ scheduleFile \in {"none", "cron"}
    /\ cli.at = "cron" => cli.todo \in {CRI, CWI, <<>>}
    /\ cli.at = "install" => cli.todo \in Seq(Forth)
    /\ cli.at = "rollback" => cli.todo \in Seq(Back)
    /\ cli.at = "remove" =>
         IF cli.backend = "cron" THEN cli.todo \in {CRR, CWR, <<>>} ELSE cli.todo \in Seq(Off)
    /\ intact => cli.clean

\* What the backend of this machine does not touch is as it was.
Apart(o, b) ==
    /\ native = "launchd" => o.service = b.service /\ o.task = b.task /\ o.battery = b.battery
    /\ native = "systemd" => o.task = b.task /\ o.battery = b.battery
    /\ native = "windows" => /\ o.service = b.service /\ o.timer = b.timer
                             /\ o.known = b.known /\ o.active = b.active

\* An installation, step by step; while it writes its files, what was loaded is still loaded.
Installing(todo, o, b, p) ==
    /\ native = "launchd" =>
         \/ todo = LI4 /\ o.known = b.known /\ o.active = b.active
         \/ todo \in {LI3, LI2} /\ o.timer = p
         \/ todo \in {LI1, <<>>} /\ o.timer = p /\ o.active /\ o.known = p
    /\ native = "systemd" =>
         \/ todo = SI4 /\ o.known = b.known /\ o.active = b.active
         \/ todo = SI3 /\ o.service = p /\ o.known = b.known /\ o.active = b.active
         \/ todo = SI2 /\ o.service = p /\ o.timer = p
         \/ todo = SI1 /\ o.service = p /\ o.timer = p /\ o.known = p
         \/ todo = <<>> /\ o.service = p /\ o.timer = p /\ o.known = p /\ o.active
    /\ native = "windows" =>
         \/ todo = WI2 /\ o.task = b.task /\ o.battery = b.battery
         \/ todo = WI1 /\ o.task = p
         \/ todo = <<>> /\ o.task = p /\ o.battery

\* The way back to a machine that had nothing.
Clearing(todo, o) ==
    /\ native = "launchd" =>
         \/ todo = LD2
         \/ todo = RT1 /\ ~o.active
         \/ todo = <<>> /\ ~o.active /\ o.timer = 0
    /\ native = "systemd" =>
         \/ todo = SD3
         \/ todo = SD2 /\ ~o.active
         \/ todo = RT1 /\ ~o.active /\ o.service = 0
         \/ todo = <<>> /\ ~o.active /\ o.service = 0 /\ o.timer = 0
    /\ native = "windows" =>
         \/ todo = WD1 /\ (o.task = 0 => ~o.battery)
         \/ todo = <<>> /\ o.task = 0 /\ ~o.battery

\* The way back to a schedule that worked.
Restoring(todo, o, b) ==
    /\ native = "launchd" =>
         \/ todo = LR4
         \/ todo = LR3 /\ o.timer = b.timer
         \/ todo = LR2 /\ o.timer = b.timer /\ ~o.active
         \/ todo \in {LR1, <<>>} /\ o.timer = b.timer /\ o.active /\ o.known = b.timer
    /\ native = "systemd" =>
         \/ todo = SR4
         \/ todo = SR3 /\ o.service = b.service
         \/ todo = SR2 /\ o.service = b.service /\ o.timer = b.timer
         \/ todo = SR1 /\ o.service = b.service /\ o.timer = b.timer /\ o.known = b.service
         \/ todo = <<>> /\ o.service = b.service /\ o.timer = b.timer /\ o.known = b.service
                        /\ o.active
    /\ native = "windows" =>
         \/ todo = WP1
         \/ todo = <<>> /\ o.task = b.task /\ o.battery = b.battery

\* The removal of a schedule.
Removing(todo, o) ==
    /\ native = "launchd" =>
         \/ todo = LX2
         \/ todo = RT1 /\ ~o.active
         \/ todo = <<>> /\ ~o.active /\ o.timer = 0
    /\ native = "systemd" =>
         \/ todo = SX4
         \/ todo = SX3 /\ ~o.active
         \/ todo = SX2 /\ ~o.active /\ o.service = 0
         \/ todo \in {SX1, <<>>} /\ ~o.active /\ o.service = 0 /\ o.timer = 0
    /\ native = "windows" =>
         \/ todo = WX1 /\ o.task # 0
         \/ todo = <<>> /\ o.task = 0 /\ ~o.battery

Blank(o) == View(o) = Bare
Working(o) == \E p \in Plans : Works(native, o, p)

InstallPoints ==
    cli.at = "install" => Apart(os, cli.before) /\ Installing(cli.todo, os, cli.before, cli.plan)

RollbackPoints ==
    cli.at = "rollback" /\ cli.clean =>
      /\ Blank(cli.before) => Apart(os, cli.before) /\ Clearing(cli.todo, os)
      /\ Working(cli.before) => Apart(os, cli.before) /\ Restoring(cli.todo, os, cli.before)

RemovalPoints ==
    cli.at = "remove" /\ cli.backend = native /\ intact =>
      Apart(os, cli.before) /\ Removing(cli.todo, os)

\* What the record says of a machine.
Recorded(o) ==
    IF scheduleFile = native
    THEN /\ Working(o)
         /\ native = "launchd" => o.service = 0 /\ o.task = 0 /\ ~o.battery
         /\ native = "systemd" => o.task = 0 /\ ~o.battery
         /\ native = "windows" => o.service = 0 /\ o.timer = 0 /\ ~o.active
    ELSE Blank(o)

RecordKept ==
    intact => IF cli.at = "idle" \/ cli.backend = "cron" THEN Recorded(os)
              ELSE Recorded(cli.before)

\* Whether the block is in the table, but for the step that changes it.
BlockKnown ==
    intact /\ undisturbed /\ Fits =>
      IF cli.at = "cron" /\ cli.todo = <<>> THEN HasCronBlock(crontab)
      ELSE IF cli.at = "remove" /\ cli.backend = "cron" /\ cli.todo = <<>>
      THEN ~HasCronBlock(crontab)
      ELSE HasCronBlock(crontab) <=> scheduleFile = "cron"

Restored ==
    cli.at = "idle" /\ cli.result = "error" /\ cli.backend = native /\ cli.clean =>
      (Blank(cli.before) \/ Working(cli.before) => View(os) = View(cli.before))

-----------------------------------------------------------------------------
(* The first of these steps and what comes after it.                       *)

LEMMA LaunchdSteps ==
  /\ LI4 # <<>> /\ Head(LI4) = <<"write", "timer">> /\ Tail(LI4) = LI3
  /\ LI3 # <<>> /\ Head(LI3) = <<"run", "bootout?">> /\ Tail(LI3) = LI2
  /\ LI2 # <<>> /\ Head(LI2) = <<"run", "bootstrap">> /\ Tail(LI2) = LI1
  /\ LI1 # <<>> /\ Head(LI1) = <<"run", "enable">> /\ Tail(LI1) = <<>>
  /\ LR4 # <<>> /\ Head(LR4) = <<"restore", "timer">> /\ Tail(LR4) = LR3
  /\ LR3 # <<>> /\ Head(LR3) = <<"try", "bootout?">> /\ Tail(LR3) = LR2
  /\ LR2 # <<>> /\ Head(LR2) = <<"try", "bootstrap">> /\ Tail(LR2) = LR1
  /\ LR1 # <<>> /\ Head(LR1) = <<"try", "enable">> /\ Tail(LR1) = <<>>
  /\ LD2 # <<>> /\ Head(LD2) = <<"try", "bootout">> /\ Tail(LD2) = RT1
  /\ LX2 # <<>> /\ Head(LX2) = <<"unregister", "bootout">> /\ Tail(LX2) = RT1
  /\ RT1 # <<>> /\ Head(RT1) = <<"remove", "timer">> /\ Tail(RT1) = <<>>
  BY DEF LI4, LI3, LI2, LI1, LR4, LR3, LR2, LR1, LD2, LX2, RT1

LEMMA SystemdSteps ==
  /\ SI4 # <<>> /\ Head(SI4) = <<"write", "service">> /\ Tail(SI4) = SI3
  /\ SI3 # <<>> /\ Head(SI3) = <<"write", "timer">> /\ Tail(SI3) = SI2
  /\ SI2 # <<>> /\ Head(SI2) = <<"run", "daemon-reload">> /\ Tail(SI2) = SI1
  /\ SI1 # <<>> /\ Head(SI1) = <<"run", "enable-now">> /\ Tail(SI1) = <<>>
  /\ SR4 # <<>> /\ Head(SR4) = <<"restore", "service">> /\ Tail(SR4) = SR3
  /\ SR3 # <<>> /\ Head(SR3) = <<"restore", "timer">> /\ Tail(SR3) = SR2
  /\ SR2 # <<>> /\ Head(SR2) = <<"try", "daemon-reload">> /\ Tail(SR2) = SR1
  /\ SR1 # <<>> /\ Head(SR1) = <<"try", "enable-now">> /\ Tail(SR1) = <<>>
  /\ SD3 # <<>> /\ Head(SD3) = <<"try", "disable-now">> /\ Tail(SD3) = SD2
  /\ SD2 # <<>> /\ Head(SD2) = <<"remove", "service">> /\ Tail(SD2) = RT1
  /\ SX4 # <<>> /\ Head(SX4) = <<"unregister", "disable-now">> /\ Tail(SX4) = SX3
  /\ SX3 # <<>> /\ Head(SX3) = <<"remove", "service">> /\ Tail(SX3) = SX2
  /\ SX2 # <<>> /\ Head(SX2) = <<"remove", "timer">> /\ Tail(SX2) = SX1
  /\ SX1 # <<>> /\ Head(SX1) = <<"try", "daemon-reload?">> /\ Tail(SX1) = <<>>
  BY DEF SI4, SI3, SI2, SI1, SR4, SR3, SR2, SR1, SD3, SD2, SX4, SX3, SX2, SX1, RT1

LEMMA WindowsSteps ==
  /\ WI2 # <<>> /\ Head(WI2) = <<"run", "create">> /\ Tail(WI2) = WI1
  /\ WI1 # <<>> /\ Head(WI1) = <<"run", "battery">> /\ Tail(WI1) = <<>>
  /\ WP1 # <<>> /\ Head(WP1) = <<"put-back", "task">> /\ Tail(WP1) = <<>>
  /\ WD1 # <<>> /\ Head(WD1) = <<"try", "delete">> /\ Tail(WD1) = <<>>
  /\ WX1 # <<>> /\ Head(WX1) = <<"unregister", "delete">> /\ Tail(WX1) = <<>>
  BY DEF WI2, WI1, WP1, WD1, WX1

LEMMA CrontabSteps ==
  /\ CRI # <<>> /\ Head(CRI) = <<"read", "install">> /\ Tail(CRI) = <<>>
  /\ CWI # <<>> /\ Head(CWI) = <<"rewrite", "install">> /\ Tail(CWI) = <<>>
  /\ CRR # <<>> /\ Head(CRR) = <<"read", "remove">> /\ Tail(CRR) = <<>>
  /\ CWR # <<>> /\ Head(CWR) = <<"rewrite", "remove">> /\ Tail(CWR) = <<>>
  BY DEF CRI, CWI, CRR, CWR

-----------------------------------------------------------------------------
(* Short sequences put one after the other.                                *)

LEMMA JoinedIs ==
  ASSUME NEW S, NEW u \in Seq(S), NEW v \in Seq(S), NEW w \in Seq(S),
         Len(w) = Len(u) + Len(v),
         \A i \in 1..Len(w) : w[i] = IF i <= Len(u) THEN u[i] ELSE v[i - Len(u)]
  PROVE  u \o v = w
<1>1. /\ u \o v \in Seq(S) /\ Len(u \o v) = Len(u) + Len(v)
      /\ \A i \in 1..Len(u) + Len(v) :
           (u \o v)[i] = IF i <= Len(u) THEN u[i] ELSE v[i - Len(u)]
  BY ConcatProperties
<1> QED
  BY <1>1, SeqEqual

LEMMA OneAndOne ==
  ASSUME NEW a, NEW b PROVE <<a>> \o <<b>> = <<a, b>>
<1> DEFINE S == {a, b}
           u == <<a>>
           v == <<b>>
           w == <<a, b>>
<1>1. u \in Seq(S) /\ v \in Seq(S) /\ w \in Seq(S)
  OBVIOUS
<1>2. /\ Len(u) = 1 /\ Len(v) = 1 /\ Len(w) = 2
      /\ u[1] = a /\ v[1] = b
      /\ w[1] = a /\ w[2] = b
  OBVIOUS
<1> HIDE DEF S, u, v, w
<1>3. /\ Len(w) = Len(u) + Len(v)
      /\ \A i \in 1..Len(w) : w[i] = IF i <= Len(u) THEN u[i] ELSE v[i - Len(u)]
  BY <1>2
<1>4. u \o v = w
  BY <1>1, <1>3, JoinedIs
<1> QED
  BY <1>4 DEF u, v, w

LEMMA OneAndTwo ==
  ASSUME NEW a, NEW b, NEW c PROVE <<a>> \o <<b, c>> = <<a, b, c>>
<1> DEFINE S == {a, b, c}
           u == <<a>>
           v == <<b, c>>
           w == <<a, b, c>>
<1>1. u \in Seq(S) /\ v \in Seq(S) /\ w \in Seq(S)
  OBVIOUS
<1>2. /\ Len(u) = 1 /\ Len(v) = 2 /\ Len(w) = 3
      /\ u[1] = a /\ v[1] = b /\ v[2] = c
      /\ w[1] = a /\ w[2] = b /\ w[3] = c
  OBVIOUS
<1> HIDE DEF S, u, v, w
<1>3. /\ Len(w) = Len(u) + Len(v)
      /\ \A i \in 1..Len(w) : w[i] = IF i <= Len(u) THEN u[i] ELSE v[i - Len(u)]
  BY <1>2
<1>4. u \o v = w
  BY <1>1, <1>3, JoinedIs
<1> QED
  BY <1>4 DEF u, v, w

LEMMA OneAndThree ==
  ASSUME NEW a, NEW b, NEW c, NEW d PROVE <<a>> \o <<b, c, d>> = <<a, b, c, d>>
<1> DEFINE S == {a, b, c, d}
           u == <<a>>
           v == <<b, c, d>>
           w == <<a, b, c, d>>
<1>1. u \in Seq(S) /\ v \in Seq(S) /\ w \in Seq(S)
  OBVIOUS
<1>2. /\ Len(u) = 1 /\ Len(v) = 3 /\ Len(w) = 4
      /\ u[1] = a /\ v[1] = b /\ v[2] = c /\ v[3] = d
      /\ w[1] = a /\ w[2] = b /\ w[3] = c /\ w[4] = d
  OBVIOUS
<1> HIDE DEF S, u, v, w
<1>3. /\ Len(w) = Len(u) + Len(v)
      /\ \A i \in 1..Len(w) : w[i] = IF i <= Len(u) THEN u[i] ELSE v[i - Len(u)]
  BY <1>2
<1>4. u \o v = w
  BY <1>1, <1>3, JoinedIs
<1> QED
  BY <1>4 DEF u, v, w

LEMMA TwoAndTwo ==
  ASSUME NEW a, NEW b, NEW c, NEW d PROVE <<a, b>> \o <<c, d>> = <<a, b, c, d>>
<1> DEFINE S == {a, b, c, d}
           u == <<a, b>>
           v == <<c, d>>
           w == <<a, b, c, d>>
<1>1. u \in Seq(S) /\ v \in Seq(S) /\ w \in Seq(S)
  OBVIOUS
<1>2. /\ Len(u) = 2 /\ Len(v) = 2 /\ Len(w) = 4
      /\ u[1] = a /\ u[2] = b /\ v[1] = c /\ v[2] = d
      /\ w[1] = a /\ w[2] = b /\ w[3] = c /\ w[4] = d
  OBVIOUS
<1> HIDE DEF S, u, v, w
<1>3. /\ Len(w) = Len(u) + Len(v)
      /\ \A i \in 1..Len(w) : w[i] = IF i <= Len(u) THEN u[i] ELSE v[i - Len(u)]
  BY <1>2
<1>4. u \o v = w
  BY <1>1, <1>3, JoinedIs
<1> QED
  BY <1>4 DEF u, v, w

LEMMA ThreeAndOne ==
  ASSUME NEW a, NEW b, NEW c, NEW d PROVE <<a, b, c>> \o <<d>> = <<a, b, c, d>>
<1> DEFINE S == {a, b, c, d}
           u == <<a, b, c>>
           v == <<d>>
           w == <<a, b, c, d>>
<1>1. u \in Seq(S) /\ v \in Seq(S) /\ w \in Seq(S)
  OBVIOUS
<1>2. /\ Len(u) = 3 /\ Len(v) = 1 /\ Len(w) = 4
      /\ u[1] = a /\ u[2] = b /\ u[3] = c /\ v[1] = d
      /\ w[1] = a /\ w[2] = b /\ w[3] = c /\ w[4] = d
  OBVIOUS
<1> HIDE DEF S, u, v, w
<1>3. /\ Len(w) = Len(u) + Len(v)
      /\ \A i \in 1..Len(w) : w[i] = IF i <= Len(u) THEN u[i] ELSE v[i - Len(u)]
  BY <1>2
<1>4. u \o v = w
  BY <1>1, <1>3, JoinedIs
<1> QED
  BY <1>4 DEF u, v, w

LEMMA NothingAnd ==
  /\ \A a : <<a>> \o <<>> = <<a>>
  /\ \A a, b : <<a, b>> \o <<>> = <<a, b>> /\ <<>> \o <<a, b>> = <<a, b>>
  /\ \A a, b, c, d : <<a, b, c, d>> \o <<>> = <<a, b, c, d>>
  OBVIOUS

\* The steps of one kind.
LEMMA EachStep ==
  ASSUME NEW kind
  PROVE  /\ [i \in 1..Len(<<>>) |-> <<kind, <<>>[i]>>] = <<>>
         /\ \A a : [i \in 1..Len(<<a>>) |-> <<kind, <<a>>[i]>>] = <<<<kind, a>>>>
         /\ \A a, b : [i \in 1..Len(<<a, b>>) |-> <<kind, <<a, b>>[i]>>]
                       = <<<<kind, a>>, <<kind, b>>>>
         /\ \A a, b, c : [i \in 1..Len(<<a, b, c>>) |-> <<kind, <<a, b, c>>[i]>>]
                          = <<<<kind, a>>, <<kind, b>>, <<kind, c>>>>
  OBVIOUS

-----------------------------------------------------------------------------
(* What the steps of each invocation are.                                  *)

LEMMA FilesAre ==
  /\ Files("launchd") = <<"timer">> /\ Files("systemd") = <<"service", "timer">>
  /\ Files("windows") = <<>>
  /\ Range(<<"timer">>) = {"timer"} /\ Range(<<"service", "timer">>) = Fields
  /\ Range(<<>>) = {}
<1>1. /\ DOMAIN <<"timer">> = {1} /\ <<"timer">>[1] = "timer"
      /\ DOMAIN <<"service", "timer">> = {1, 2}
      /\ <<"service", "timer">>[1] = "service" /\ <<"service", "timer">>[2] = "timer"
      /\ DOMAIN <<>> = {}
  OBVIOUS
<1>2. Range(<<"timer">>) = {"timer"} /\ Range(<<"service", "timer">>) = Fields
      /\ Range(<<>>) = {}
  BY <1>1 DEF Range, Fields
<1> QED
  BY <1>2 DEF Files

LEMMA CommandsAre ==
  /\ Register("launchd") = <<"bootout?", "bootstrap", "enable">>
  /\ Register("systemd") = <<"daemon-reload", "enable-now">>
  /\ Register("windows") = <<"create", "battery">>
  /\ Unregister("launchd") = <<"bootout">> /\ Unregister("systemd") = <<"disable-now">>
  /\ Unregister("windows") = <<"delete">>
  /\ Finalize("launchd") = <<>> /\ Finalize("systemd") = <<"daemon-reload?">>
  /\ Finalize("windows") = <<>>
  BY DEF Register, Unregister, Finalize

LEMMA KindsAre ==
  /\ Write(Files("launchd")) = <<<<"write", "timer">>>>
  /\ Write(Files("systemd")) = <<<<"write", "service">>, <<"write", "timer">>>>
  /\ Write(Files("windows")) = <<>>
  /\ Restore(Files("launchd")) = <<<<"restore", "timer">>>>
  /\ Restore(Files("systemd")) = <<<<"restore", "service">>, <<"restore", "timer">>>>
  /\ RemoveFiles(Files("launchd")) = <<<<"remove", "timer">>>>
  /\ RemoveFiles(Files("systemd")) = <<<<"remove", "service">>, <<"remove", "timer">>>>
  /\ RemoveFiles(Files("windows")) = <<>>
  /\ Run(Register("launchd")) = <<<<"run", "bootout?">>, <<"run", "bootstrap">>, <<"run", "enable">>>>
  /\ Run(Register("systemd")) = <<<<"run", "daemon-reload">>, <<"run", "enable-now">>>>
  /\ Run(Register("windows")) = <<<<"run", "create">>, <<"run", "battery">>>>
  /\ Try(Register("launchd")) = <<<<"try", "bootout?">>, <<"try", "bootstrap">>, <<"try", "enable">>>>
  /\ Try(Register("systemd")) = <<<<"try", "daemon-reload">>, <<"try", "enable-now">>>>
  /\ Try(Unregister("launchd")) = <<<<"try", "bootout">>>>
  /\ Try(Unregister("systemd")) = <<<<"try", "disable-now">>>>
  /\ Try(Unregister("windows")) = <<<<"try", "delete">>>>
  /\ RunUnregister(Unregister("launchd")) = <<<<"unregister", "bootout">>>>
  /\ RunUnregister(Unregister("systemd")) = <<<<"unregister", "disable-now">>>>
  /\ RunUnregister(Unregister("windows")) = <<<<"unregister", "delete">>>>
  /\ Try(Finalize("launchd")) = <<>>
  /\ Try(Finalize("systemd")) = <<<<"try", "daemon-reload?">>>>
  /\ Try(Finalize("windows")) = <<>>
  /\ RemoveFiles(<<>>) = <<>>
<1>1. Write(Files("launchd")) = <<<<"write", "timer">>>>
  BY FilesAre DEF Write
<1>2. Write(Files("systemd")) = <<<<"write", "service">>, <<"write", "timer">>>>
  <2>1. Write(<<"service", "timer">>) = <<<<"write", "service">>, <<"write", "timer">>>>
    BY DEF Write
  <2> QED
    BY <2>1, FilesAre
<1>3. Write(Files("windows")) = <<>>
  BY FilesAre DEF Write
<1>4. Restore(Files("launchd")) = <<<<"restore", "timer">>>>
  BY FilesAre DEF Restore
<1>5. Restore(Files("systemd")) = <<<<"restore", "service">>, <<"restore", "timer">>>>
  <2>1. Restore(<<"service", "timer">>) = <<<<"restore", "service">>, <<"restore", "timer">>>>
    BY DEF Restore
  <2> QED
    BY <2>1, FilesAre
<1>6. RemoveFiles(Files("launchd")) = <<<<"remove", "timer">>>>
  BY FilesAre DEF RemoveFiles
<1>7. RemoveFiles(Files("systemd")) = <<<<"remove", "service">>, <<"remove", "timer">>>>
  <2>1. RemoveFiles(<<"service", "timer">>) = <<<<"remove", "service">>, <<"remove", "timer">>>>
    BY DEF RemoveFiles
  <2> QED
    BY <2>1, FilesAre
<1>8. RemoveFiles(Files("windows")) = <<>>
  BY FilesAre DEF RemoveFiles
<1>9. Run(Register("launchd")) = <<<<"run", "bootout?">>, <<"run", "bootstrap">>, <<"run", "enable">>>>
  <2>1. Run(<<"bootout?", "bootstrap", "enable">>) = <<<<"run", "bootout?">>, <<"run", "bootstrap">>, <<"run", "enable">>>>
    BY DEF Run
  <2> QED
    BY <2>1, CommandsAre
<1>10. Run(Register("systemd")) = <<<<"run", "daemon-reload">>, <<"run", "enable-now">>>>
  <2>1. Run(<<"daemon-reload", "enable-now">>) = <<<<"run", "daemon-reload">>, <<"run", "enable-now">>>>
    BY DEF Run
  <2> QED
    BY <2>1, CommandsAre
<1>11. Run(Register("windows")) = <<<<"run", "create">>, <<"run", "battery">>>>
  <2>1. Run(<<"create", "battery">>) = <<<<"run", "create">>, <<"run", "battery">>>>
    BY DEF Run
  <2> QED
    BY <2>1, CommandsAre
<1>12. Try(Register("launchd")) = <<<<"try", "bootout?">>, <<"try", "bootstrap">>, <<"try", "enable">>>>
  <2>1. Try(<<"bootout?", "bootstrap", "enable">>) = <<<<"try", "bootout?">>, <<"try", "bootstrap">>, <<"try", "enable">>>>
    BY DEF Try
  <2> QED
    BY <2>1, CommandsAre
<1>13. Try(Register("systemd")) = <<<<"try", "daemon-reload">>, <<"try", "enable-now">>>>
  <2>1. Try(<<"daemon-reload", "enable-now">>) = <<<<"try", "daemon-reload">>, <<"try", "enable-now">>>>
    BY DEF Try
  <2> QED
    BY <2>1, CommandsAre
<1>14. Try(Unregister("launchd")) = <<<<"try", "bootout">>>>
  BY CommandsAre DEF Try
<1>15. Try(Unregister("systemd")) = <<<<"try", "disable-now">>>>
  BY CommandsAre DEF Try
<1>16. Try(Unregister("windows")) = <<<<"try", "delete">>>>
  BY CommandsAre DEF Try
<1>17. RunUnregister(Unregister("launchd")) = <<<<"unregister", "bootout">>>>
  BY CommandsAre DEF RunUnregister
<1>18. RunUnregister(Unregister("systemd")) = <<<<"unregister", "disable-now">>>>
  BY CommandsAre DEF RunUnregister
<1>19. RunUnregister(Unregister("windows")) = <<<<"unregister", "delete">>>>
  BY CommandsAre DEF RunUnregister
<1>20. Try(Finalize("launchd")) = <<>>
  BY CommandsAre DEF Try
<1>21. Try(Finalize("systemd")) = <<<<"try", "daemon-reload?">>>>
  BY CommandsAre DEF Try
<1>22. Try(Finalize("windows")) = <<>>
  BY CommandsAre DEF Try
<1>23. RemoveFiles(<<>>) = <<>>
  BY DEF RemoveFiles
<1> QED
  BY <1>1, <1>2, <1>3, <1>4, <1>5, <1>6, <1>7, <1>8, <1>9, <1>10, <1>11, <1>12, <1>13, <1>14, <1>15, <1>16, <1>17, <1>18, <1>19, <1>20, <1>21, <1>22, <1>23

LEMMA InstallationsAre ==
  /\ Write(Files("launchd")) \o Run(Register("launchd")) = LI4
  /\ Write(Files("systemd")) \o Run(Register("systemd")) = SI4
  /\ Write(Files("windows")) \o Run(Register("windows")) = WI2
<1>1. Write(Files("launchd")) \o Run(Register("launchd")) = LI4
  BY KindsAre, OneAndThree DEF LI4
<1>2. Write(Files("systemd")) \o Run(Register("systemd")) = SI4
  BY KindsAre, TwoAndTwo DEF SI4
<1>3. Write(Files("windows")) \o Run(Register("windows")) = WI2
  <2>1. <<>> \o WI2 = WI2
    BY NothingAnd DEF WI2
  <2> QED
    BY <2>1, KindsAre DEF WI2
<1> QED
  BY <1>1, <1>2, <1>3

LEMMA RemovalsAre ==
  /\ RunUnregister(Unregister("launchd")) \o RemoveFiles(Files("launchd"))
       \o Try(Finalize("launchd")) = LX2
  /\ RunUnregister(Unregister("systemd")) \o RemoveFiles(Files("systemd"))
       \o Try(Finalize("systemd")) = SX4
  /\ RunUnregister(Unregister("windows")) \o RemoveFiles(Files("windows"))
       \o Try(Finalize("windows")) = WX1
<1>1. RunUnregister(Unregister("launchd")) \o RemoveFiles(Files("launchd")) = LX2
  <2>1. <<<<"unregister", "bootout">>>> \o <<<<"remove", "timer">>>> = LX2
    BY OneAndOne DEF LX2
  <2> QED
    BY <2>1, KindsAre
<1>2. RunUnregister(Unregister("systemd")) \o RemoveFiles(Files("systemd"))
        = <<<<"unregister", "disable-now">>, <<"remove", "service">>, <<"remove", "timer">>>>
  BY KindsAre, OneAndTwo
<1>3. RunUnregister(Unregister("windows")) \o RemoveFiles(Files("windows")) = WX1
  BY KindsAre, NothingAnd DEF WX1
<1>4. LX2 \o <<>> = LX2 /\ WX1 \o <<>> = WX1
  BY NothingAnd DEF LX2, WX1
<1>5. <<<<"unregister", "disable-now">>, <<"remove", "service">>, <<"remove", "timer">>>>
        \o <<<<"try", "daemon-reload?">>>> = SX4
  BY ThreeAndOne DEF SX4
<1> QED
  BY <1>1, <1>2, <1>3, <1>4, <1>5, KindsAre

LEMMA StepsAreTyped ==
  /\ <<>> \in Seq(Forth) /\ <<>> \in Seq(Back) /\ <<>> \in Seq(Off) /\ <<>> \in Seq(Steps)
  /\ {LI4, LI3, LI2, LI1, SI4, SI3, SI2, SI1, WI2, WI1} \subseteq Seq(Forth)
  /\ {LR4, LR3, LR2, LR1, LD2, RT1, SR4, SR3, SR2, SR1, SD3, SD2, WP1, WD1} \subseteq Seq(Back)
  /\ {LX2, RT1, SX4, SX3, SX2, SX1, WX1} \subseteq Seq(Off)
  /\ {CRI, CWI, CRR, CWR} \subseteq Seq(Steps)
  /\ Seq(Forth) \subseteq Seq(Steps) /\ Seq(Back) \subseteq Seq(Steps) /\ Seq(Off) \subseteq Seq(Steps)
<1>1. <<>> \in Seq(Forth) /\ <<>> \in Seq(Back) /\ <<>> \in Seq(Off) /\ <<>> \in Seq(Steps)
  OBVIOUS
<1>2. {LI4, LI3, LI2, LI1, SI4, SI3, SI2, SI1, WI2, WI1} \subseteq Seq(Forth)
  BY DEF Forth, Fields, CommandNames, LI4, LI3, LI2, LI1, SI4, SI3, SI2, SI1, WI2, WI1
<1>3. {LR4, LR3, LR2, LR1, LD2, RT1, SR4, SR3, SR2, SR1, SD3, SD2, WP1, WD1} \subseteq Seq(Back)
  BY DEF Back, Fields, CommandNames, LR4, LR3, LR2, LR1, LD2, RT1, SR4, SR3, SR2, SR1, SD3, SD2, WP1, WD1
<1>4. {LX2, RT1, SX4, SX3, SX2, SX1, WX1} \subseteq Seq(Off)
  BY DEF Off, Fields, CommandNames, LX2, RT1, SX4, SX3, SX2, SX1, WX1
<1>5. {CRI, CWI, CRR, CWR} \subseteq Seq(Steps)
  BY DEF Steps, CRI, CWI, CRR, CWR
<1>6. Forth \subseteq Steps /\ Back \subseteq Steps /\ Off \subseteq Steps
  BY DEF Forth, Back, Off, Steps
<1>7. Seq(Forth) \subseteq Seq(Steps) /\ Seq(Back) \subseteq Seq(Steps) /\ Seq(Off) \subseteq Seq(Steps)
  BY <1>6, SeqMonotonic
<1> QED
  BY <1>1, <1>2, <1>3, <1>4, <1>5, <1>7

LEMMA AmongIs ==
  ASSUME NEW fs \in Seq(Fields), NEW S \in SUBSET Fields
  PROVE  Among(fs, S) \in Seq(Fields)
<1>1. ASSUME Range(fs) \cap S # {}
      PROVE  <<CHOOSE f \in S : f \in Range(fs)>> \in Seq(Fields)
  <2> DEFINE c == CHOOSE f \in S : f \in Range(fs)
  <2>1. c \in Fields
    BY <1>1
  <2> HIDE DEF c
  <2>2. <<c>> \in Seq(Fields)
    BY <2>1
  <2> QED
    BY <2>2 DEF c
<1> QED
  BY <1>1 DEF Among

LEMMA StepsOfKinds ==
  /\ \A fs \in Seq(Fields) : Restore(fs) \in Seq(Back) /\ RemoveFiles(fs) \in Seq(Back)
  /\ \A cs \in Seq(CommandNames) : Try(cs) \in Seq(Back)
<1>1. ASSUME NEW fs \in Seq(Fields), NEW kind \in {"restore", "remove"}
      PROVE  [i \in 1..Len(fs) |-> <<kind, fs[i]>>] \in Seq(Back)
  BY DEF Back
<1>2. ASSUME NEW cs \in Seq(CommandNames)
      PROVE  [i \in 1..Len(cs) |-> <<"try", cs[i]>>] \in Seq(Back)
  BY DEF Back
<1> QED
  BY <1>1, <1>2 DEF Restore, RemoveFiles, Try

-----------------------------------------------------------------------------
(* What a machine shows, and what the catch of an installation goes through. *)

LEMMA BlankIs ==
  ASSUME NEW o \in Machine
  PROVE  Blank(o) <=> /\ o.service = 0 /\ o.timer = 0 /\ ~o.active
                      /\ o.task = 0 /\ ~o.battery
<1>1. View(o) = [service |-> o.service, timer |-> o.timer,
                 known |-> IF o.active THEN o.known ELSE 0, active |-> o.active,
                 task |-> o.task, battery |-> o.battery]
  BY DEF View, Machine
<1>2. /\ o.active \in BOOLEAN /\ o.battery \in BOOLEAN
      /\ ~o.active => o.active = FALSE
      /\ ~o.battery => o.battery = FALSE
  BY DEF Machine
<1>3. ASSUME Blank(o)
      PROVE  /\ o.service = 0 /\ o.timer = 0 /\ o.active = FALSE
             /\ o.task = 0 /\ o.battery = FALSE
  BY <1>1, <1>3 DEF Blank, Bare
<1>4. ASSUME o.service = 0, o.timer = 0, ~o.active, o.task = 0, ~o.battery
      PROVE  Blank(o)
  BY <1>1, <1>2, <1>4 DEF Blank, Bare
<1> QED
  BY <1>3, <1>4

LEMMA SameView ==
  ASSUME NEW o \in Machine, NEW b \in Machine,
         o.service = b.service, o.timer = b.timer, o.active = b.active,
         o.active => o.known = b.known, o.task = b.task, o.battery = b.battery
  PROVE  View(o) = View(b)
  BY DEF View, Machine

LEMMA ViewTells ==
  ASSUME NEW o \in Machine, NEW b \in Machine, View(o) = View(b)
  PROVE  /\ o.service = b.service /\ o.timer = b.timer /\ o.active = b.active
         /\ o.active => o.known = b.known
         /\ o.task = b.task /\ o.battery = b.battery
<1>1. \A m \in Machine :
        View(m) = [service |-> m.service, timer |-> m.timer,
                   known |-> IF m.active THEN m.known ELSE 0, active |-> m.active,
                   task |-> m.task, battery |-> m.battery]
  BY DEF View, Machine
<1> QED
  BY <1>1

LEMMA WorksIs ==
  ASSUME NEW o, NEW p
  PROVE  /\ Works("launchd", o, p) <=> o.active /\ o.known = p /\ o.timer = p
         /\ Works("systemd", o, p) <=> o.active /\ o.known = p /\ o.service = p /\ o.timer = p
         /\ Works("windows", o, p) <=> o.task = p /\ o.battery
<1>1. Works("launchd", o, p) <=> o.active /\ o.known = p /\ o.timer = p
  BY FilesAre DEF Works
<1>2. Works("systemd", o, p) <=> o.active /\ o.known = p /\ o.service = p /\ o.timer = p
  BY FilesAre DEF Works, Fields
<1> QED
  BY <1>1, <1>2 DEF Works

LEMMA RollbackIs ==
  ASSUME ScheduleTypeOK
  PROVE  /\ Rollback(native) \in Seq(Back)
         /\ Blank(cli.before) =>
              Rollback(native) = IF native = "launchd" THEN LD2
                                 ELSE IF native = "systemd" THEN SD3 ELSE WD1
         /\ Working(cli.before) =>
              Rollback(native) = IF native = "launchd" THEN LR4
                                 ELSE IF native = "systemd" THEN SR4 ELSE WP1
<1> DEFINE b == cli.before
<1>0. b \in Machine /\ native \in Natives /\ Existed \in SUBSET Fields
      /\ Existed = {f \in Fields : b[f] # 0}
  BY DEF ScheduleTypeOK, Invocation, Existed, Fields
<1> DEFINE up == Restore(Among(Files(native), Existed)) \o Try(Register(native))
                  \o RemoveFiles(Among(Files(native), {"service", "timer"} \ Existed))
           down == Try(Unregister(native)) \o RemoveFiles(Files(native))
<1>1. /\ native = "windows" /\ b.task # 0 => Rollback(native) = WP1
      /\ ~(native = "windows" /\ b.task # 0) /\ Range(Files(native)) \cap Existed # {} =>
           Rollback(native) = up
      /\ ~(native = "windows" /\ b.task # 0) /\ Range(Files(native)) \cap Existed = {} =>
           Rollback(native) = down
  BY DEF Rollback, WP1
<1>2. Rollback(native) \in Seq(Back)
  <2>1. /\ Files(native) \in Seq(Fields) /\ Register(native) \in Seq(CommandNames)
        /\ Unregister(native) \in Seq(CommandNames)
    <3>1. <<>> \in Seq(Fields) /\ <<"timer">> \in Seq(Fields) /\ <<"service", "timer">> \in Seq(Fields)
      BY DEF Fields
    <3>2. /\ <<"bootout?", "bootstrap", "enable">> \in Seq(CommandNames)
          /\ <<"daemon-reload", "enable-now">> \in Seq(CommandNames)
          /\ <<"create", "battery">> \in Seq(CommandNames)
      BY DEF CommandNames
    <3>3. /\ <<"bootout">> \in Seq(CommandNames) /\ <<"disable-now">> \in Seq(CommandNames)
          /\ <<"delete">> \in Seq(CommandNames)
      BY DEF CommandNames
    <3> QED
      BY <1>0, <3>1, <3>2, <3>3, FilesAre, CommandsAre DEF Natives
  <2>2. /\ Among(Files(native), Existed) \in Seq(Fields)
        /\ Among(Files(native), {"service", "timer"} \ Existed) \in Seq(Fields)
    BY <1>0, <2>1, AmongIs DEF Fields
  <2>3. /\ Restore(Among(Files(native), Existed)) \in Seq(Back)
        /\ RemoveFiles(Among(Files(native), {"service", "timer"} \ Existed)) \in Seq(Back)
        /\ RemoveFiles(Files(native)) \in Seq(Back)
        /\ Try(Register(native)) \in Seq(Back) /\ Try(Unregister(native)) \in Seq(Back)
    BY <2>1, <2>2, StepsOfKinds
  <2>4. up \in Seq(Back) /\ down \in Seq(Back)
    BY <2>3, ConcatProperties
  <2> QED
    BY <1>1, <2>4, StepsAreTyped
<1> HIDE DEF up, down
<1>3. ASSUME Blank(b)
      PROVE  Rollback(native) = IF native = "launchd" THEN LD2
                                ELSE IF native = "systemd" THEN SD3 ELSE WD1
  <2>1. Existed = {} /\ b.task = 0
    BY <1>0, <1>3, BlankIs DEF Fields
  <2>2. Rollback(native) = down
    BY <1>1, <2>1
  <2>3. CASE native = "launchd"
    <3>1. <<<<"try", "bootout">>>> \o <<<<"remove", "timer">>>> = LD2
      BY OneAndOne DEF LD2
    <3> QED
      BY <2>2, <2>3, <3>1, KindsAre DEF down
  <2>4. CASE native = "systemd"
    <3>1. <<<<"try", "disable-now">>>> \o <<<<"remove", "service">>, <<"remove", "timer">>>> = SD3
      BY OneAndTwo DEF SD3
    <3> QED
      BY <2>2, <2>4, <3>1, KindsAre DEF down
  <2>5. CASE native = "windows"
    <3>1. <<<<"try", "delete">>>> \o <<>> = WD1
      BY NothingAnd DEF WD1
    <3> QED
      BY <2>2, <2>5, <3>1, KindsAre DEF down
  <2> QED
    BY <1>0, <2>3, <2>4, <2>5 DEF Natives
<1>4. ASSUME Working(b)
      PROVE  Rollback(native) = IF native = "launchd" THEN LR4
                                ELSE IF native = "systemd" THEN SR4 ELSE WP1
  <2>1. CASE native = "launchd"
    <3>1. b.timer # 0 /\ "timer" \in Existed
      BY <1>0, <1>4, <2>1, WorksIs, ScheduleAssumption DEF Working, Plans, Fields
    <3>2. /\ Range(Files(native)) \subseteq Existed /\ Range(Files(native)) # {}
          /\ Range(Files(native)) \cap ({"service", "timer"} \ Existed) = {}
      BY <2>1, <3>1, FilesAre
    <3>3. up = Restore(Files(native)) \o Try(Register(native)) \o RemoveFiles(<<>>)
      BY <3>2 DEF up, Among
    <3>4. <<<<"restore", "timer">>>>
            \o <<<<"try", "bootout?">>, <<"try", "bootstrap">>, <<"try", "enable">>>> = LR4
      BY OneAndThree DEF LR4
    <3>5. LR4 \o <<>> = LR4
      BY NothingAnd DEF LR4
    <3>6. up = LR4
      BY <2>1, <3>3, <3>4, <3>5, KindsAre
    <3> QED
      BY <1>1, <2>1, <3>2, <3>6
  <2>2. CASE native = "systemd"
    <3>1. b.timer # 0 /\ b.service # 0 /\ Existed = Fields
      BY <1>0, <1>4, <2>2, WorksIs, ScheduleAssumption DEF Working, Plans, Fields
    <3>2. /\ Range(Files(native)) \subseteq Existed /\ Range(Files(native)) # {}
          /\ Range(Files(native)) \cap ({"service", "timer"} \ Existed) = {}
      BY <2>2, <3>1, FilesAre DEF Fields
    <3>3. up = Restore(Files(native)) \o Try(Register(native)) \o RemoveFiles(<<>>)
      BY <3>2 DEF up, Among
    <3>4. <<<<"restore", "service">>, <<"restore", "timer">>>>
            \o <<<<"try", "daemon-reload">>, <<"try", "enable-now">>>> = SR4
      BY TwoAndTwo DEF SR4
    <3>5. SR4 \o <<>> = SR4
      BY NothingAnd DEF SR4
    <3>6. up = SR4
      BY <2>2, <3>3, <3>4, <3>5, KindsAre
    <3> QED
      BY <1>1, <2>2, <3>2, <3>6
  <2>3. CASE native = "windows"
    BY <1>0, <1>1, <1>4, <2>3, WorksIs, ScheduleAssumption DEF Working, Plans
  <2> QED
    BY <1>0, <2>1, <2>2, <2>3 DEF Natives
<1> QED
  BY <1>2, <1>3, <1>4

-----------------------------------------------------------------------------
(* Type correctness.                                                       *)

LEMMA EffectIsTyped ==
  ASSUME NEW o \in Machine, NEW p \in Contents, NEW cmd
  PROVE  Effect(cmd, o, p) \in Machine
<1>1. 0 \in Contents
  BY ScheduleAssumption DEF Contents
<1>2. /\ [o EXCEPT !.active = FALSE, !.known = 0] \in Machine
      /\ [o EXCEPT !.active = TRUE, !.known = o.timer] \in Machine
      /\ [o EXCEPT !.known = o.service] \in Machine
  BY <1>1 DEF Machine
<1>3. [o EXCEPT !.active = TRUE] \in Machine /\ [o EXCEPT !.active = FALSE] \in Machine
  BY DEF Machine
<1>4. /\ [o EXCEPT !.task = p, !.battery = FALSE] \in Machine
      /\ [o EXCEPT !.battery = TRUE] \in Machine
      /\ [o EXCEPT !.task = 0, !.battery = FALSE] \in Machine
  BY <1>1 DEF Machine
<1> QED
  BY <1>2, <1>3, <1>4 DEF Effect

LEMMA StepIsTyped ==
  ASSUME ScheduleTypeOK, StepAhead
  PROVE  /\ Head(cli.todo) \in Steps /\ Tail(cli.todo) \in Seq(Steps)
         /\ [cli EXCEPT !.todo = Tail(cli.todo)] \in Invocation
         /\ Kind("write") \/ Kind("restore") \/ Kind("remove") => Argument \in Fields
         /\ Kind("read") \/ Kind("rewrite") => Argument \in {"install", "remove"}
<1>1. Head(cli.todo) \in Steps /\ Tail(cli.todo) \in Seq(Steps)
  BY HeadTailProperties DEF ScheduleTypeOK, Invocation, StepAhead
<1>2. [cli EXCEPT !.todo = Tail(cli.todo)] \in Invocation
  BY <1>1 DEF ScheduleTypeOK, Invocation
<1> DEFINE h == Head(cli.todo)
<1>4. /\ h[1] \in {"write", "restore", "remove"} => h[2] \in Fields
      /\ h[1] \in {"read", "rewrite"} => h[2] \in {"install", "remove"}
  <2>1. h \in Steps
    BY <1>1
  <2>2. ASSUME NEW s \in Steps
        PROVE  /\ s[1] \in {"write", "restore", "remove"} => s[2] \in Fields
               /\ s[1] \in {"read", "rewrite"} => s[2] \in {"install", "remove"}
    BY DEF Steps
  <2> HIDE DEF h
  <2> QED
    BY <2>1, <2>2
<1>5. /\ Kind("write") \/ Kind("restore") \/ Kind("remove") => Argument \in Fields
      /\ Kind("read") \/ Kind("rewrite") => Argument \in {"install", "remove"}
  BY <1>4 DEF Kind, Argument
<1> QED
  BY <1>1, <1>2, <1>5

\* Where an invocation begins.
InstallTodo(b) == CASE b = "cron" -> CRI [] b = "launchd" -> LI4
                    [] b = "systemd" -> SI4 [] b = "windows" -> WI2
RemovalTodo(b) == CASE b = "cron" -> CRR [] b = "launchd" -> LX2
                    [] b = "systemd" -> SX4 [] b = "windows" -> WX1

LEMMA SetupInstallIs ==
  ASSUME ScheduleTypeOK, NEW b \in Backends, NEW p \in Plans, SetupInstall(b, p)
  PROVE  /\ cli.at = "idle" /\ b \in {native, "cron"} /\ scheduleFile \in {"none", b}
         /\ cli' = [at |-> IF b = "cron" THEN "cron" ELSE "install", backend |-> b, plan |-> p,
                    todo |-> InstallTodo(b),
                    before |-> os, table |-> <<>>, read |-> <<>>, clean |-> TRUE, result |-> "none"]
         /\ cli'.at = (IF b = "cron" THEN "cron" ELSE "install") /\ cli'.backend = b
         /\ cli'.plan = p /\ cli'.before = os /\ cli'.clean = TRUE /\ cli'.result = "none"
         /\ cli'.todo = InstallTodo(b)
         /\ setups' = setups + 1
         /\ UNCHANGED <<native, os, crontab, scheduleFile, intact, lines, undisturbed, edits>>
<1> DEFINE todo == IF b = "cron" THEN <<<<"read", "install">>>>
                   ELSE Write(Files(b)) \o Run(Register(b))
<1>1. todo = InstallTodo(b)
  BY InstallationsAre DEF Backends, Natives, CRI, InstallTodo
<1> HIDE DEF todo
<1>2. /\ Begin([NoCli EXCEPT !.at = IF b = "cron" THEN "cron" ELSE "install",
                             !.backend = b, !.plan = p, !.before = os, !.todo = todo])
      /\ b \in {native, "cron"} /\ scheduleFile \in {"none", b}
  BY DEF SetupInstall, todo
<1>3. /\ cli' = [at |-> IF b = "cron" THEN "cron" ELSE "install", backend |-> b, plan |-> p,
                 todo |-> todo, before |-> os, table |-> <<>>, read |-> <<>>, clean |-> TRUE, result |-> "none"]
      /\ cli.at = "idle" /\ setups' = setups + 1
      /\ UNCHANGED <<native, os, crontab, scheduleFile, intact, lines, undisturbed, edits>>
  BY <1>2 DEF Begin, NoCli, CliBusy, user
<1>4. /\ cli'.at = (IF b = "cron" THEN "cron" ELSE "install") /\ cli'.backend = b
      /\ cli'.plan = p /\ cli'.before = os /\ cli'.clean = TRUE /\ cli'.result = "none"
      /\ cli'.todo = todo
  BY <1>3
<1> QED
  BY <1>1, <1>2, <1>3, <1>4

LEMMA SetupRemoveIs ==
  ASSUME ScheduleTypeOK, SetupRemove
  PROVE  /\ cli.at = "idle" /\ scheduleFile # "none"
         /\ cli' = [at |-> "remove", backend |-> scheduleFile, plan |-> 0,
                    todo |-> RemovalTodo(scheduleFile),
                    before |-> os, table |-> <<>>, read |-> <<>>, clean |-> TRUE, result |-> "none"]
         /\ cli'.at = "remove" /\ cli'.backend = scheduleFile
         /\ cli'.before = os /\ cli'.clean = TRUE /\ cli'.result = "none"
         /\ cli'.todo = RemovalTodo(scheduleFile)
         /\ setups' = setups + 1
         /\ UNCHANGED <<native, os, crontab, scheduleFile, intact, lines, undisturbed, edits>>
<1> DEFINE todo == IF scheduleFile = "cron" THEN <<<<"read", "remove">>>>
                   ELSE RunUnregister(Unregister(scheduleFile))
                        \o RemoveFiles(Files(scheduleFile))
                        \o Try(Finalize(scheduleFile))
<1>1. todo = RemovalTodo(scheduleFile)
  BY RemovalsAre DEF ScheduleTypeOK, SetupRemove, Natives, CRR, RemovalTodo
<1> HIDE DEF todo
<1>2. /\ Begin([NoCli EXCEPT !.at = "remove", !.backend = scheduleFile, !.before = os,
                             !.todo = todo])
      /\ scheduleFile # "none"
  BY DEF SetupRemove, todo
<1>3. /\ cli' = [at |-> "remove", backend |-> scheduleFile, plan |-> 0,
                 todo |-> todo, before |-> os, table |-> <<>>, read |-> <<>>, clean |-> TRUE, result |-> "none"]
      /\ cli.at = "idle" /\ setups' = setups + 1
      /\ UNCHANGED <<native, os, crontab, scheduleFile, intact, lines, undisturbed, edits>>
  BY <1>2 DEF Begin, NoCli, CliBusy, user
<1>4. /\ cli'.at = "remove" /\ cli'.backend = scheduleFile
      /\ cli'.before = os /\ cli'.clean = TRUE /\ cli'.result = "none"
      /\ cli'.todo = todo
  BY <1>3
<1> QED
  BY <1>1, <1>2, <1>3, <1>4

LEMMA NoCliIsTyped ==
  ASSUME NEW r \in {"none", "error"}
  PROVE  [NoCli EXCEPT !.result = r] \in Invocation /\ NoCli \in Invocation
<1>1. Bare \in Machine /\ 0 \in Contents
  BY ScheduleAssumption DEF Bare, Machine, Contents
<1>2. <<>> \in Seq(Steps) /\ <<>> \in Seq(Int)
  BY StepsAreTyped
<1>3. NoCli \in Invocation
  BY <1>1, <1>2 DEF NoCli, Invocation
<1> QED
  BY <1>3 DEF Invocation

-----------------------------------------------------------------------------
(* Where a line stands.                                                    *)

\* A set of natural numbers has a least member.
LEMMA LeastOfPlaces ==
  ASSUME NEW T \in SUBSET Nat, T # {}
  PROVE  \E x \in T : \A y \in T : x <= y
<1> DEFINE R == OpToRel(<, Nat)
<1>1. IsWellFoundedOn(R, Nat)
  BY NatLessThanWellFounded
<1>2. \A x \in T, y \in T : y < x => <<y, x>> \in R
  BY DEF OpToRel
<1> HIDE DEF R
<1>3. PICK x \in T : \A y \in T : ~(<<y, x>> \in R)
  BY <1>1, WFMin
<1>4. \A y \in T : ~(y < x)
  BY <1>2, <1>3
<1>5. \A y \in T : x <= y
  BY <1>4
<1> QED
  BY <1>5

LEMMA IndexIs ==
  ASSUME NEW text \in Seq(Int), NEW line
  PROVE  /\ IndexOf(text, line) \in 0..Len(text)
         /\ IndexOf(text, line) # 0 => text[IndexOf(text, line)] = line
         /\ IndexOf(text, line) = 0 => \A i \in 1..Len(text) : text[i] # line
<1> DEFINE I == {i \in 1..Len(text) : text[i] = line}
           m == IndexOf(text, line)
<1>1. m = IF I # {} THEN Min(I) ELSE 0
  BY DEF IndexOf, SelectInSeq
<1>2. CASE I = {}
  BY <1>1, <1>2
<1>3. CASE I # {}
  <2>2. \E n \in I : \A k \in I : n <= k
    <3>1. I \in SUBSET Nat
      OBVIOUS
    <3> HIDE DEF I
    <3> QED
      BY <1>3, <3>1, LeastOfPlaces
  <2>3. Min(I) \in I
    BY <2>2 DEF Min
  <2> QED
    BY <1>1, <1>3, <2>3
<1> QED
  BY <1>2, <1>3

LEMMA RewritingIsTyped ==
  ASSUME ScheduleTypeOK, Kind("rewrite")
  PROVE  Rewritten \in Seq(Int)
<1>1. cli.read \in Seq(Int) /\ crontab \in Seq(Int)
  BY DEF ScheduleTypeOK, Invocation
<1>2. \A text \in Seq(Int) : StripCronBlock(text) \in Seq(Int)
  <2> SUFFICES ASSUME NEW text \in Seq(Int) PROVE StripCronBlock(text) \in Seq(Int)
    OBVIOUS
  <2> DEFINE i == IndexOf(text, BEGIN)
             j == IndexOf(text, END)
  <2>1. ASSUME HasCronBlock(text)
        PROVE  SubSeq(text, 1, i - 1) \o SubSeq(text, j + 1, Len(text)) \in Seq(Int)
    <3>1. i \in 1..Len(text) /\ j \in 1..Len(text)
      BY <2>1, IndexIs DEF HasCronBlock
    <3> HIDE DEF i, j
    <3>2. \A k \in 1..Len(text) : text[k] \in Int
      BY ElementOfSeq
    <3>3. SubSeq(text, 1, i - 1) \in Seq(Int)
      <4>1. \A k \in 1..i - 1 : text[k] \in Int
        BY <3>1, <3>2
      <4>2. i - 1 \in Int
        BY <3>1
      <4> QED
        BY <4>1, <4>2, SubSeqProperties
    <3>4. SubSeq(text, j + 1, Len(text)) \in Seq(Int)
      <4>1. \A k \in j + 1..Len(text) : text[k] \in Int
        BY <3>1, <3>2
      <4>2. j + 1 \in Int /\ Len(text) \in Int
        BY <3>1
      <4> QED
        BY <4>1, <4>2, SubSeqProperties
    <3> QED
      BY <3>3, <3>4, ConcatProperties
  <2> QED
    BY <2>1 DEF StripCronBlock
<1>3. \A text \in Seq(Int) : MergeCronBlock(text) \in Seq(Int)
  <2>1. <<BEGIN, JOB, END>> \in Seq(Int)
    BY DEF BEGIN, JOB, END
  <2> QED
    BY <1>2, <2>1, ConcatProperties DEF MergeCronBlock
<1> QED
  BY <1>1, <1>2, <1>3 DEF Rewritten

\* What is captured of a table is a table, and the whole of a short one.
LEMMA CapturedIs ==
  ASSUME NEW text \in Seq(Int), NEW t \in Captured(text)
  PROVE  t \in Seq(Int) /\ (Len(text) <= PieceLimit => t = text)
<1>1. CASE Len(text) <= PieceLimit
  BY <1>1 DEF Captured
<1>2. CASE ~(Len(text) <= PieceLimit)
  <2>1. PICK n \in PieceLimit..Len(text) :
          t \in {[i \in 1..n |-> IF i \in Broken THEN CUT ELSE text[i]] :
                   Broken \in {B \in SUBSET (1..n) : \A i \in B : text[i] \in Marks => i = n}}
    BY <1>2 DEF Captured
  <2>2. PICK Broken \in SUBSET (1..n) :
          t = [i \in 1..n |-> IF i \in Broken THEN CUT ELSE text[i]]
    BY <2>1
  <2>3. n \in Nat /\ n <= Len(text)
    BY ScheduleAssumption
  <2>4. \A i \in 1..n : text[i] \in Int
    BY <2>3, ElementOfSeq
  <2>5. \A i \in 1..n : (IF i \in Broken THEN CUT ELSE text[i]) \in Int
    BY <2>4 DEF CUT
  <2> QED
    BY <1>2, <2>2, <2>3, <2>5
<1> QED
  BY <1>1, <1>2

\* The steps that end an invocation at once and may leave something half done.
Breaking == UnregisterFails \/ RestoreFails \/ RemoveFails \/ RecordStays \/ Kill

LEMMA BreaksOffIsTyped ==
  ASSUME ScheduleTypeOK, Kind("write") \/ Kind("restore"), NEW c \in Contents, BreaksOff(c)
  PROVE  os' \in Machine
<1>1. Argument \in Fields /\ os \in Machine /\ TORN \in Contents
  BY StepIsTyped DEF Kind, ScheduleTypeOK, Contents
<1>2. \A f \in Fields, d \in Contents : [os EXCEPT ![f] = d] \in Machine
  BY <1>1 DEF Fields, Machine
<1> QED
  BY <1>1, <1>2 DEF BreaksOff

LEMMA BreakingIs ==
  ASSUME ScheduleTypeOK, Breaking
  PROVE  /\ os' \in Machine /\ intact' = FALSE /\ still' = still
         /\ cli' = NoCli \/ cli' = [NoCli EXCEPT !.result = "error"]
         /\ cli' \in Invocation /\ cli'.at = "idle" /\ cli'.backend = "none"
         /\ cli'.clean = TRUE /\ cli'.result \in {"none", "error"}
<1>0. /\ os \in Machine /\ cli.before \in Machine /\ 0 \in Contents /\ TORN \in Contents
  BY ScheduleAssumption DEF ScheduleTypeOK, Invocation, Contents
<1>1. os' \in Machine
  <2>1. CASE UnregisterFails
    BY <1>0, <2>1, EffectIsTyped DEF UnregisterFails
  <2>2. CASE RestoreFails
    <3>1. Argument \in Fields
      BY <2>2, StepIsTyped DEF RestoreFails, Kind
    <3>2. cli.before[Argument] \in Contents
      BY <1>0, <3>1 DEF Fields, Machine
    <3> QED
      BY <2>2, <3>2, BreaksOffIsTyped DEF RestoreFails
  <2>3. CASE Kill
    <3>1. CASE UNCHANGED os
      BY <1>0, <3>1
    <3>2. CASE (Kind("write") \/ Kind("restore")) /\ os' = [os EXCEPT ![Argument] = TORN]
      <4>1. BreaksOff(TORN)
        BY <3>2 DEF BreaksOff
      <4> QED
        BY <1>0, <3>2, <4>1, BreaksOffIsTyped
    <3> QED
      BY <2>3, <3>1, <3>2 DEF Kill
  <2>4. CASE RemoveFails \/ RecordStays
    BY <1>0, <2>4 DEF RemoveFails, RecordStays
  <2> QED
    BY <2>1, <2>2, <2>3, <2>4 DEF Breaking
<1>2. /\ intact' = FALSE /\ still' = still
      /\ cli' = NoCli \/ cli' = [NoCli EXCEPT !.result = "error"]
  BY DEF Breaking, UnregisterFails, RestoreFails, RemoveFails, RecordStays, Kill, Throws
<1>3. cli' \in Invocation
  BY <1>2, NoCliIsTyped
<1>4. /\ cli'.at = "idle" /\ cli'.backend = "none"
      /\ cli'.clean = TRUE /\ cli'.result \in {"none", "error"}
  BY <1>2 DEF NoCli
<1> QED
  BY <1>1, <1>2, <1>3, <1>4

LEMMA WriteFailsIs ==
  ASSUME ScheduleTypeOK, WriteFails
  PROVE  /\ os' \in Machine /\ intact' = FALSE /\ still' = still
         /\ cli' \in Invocation /\ cli'.at = "idle" /\ cli'.backend = "none"
         /\ cli'.clean = TRUE /\ cli'.result = "unwritten" /\ cli'.before = cli.before
         /\ Loaded(os') = Loaded(os)
<1>0. os \in Machine /\ cli.before \in Machine /\ cli.plan \in Contents /\ Kind("write")
  BY DEF ScheduleTypeOK, Invocation, WriteFails
<1>1. os' \in Machine
  BY <1>0, BreaksOffIsTyped DEF WriteFails
<1>2. /\ intact' = FALSE /\ still' = still
      /\ cli' = [NoCli EXCEPT !.before = cli.before, !.result = "unwritten"]
  BY DEF WriteFails
<1>3. NoCli \in Invocation
  BY NoCliIsTyped
<1>4. cli' \in Invocation
  BY <1>0, <1>2, <1>3 DEF Invocation
<1>5. /\ cli'.at = "idle" /\ cli'.backend = "none" /\ cli'.clean = TRUE
      /\ cli'.result = "unwritten" /\ cli'.before = cli.before
  BY <1>2 DEF NoCli
<1>6. Loaded(os') = Loaded(os)
  <2>1. Argument \in Fields
    BY <1>0, StepIsTyped DEF Kind
  <2>2. \A f \in Fields : \A c : Loaded([os EXCEPT ![f] = c]) = Loaded(os)
    BY <1>0 DEF Loaded, Machine, Fields
  <2> QED
    BY <2>1, <2>2 DEF WriteFails, BreaksOff
<1> QED
  BY <1>1, <1>2, <1>4, <1>5, <1>6

\* Which invocation a step belongs to.
LEMMA KindTells ==
  ASSUME ScheduleTypeOK, Placed, StepAhead
  PROVE  /\ Kind("write") \/ Kind("run") => cli.at = "install" /\ cli.backend = native
         /\ Kind("restore") \/ Kind("put-back") => cli.at = "rollback" /\ cli.backend = native
         /\ Kind("remove") \/ Kind("try") =>
              cli.at \in {"rollback", "remove"} /\ cli.backend = native
         /\ Kind("unregister") => cli.at = "remove" /\ cli.backend = native
         /\ Kind("read") \/ Kind("rewrite") =>
              /\ cli.at \in {"cron", "remove"} /\ cli.backend = "cron"
              /\ cli.todo \in {CRI, CWI, CRR, CWR}
<1> DEFINE h == Head(cli.todo)
<1>1. cli.at \in {"install", "remove", "rollback", "cron"} /\ cli.todo # <<>>
      /\ cli.backend \in {"none", "cron", native} /\ scheduleFile \in {"none", "cron", native}
      /\ native \notin {"none", "cron"}
  BY DEF ScheduleTypeOK, Invocation, StepAhead, CliBusy, Natives
<1>2. \A k : Kind(k) <=> h[1] = k
  BY DEF Kind
<1>3. CASE cli.at = "install"
  <2>1. h \in Forth
    BY <1>1, <1>3, HeadTailProperties DEF Placed
  <2>2. ASSUME NEW s \in Forth PROVE s[1] \in {"write", "run"}
    BY DEF Forth
  <2> HIDE DEF h
  <2>3. h[1] \in {"write", "run"}
    BY <2>1, <2>2
  <2> QED
    BY <1>1, <1>2, <1>3, <2>3 DEF Placed
<1>4. CASE cli.at = "rollback"
  <2>1. h \in Back
    BY <1>1, <1>4, HeadTailProperties DEF Placed
  <2>2. ASSUME NEW s \in Back PROVE s[1] \in {"restore", "remove", "try", "put-back"}
    BY DEF Back
  <2> HIDE DEF h
  <2>3. h[1] \in {"restore", "remove", "try", "put-back"}
    BY <2>1, <2>2
  <2> QED
    BY <1>1, <1>2, <1>4, <2>3 DEF Placed
<1>5. CASE cli.at = "remove" /\ cli.backend # "cron"
  <2>1. h \in Off
    BY <1>1, <1>5, HeadTailProperties DEF Placed
  <2>2. ASSUME NEW s \in Off PROVE s[1] \in {"remove", "unregister", "try"}
    BY DEF Off
  <2> HIDE DEF h
  <2>3. h[1] \in {"remove", "unregister", "try"}
    BY <2>1, <2>2
  <2> QED
    BY <1>1, <1>2, <1>5, <2>3 DEF Placed
<1>6. CASE cli.at = "cron" \/ (cli.at = "remove" /\ cli.backend = "cron")
  <2>1. cli.todo \in {CRI, CWI, CRR, CWR} /\ cli.backend = "cron"
    BY <1>1, <1>6 DEF Placed
  <2>2. h[1] \in {"read", "rewrite"}
    BY <2>1, CrontabSteps
  <2> HIDE DEF h
  <2> QED
    BY <1>1, <1>2, <1>6, <2>1, <2>2
<1>7. \/ cli.at = "install" \/ cli.at = "rollback" \/ cli.at = "cron"
      \/ cli.at = "remove" /\ cli.backend # "cron"
      \/ cli.at = "remove" /\ cli.backend = "cron"
  BY <1>1
<1> QED
  BY <1>3, <1>4, <1>5, <1>6, <1>7, Zenon

\* What every step of the machinery leaves alone.
LEMMA StillTyped ==
  ASSUME ScheduleTypeOK, os' \in Machine, cli' \in Invocation,
         cli'.backend \in {"none", "cron", native}, intact' \in BOOLEAN, still' = still
  PROVE  ScheduleTypeOK'
  BY DEF ScheduleTypeOK, still, user

LEMMA ScheduleTypeInductive ==
  ASSUME ScheduleTypeOK, Placed, [ScheduleNext]_scheduleVars
  PROVE  ScheduleTypeOK'
<1>0. /\ os \in Machine /\ cli \in Invocation /\ cli.backend \in {"none", "cron", native}
      /\ intact \in BOOLEAN /\ undisturbed \in BOOLEAN /\ native \in Natives
      /\ cli.before \in Machine /\ cli.plan \in Contents /\ 0 \in Contents
      /\ crontab \in Seq(Int) /\ lines \in Seq(Nat)
  BY ScheduleAssumption DEF ScheduleTypeOK, Invocation, Contents
<1>1. ASSUME NEW b \in Backends, NEW p \in Plans, SetupInstall(b, p) PROVE ScheduleTypeOK'
  <2>0. /\ b \in {native, "cron"} /\ setups' = setups + 1
        /\ UNCHANGED <<native, os, crontab, scheduleFile, intact, lines, undisturbed, edits>>
    BY <1>1, SetupInstallIs
  <2>1. p \in Contents /\ b \in {native, "cron"}
    BY <2>0 DEF Plans, Contents
  <2>2. InstallTodo(b) \in Seq(Steps)
    BY <2>1, <1>0, StepsAreTyped DEF Natives, InstallTodo
  <2>3. cli' \in Invocation /\ cli'.backend = b
    <3>2. cli' = [at |-> IF b = "cron" THEN "cron" ELSE "install", backend |-> b, plan |-> p,
                  todo |-> InstallTodo(b), before |-> os, table |-> <<>>, read |-> <<>>, clean |-> TRUE, result |-> "none"]
      BY <1>1, SetupInstallIs
    <3>3. <<>> \in Seq(Int)
      OBVIOUS
    <3> QED
      BY <1>0, <2>1, <2>2, <3>2, <3>3 DEF Invocation
  <2> QED
    BY <2>0, <2>1, <2>3 DEF ScheduleTypeOK
<1>2. ASSUME SetupRemove PROVE ScheduleTypeOK'
  <2>0. /\ scheduleFile # "none" /\ setups' = setups + 1
        /\ UNCHANGED <<native, os, crontab, scheduleFile, intact, lines, undisturbed, edits>>
    BY <1>2, SetupRemoveIs
  <2>1. scheduleFile \in {"cron", native} /\ scheduleFile \in Backends
    BY <1>0, <2>0 DEF ScheduleTypeOK, Backends
  <2>2. RemovalTodo(scheduleFile) \in Seq(Steps)
    BY <2>1, <1>0, StepsAreTyped DEF Natives, RemovalTodo
  <2>3. cli' \in Invocation /\ cli'.backend = scheduleFile
    <3>2. cli' = [at |-> "remove", backend |-> scheduleFile, plan |-> 0,
                  todo |-> RemovalTodo(scheduleFile), before |-> os, table |-> <<>>, read |-> <<>>, clean |-> TRUE, result |-> "none"]
      BY <1>2, SetupRemoveIs
    <3>3. <<>> \in Seq(Int)
      OBVIOUS
    <3> QED
      BY <1>0, <2>1, <2>2, <3>2, <3>3 DEF Invocation
  <2> QED
    BY <2>0, <2>1, <2>3 DEF ScheduleTypeOK
<1>3. ASSUME WriteFile \/ RestoreFile \/ RemoveFile PROVE ScheduleTypeOK'
  <2>1. StepAhead /\ Argument \in Fields /\ [cli EXCEPT !.todo = Tail(cli.todo)] \in Invocation
    BY <1>3, StepIsTyped DEF WriteFile, RestoreFile, RemoveFile, Kind
  <2>2. \A f \in Fields, c \in Contents : [os EXCEPT ![f] = c] \in Machine /\ cli.before[f] \in Contents
    BY <1>0 DEF Fields, Machine
  <2>3. os' \in Machine
    BY <1>0, <1>3, <2>1, <2>2 DEF WriteFile, RestoreFile, RemoveFile
  <2>4. cli' = [cli EXCEPT !.todo = Tail(cli.todo)] /\ intact' = intact /\ still' = still
    BY <1>3 DEF WriteFile, RestoreFile, RemoveFile, Goes
  <2>5. cli' \in Invocation /\ cli'.backend = cli.backend
    BY <2>1, <2>4, <1>0 DEF Invocation
  <2> QED
    BY <1>0, <2>3, <2>4, <2>5, StillTyped
<1>4. ASSUME RunCommand \/ TryCommand \/ UnregisterCommand PROVE ScheduleTypeOK'
  <2>1. [cli EXCEPT !.todo = Tail(cli.todo)] \in Invocation
    BY <1>4, StepIsTyped DEF RunCommand, TryCommand, UnregisterCommand, Kind
  <2>2. os' \in Machine
    BY <1>0, <1>4, EffectIsTyped DEF RunCommand, TryCommand, UnregisterCommand
  <2>3. cli' = [cli EXCEPT !.todo = Tail(cli.todo)] /\ intact' = intact /\ still' = still
    BY <1>4 DEF RunCommand, TryCommand, UnregisterCommand, Goes
  <2>4. cli' \in Invocation /\ cli'.backend = cli.backend
    BY <2>1, <2>3, <1>0 DEF Invocation
  <2> QED
    BY <1>0, <2>2, <2>3, <2>4, StillTyped
<1>5. ASSUME CommandFails, cli.backend = native PROVE ScheduleTypeOK'
  <2>1. os' \in Machine
    BY <1>0, <1>5, EffectIsTyped DEF CommandFails
  <2>2. Rollback(cli.backend) \in Seq(Steps)
    BY <1>5, RollbackIs, StepsAreTyped
  <2>3. cli' = [cli EXCEPT !.at = "rollback", !.todo = Rollback(cli.backend)]
        /\ intact' = intact /\ still' = still
    BY <1>5 DEF CommandFails
  <2>4. cli' \in Invocation /\ cli'.backend = cli.backend
    BY <1>0, <2>2, <2>3 DEF Invocation
  <2> QED
    BY <1>0, <2>1, <2>3, <2>4, StillTyped
<1>6. ASSUME TryFails \/ PutBack \/ PutBackFails \/ UnregisterMistaken PROVE ScheduleTypeOK'
  <2>1. /\ StepAhead /\ Tail(cli.todo) \in Seq(Steps) /\ <<>> \in Seq(Steps)
    BY <1>6, StepIsTyped, StepsAreTyped DEF TryFails, PutBack, PutBackFails, UnregisterMistaken, Kind
  <2>2. os' \in Machine
    BY <1>0, <1>6 DEF TryFails, PutBack, PutBackFails, UnregisterMistaken, Machine
  <2>3. cli' \in Invocation /\ cli'.backend = cli.backend
    BY <1>0, <1>6, <2>1 DEF TryFails, PutBack, PutBackFails, UnregisterMistaken, Goes, Invocation
  <2>4. intact' \in BOOLEAN /\ still' = still
    BY <1>0, <1>6 DEF TryFails, PutBack, PutBackFails, UnregisterMistaken
  <2> QED
    BY <1>0, <2>2, <2>3, <2>4, StillTyped
<1>7. ASSUME Breaking \/ WriteFails PROVE ScheduleTypeOK'
  BY <1>0, <1>7, BreakingIs, WriteFailsIs, StillTyped
<1>8. ASSUME Finish, cli.backend \in Backends,
             cli.at \in {"install", "cron"} => cli.backend \in {"cron", native}
      PROVE  ScheduleTypeOK'
  <2>1. cli.at \in {"install", "cron", "remove", "rollback"}
    BY <1>0, <1>8 DEF Finish, CliBusy, Invocation
  <2>2. scheduleFile' \in {"none", "cron", native}
    BY <1>0, <1>8, <2>1 DEF Finish, ScheduleTypeOK
  <2>3. <<>> \in Seq(Int)
    OBVIOUS
  <2>4. cli' \in Invocation /\ cli'.backend = cli.backend
    BY <1>0, <1>8, <2>1, <2>3 DEF Finish, Invocation
  <2> QED
    BY <1>0, <1>8, <2>2, <2>4 DEF Finish, ScheduleTypeOK, user
<1>17. ASSUME RecordFails PROVE ScheduleTypeOK'
  <2>1. <<>> \in Seq(Int)
    OBVIOUS
  <2>2. cli' \in Invocation /\ cli'.backend = cli.backend
    BY <1>0, <1>17, <2>1 DEF RecordFails, Invocation
  <2>3. os' = os /\ still' = still /\ intact' \in BOOLEAN
    BY <1>0, <1>17 DEF RecordFails
  <2> QED
    BY <1>0, <2>2, <2>3, StillTyped
<1>9. ASSUME ReadCrontab PROVE ScheduleTypeOK'
  <2>1. Argument \in {"install", "remove"}
    BY <1>9, StepIsTyped DEF ReadCrontab, Kind
  <2>2. <<<<"rewrite", Argument>>>> \in Seq(Steps)
    <3>1. <<"rewrite", Argument>> \in Steps
      BY <2>1 DEF Steps
    <3> HIDE DEF Steps
    <3> QED
      BY <3>1
  <2>4. PICK text \in Captured(crontab) :
          cli' = [cli EXCEPT !.table = crontab, !.read = text,
                             !.todo = <<<<"rewrite", Argument>>>>]
    BY <1>9 DEF ReadCrontab
  <2>5. text \in Seq(Int)
    BY <1>0, CapturedIs
  <2>3. cli' \in Invocation /\ cli'.backend = cli.backend
    BY <1>0, <2>2, <2>4, <2>5 DEF Invocation
  <2> QED
    BY <1>0, <1>9, <2>3, StillTyped DEF ReadCrontab
<1>10. ASSUME RewriteCrontab PROVE ScheduleTypeOK'
  <2>1. Rewritten \in Seq(Int) /\ <<>> \in Seq(Steps)
    BY <1>10, RewritingIsTyped, StepsAreTyped DEF RewriteCrontab
  <2>2. cli' \in Invocation /\ cli'.backend = cli.backend
    BY <1>0, <1>10, <2>1 DEF RewriteCrontab, Goes, Invocation
  <2> QED
    BY <1>0, <1>10, <2>1, <2>2 DEF RewriteCrontab, ScheduleTypeOK
<1>11. ASSUME CrontabFails PROVE ScheduleTypeOK'
  <2>1. crontab' \in Seq(Int) /\ undisturbed' \in BOOLEAN /\ intact' \in BOOLEAN
    BY <1>0, <1>11, RewritingIsTyped DEF CrontabFails
  <2>2. cli' \in Invocation /\ cli'.backend = "none"
    BY <1>11, NoCliIsTyped DEF CrontabFails, NoCli
  <2> QED
    BY <1>0, <1>11, <2>1, <2>2 DEF CrontabFails, ScheduleTypeOK
<1>12. ASSUME UserAddsLine PROVE ScheduleTypeOK'
  <2>1. edits \in Nat /\ <<edits>> \in Seq(Nat) /\ <<edits>> \in Seq(Int)
    BY DEF ScheduleTypeOK
  <2>2. /\ Append(crontab, edits) \in Seq(Int) /\ Append(lines, edits) \in Seq(Nat)
        /\ <<edits>> \o crontab \in Seq(Int) /\ <<edits>> \o lines \in Seq(Nat)
    BY <1>0, <2>1, AppendProperties, ConcatProperties
  <2>3. crontab' \in Seq(Int) /\ lines' \in Seq(Nat)
    BY <1>12, <2>2 DEF UserAddsLine
  <2> QED
    BY <1>0, <1>12, <2>1, <2>3 DEF UserAddsLine, ScheduleTypeOK
<1>13. ASSUME UserDropsMark PROVE ScheduleTypeOK'
  <2>1. PICK i \in DOMAIN crontab : crontab' = RemoveAt(crontab, i)
    BY <1>13 DEF UserDropsMark
  <2>2. i \in 1..Len(crontab) /\ \A k \in 1..Len(crontab) : crontab[k] \in Int
    BY <1>0, <2>1, ElementOfSeq
  <2>3. SubSeq(crontab, 1, i - 1) \in Seq(Int)
    <3>1. \A k \in 1..i - 1 : crontab[k] \in Int
      BY <2>2
    <3>2. i - 1 \in Int
      BY <2>2
    <3> QED
      BY <3>1, <3>2, SubSeqProperties
  <2>4. SubSeq(crontab, i + 1, Len(crontab)) \in Seq(Int)
    <3>1. \A k \in i + 1..Len(crontab) : crontab[k] \in Int
      BY <2>2
    <3>2. i + 1 \in Int /\ Len(crontab) \in Int
      BY <1>0, <2>2
    <3> QED
      BY <3>1, <3>2, SubSeqProperties
  <2>5. crontab' \in Seq(Int)
    BY <2>1, <2>3, <2>4, ConcatProperties DEF RemoveAt
  <2> QED
    <3>1. /\ edits' = edits + 1 /\ undisturbed' = FALSE
          /\ UNCHANGED <<native, os, scheduleFile, cli, intact, lines, setups>>
      BY <1>13 DEF UserDropsMark
    <3>2. undisturbed' \in BOOLEAN
      BY <3>1, Zenon
    <3>3. edits' \in Nat
      <4>1. edits \in Nat
        BY DEF ScheduleTypeOK
      <4>2. edits' = edits + 1
        BY <3>1
      <4> QED
        BY <4>1, <4>2
    <3>4. UNCHANGED <<native, os, scheduleFile, cli, intact, lines, setups>>
      BY <3>1
    <3> QED
      BY <2>5, <3>2, <3>3, <3>4 DEF ScheduleTypeOK
<1>14. ASSUME UNCHANGED scheduleVars PROVE ScheduleTypeOK'
  BY <1>14 DEF scheduleVars, ScheduleTypeOK
<1>15. CommandFails => cli.backend = native
  BY KindTells DEF CommandFails, Kind
<1>16. /\ Finish => cli.backend \in Backends
       /\ cli.at \in {"install", "cron"} => cli.backend \in {"cron", native}
  BY <1>0 DEF Finish, CliBusy, Placed, Backends, Invocation, ScheduleTypeOK
<1> QED
  BY <1>1, <1>2, <1>3, <1>4, <1>5, <1>6, <1>7, <1>8, <1>9, <1>10, <1>11, <1>12, <1>13, <1>14,
     <1>15, <1>16, <1>17 DEF ScheduleNext, Breaking

-----------------------------------------------------------------------------
(* Which invocation is under way.                                          *)

\* After a step of the machinery its tail is left.
LEMMA TailStaysPlaced ==
  ASSUME ScheduleTypeOK, Placed, StepAhead, cli.backend = native,
         cli'.at = cli.at, cli'.backend = cli.backend, cli'.plan = cli.plan,
         cli'.todo \in {Tail(cli.todo), <<>>}, still' = still, intact' => cli'.clean
  PROVE  Placed'
<1>0. native' = native /\ scheduleFile' = scheduleFile /\ native # "cron"
  BY DEF still, ScheduleTypeOK, Natives
<1>1. cli.at = "install" => cli'.todo \in Seq(Forth)
  BY StepsAreTyped, HeadTailProperties DEF Placed, StepAhead
<1>2. cli.at = "rollback" => cli'.todo \in Seq(Back)
  BY StepsAreTyped, HeadTailProperties DEF Placed, StepAhead
<1>3. cli.at = "remove" => cli'.todo \in Seq(Off)
  BY <1>0, StepsAreTyped, HeadTailProperties DEF Placed, StepAhead
<1>4. cli.at # "cron"
  BY <1>0 DEF Placed
<1> QED
  BY <1>0, <1>1, <1>2, <1>3, <1>4 DEF Placed

LEMMA IdleIsPlaced ==
  ASSUME cli'.at = "idle", intact' => cli'.clean
  PROVE  Placed'
  BY DEF Placed

LEMMA RewriteTodo ==
  ASSUME ScheduleTypeOK, Placed, ReadCrontab
  PROVE  /\ cli.at = "cron" => cli.todo = CRI /\ cli'.todo = CWI
         /\ cli.at = "remove" => cli.todo = CRR /\ cli'.todo = CWR
         /\ cli'.at = cli.at /\ cli'.backend = cli.backend /\ cli'.clean = cli.clean
         /\ cli'.before = cli.before /\ cli'.table = crontab /\ cli'.read \in Captured(crontab)
<1>1. Kind("read") /\ StepAhead
  BY DEF ReadCrontab, Kind
<1>2. cli.backend = "cron" /\ cli.at \in {"cron", "remove"} /\ Head(cli.todo)[1] = "read"
  BY <1>1, KindTells DEF Kind
<1>3. cli.at = "cron" => cli.todo = CRI
  BY <1>1, <1>2, CrontabSteps DEF Placed, StepAhead
<1>4. cli.at = "remove" => cli.todo = CRR
  BY <1>1, <1>2, CrontabSteps DEF Placed, StepAhead
<1>5. PICK text \in Captured(crontab) :
        cli' = [cli EXCEPT !.table = crontab, !.read = text,
                           !.todo = <<<<"rewrite", Argument>>>>]
  BY DEF ReadCrontab
<1>6. /\ cli'.todo = <<<<"rewrite", Argument>>>>
      /\ cli'.at = cli.at /\ cli'.backend = cli.backend /\ cli'.clean = cli.clean
      /\ cli'.before = cli.before /\ cli'.table = crontab /\ cli'.read \in Captured(crontab)
  BY <1>5 DEF ScheduleTypeOK, Invocation
<1>7. cli.todo = CRI => Argument = "install"
  BY CrontabSteps DEF Argument
<1>8. cli.todo = CRR => Argument = "remove"
  BY CrontabSteps DEF Argument
<1>9. /\ cli.todo = CRI => <<<<"rewrite", Argument>>>> = CWI
      /\ cli.todo = CRR => <<<<"rewrite", Argument>>>> = CWR
  BY <1>7, <1>8, Zenon DEF CWI, CWR
<1> QED
  BY <1>3, <1>4, <1>6, <1>9

LEMMA PlacedInductive ==
  ASSUME ScheduleTypeOK, Placed, [ScheduleNext]_scheduleVars
  PROVE  Placed'
<1>0. /\ cli \in Invocation /\ cli.backend \in {"none", "cron", native}
      /\ native \in Natives /\ native \notin {"none", "cron"}
      /\ cli.at \in {"idle", "install", "remove", "rollback", "cron"}
  BY DEF ScheduleTypeOK, Invocation, Natives
<1>1. ASSUME NEW b \in Backends, NEW p \in Plans, SetupInstall(b, p) PROVE Placed'
  <2>1. /\ b \in {native, "cron"} /\ scheduleFile \in {"none", b}
        /\ native' = native /\ scheduleFile' = scheduleFile
        /\ cli'.at = IF b = "cron" THEN "cron" ELSE "install"
        /\ cli'.backend = b /\ cli'.plan = p /\ cli'.clean = TRUE
        /\ cli'.todo = InstallTodo(b)
    BY <1>1, SetupInstallIs
  <2>2. CASE b = "cron"
    <3>1. cli'.todo = CRI
      BY <2>1, <2>2 DEF InstallTodo
    <3> QED
      BY <1>0, <2>1, <2>2, <3>1 DEF Placed
  <2>3. CASE b # "cron"
    <3>1. cli'.todo \in Seq(Forth)
      BY <1>0, <2>1, <2>3, StepsAreTyped DEF Natives, InstallTodo
    <3> QED
      BY <1>0, <2>1, <2>3, <3>1 DEF Placed
  <2> QED
    BY <2>2, <2>3
<1>2. ASSUME SetupRemove PROVE Placed'
  <2>1. /\ scheduleFile # "none" /\ scheduleFile \in {"cron", native}
        /\ native' = native /\ scheduleFile' = scheduleFile
        /\ cli'.at = "remove" /\ cli'.backend = scheduleFile /\ cli'.clean = TRUE
        /\ cli'.todo = RemovalTodo(scheduleFile)
    BY <1>2, SetupRemoveIs DEF ScheduleTypeOK
  <2>2. scheduleFile # "cron" => cli'.todo \in Seq(Off)
    BY <1>0, <2>1, StepsAreTyped DEF Natives, RemovalTodo
  <2>3. scheduleFile = "cron" => cli'.todo = CRR
    BY <2>1 DEF RemovalTodo
  <2> QED
    BY <2>1, <2>2, <2>3 DEF Placed
<1>3. ASSUME WriteFile \/ RestoreFile \/ RemoveFile \/ RunCommand \/ TryCommand \/ UnregisterCommand
             \/ TryFails \/ PutBack \/ PutBackFails \/ UnregisterMistaken
      PROVE  Placed'
  <2>1. StepAhead /\ cli.backend = native
    BY <1>3, KindTells DEF WriteFile, RestoreFile, RemoveFile, RunCommand, TryCommand,
       UnregisterCommand, TryFails, PutBack, PutBackFails, UnregisterMistaken, Kind
  <2>2. /\ cli'.at = cli.at /\ cli'.backend = cli.backend /\ cli'.plan = cli.plan
        /\ cli'.todo \in {Tail(cli.todo), <<>>}
    BY <1>0, <1>3 DEF WriteFile, RestoreFile, RemoveFile, RunCommand, TryCommand,
       UnregisterCommand, TryFails, PutBack, PutBackFails, UnregisterMistaken, Goes, Invocation
  <2>3. intact' => cli'.clean
    BY <1>0, <1>3 DEF WriteFile, RestoreFile, RemoveFile, RunCommand, TryCommand,
       UnregisterCommand, TryFails, PutBack, PutBackFails, UnregisterMistaken, Goes, Invocation, Placed
  <2>4. still' = still
    BY <1>3 DEF WriteFile, RestoreFile, RemoveFile, RunCommand, TryCommand,
       UnregisterCommand, TryFails, PutBack, PutBackFails, UnregisterMistaken
  <2> QED
    BY <2>1, <2>2, <2>3, <2>4, TailStaysPlaced
<1>4. ASSUME CommandFails PROVE Placed'
  <2>1. cli.at = "install" /\ cli.backend = native
    BY <1>4, KindTells DEF CommandFails, Kind
  <2>2. Rollback(cli.backend) \in Seq(Back)
    BY <2>1, RollbackIs
  <2>3. /\ cli' = [cli EXCEPT !.at = "rollback", !.todo = Rollback(cli.backend)]
        /\ intact' = intact /\ native' = native /\ scheduleFile' = scheduleFile
    BY <1>4 DEF CommandFails, still
  <2>4. /\ cli'.at = "rollback" /\ cli'.todo = Rollback(cli.backend)
        /\ cli'.backend = cli.backend /\ cli'.clean = cli.clean
    BY <1>0, <2>3 DEF Invocation
  <2> QED
    BY <2>1, <2>2, <2>3, <2>4 DEF Placed
<1>5. ASSUME Breaking \/ WriteFails \/ CrontabFails PROVE Placed'
  <2>1. cli'.at = "idle" /\ cli'.clean = TRUE
    BY <1>5, BreakingIs, WriteFailsIs DEF CrontabFails, NoCli
  <2> QED
    BY <2>1, IdleIsPlaced
<1>6. ASSUME Finish \/ RecordFails PROVE Placed'
  <2>1. cli'.at = "idle" /\ cli'.clean = cli.clean
    BY <1>0, <1>6 DEF Finish, RecordFails, Invocation
  <2>2. intact' => intact
    BY <1>6, Zenon DEF Finish, RecordFails
  <2> QED
    BY <2>1, <2>2, IdleIsPlaced DEF Placed
<1>7. ASSUME ReadCrontab PROVE Placed'
  <2>1. cli.at \in {"cron", "remove"} /\ cli.backend = "cron"
    BY <1>7, KindTells DEF ReadCrontab, Kind
  <2>2. /\ cli'.at = cli.at /\ cli'.backend = cli.backend /\ cli'.clean = cli.clean
        /\ cli.at = "cron" => cli'.todo = CWI
        /\ cli.at = "remove" => cli'.todo = CWR
    BY <1>0, <1>7, RewriteTodo DEF Invocation
  <2>3. intact' = intact /\ native' = native /\ scheduleFile' = scheduleFile
    BY <1>7 DEF ReadCrontab, still
  <2> QED
    BY <2>1, <2>2, <2>3 DEF Placed
<1>8. ASSUME RewriteCrontab PROVE Placed'
  <2>1. cli.at \in {"cron", "remove"} /\ cli.backend = "cron"
    BY <1>8, KindTells DEF RewriteCrontab, Kind
  <2>2. /\ cli'.at = cli.at /\ cli'.backend = cli.backend /\ cli'.clean = cli.clean
        /\ cli'.todo = <<>>
    BY <1>0, <1>8 DEF RewriteCrontab, Goes, Invocation
  <2>3. intact' = intact /\ native' = native /\ scheduleFile' = scheduleFile
    BY <1>8 DEF RewriteCrontab
  <2> QED
    BY <2>1, <2>2, <2>3 DEF Placed
<1>9. ASSUME UserAddsLine \/ UserDropsMark \/ UNCHANGED scheduleVars PROVE Placed'
  <2>1. cli' = cli /\ intact' = intact /\ native' = native /\ scheduleFile' = scheduleFile
    BY <1>9 DEF UserAddsLine, UserDropsMark, scheduleVars
  <2> QED
    BY <2>1 DEF Placed
<1> QED
  BY <1>1, <1>2, <1>3, <1>4, <1>5, <1>6, <1>7, <1>8, <1>9 DEF ScheduleNext, Breaking

-----------------------------------------------------------------------------
(* The points of an installation, of its rollback and of a removal.        *)

LEMMA EffectsAre ==
  ASSUME NEW o \in Machine, NEW p
  PROVE  /\ Possible("bootstrap", o) <=> o.timer \in Plans /\ ~o.active
         /\ Possible("enable-now", o) <=> o.timer # 0
         /\ Possible("bootout", o) <=> o.active
         /\ Possible("bootout?", o) <=> o.active
         /\ Possible("disable-now", o) <=> o.active
         /\ Possible("battery", o) <=> o.task # 0
         /\ Possible("delete", o) <=> o.task # 0
         /\ Possible("daemon-reload", o) /\ Possible("create", o) /\ Possible("enable", o)
         /\ Effect("bootout", o, p) = [o EXCEPT !.active = FALSE, !.known = 0]
         /\ Effect("bootout?", o, p) = [o EXCEPT !.active = FALSE, !.known = 0]
         /\ Effect("bootstrap", o, p) = [o EXCEPT !.active = TRUE, !.known = o.timer]
         /\ Effect("enable", o, p) = o
         /\ Effect("daemon-reload", o, p) = [o EXCEPT !.known = o.service]
         /\ Effect("daemon-reload?", o, p) = [o EXCEPT !.known = o.service]
         /\ Effect("enable-now", o, p) = [o EXCEPT !.active = TRUE]
         /\ Effect("disable-now", o, p) = [o EXCEPT !.active = FALSE]
         /\ Effect("create", o, p) = [o EXCEPT !.task = p, !.battery = FALSE]
         /\ Effect("battery", o, p) = [o EXCEPT !.battery = TRUE]
         /\ Effect("delete", o, p) = [o EXCEPT !.task = 0, !.battery = FALSE]
<1>1. /\ Possible("bootstrap", o) <=> o.timer \in Plans /\ ~o.active
      /\ Possible("enable-now", o) <=> o.timer # 0
      /\ Possible("bootout", o) <=> o.active
      /\ Possible("bootout?", o) <=> o.active
      /\ Possible("disable-now", o) <=> o.active
      /\ Possible("battery", o) <=> o.task # 0
      /\ Possible("delete", o) <=> o.task # 0
      /\ Possible("daemon-reload", o) /\ Possible("create", o) /\ Possible("enable", o)
  BY DEF Possible
<1>2. /\ Effect("bootout", o, p) = [o EXCEPT !.active = FALSE, !.known = 0]
      /\ Effect("bootout?", o, p) = [o EXCEPT !.active = FALSE, !.known = 0]
      /\ Effect("bootstrap", o, p) = [o EXCEPT !.active = TRUE, !.known = o.timer]
      /\ Effect("enable", o, p) = o
      /\ Effect("daemon-reload", o, p) = [o EXCEPT !.known = o.service]
      /\ Effect("daemon-reload?", o, p) = [o EXCEPT !.known = o.service]
  BY DEF Effect
<1>3. /\ Effect("enable-now", o, p) = [o EXCEPT !.active = TRUE]
      /\ Effect("disable-now", o, p) = [o EXCEPT !.active = FALSE]
      /\ Effect("create", o, p) = [o EXCEPT !.task = p, !.battery = FALSE]
      /\ Effect("battery", o, p) = [o EXCEPT !.battery = TRUE]
      /\ Effect("delete", o, p) = [o EXCEPT !.task = 0, !.battery = FALSE]
  BY DEF Effect
<1> QED
  BY <1>1, <1>2, <1>3

\* Steps that are left in a different number are different.
LEMMA LengthsAre ==
  /\ Len(<<>>) = 0
  /\ Len(LI4) = 4 /\ Len(LI3) = 3 /\ Len(LI2) = 2 /\ Len(LI1) = 1 /\ Len(LR4) = 4
  /\ Len(LR3) = 3 /\ Len(LR2) = 2 /\ Len(LR1) = 1 /\ Len(LD2) = 2 /\ Len(LX2) = 2
  /\ Len(RT1) = 1
  /\ Len(SI4) = 4 /\ Len(SI3) = 3 /\ Len(SI2) = 2 /\ Len(SI1) = 1 /\ Len(SR4) = 4
  /\ Len(SR3) = 3 /\ Len(SR2) = 2 /\ Len(SR1) = 1 /\ Len(SD3) = 3 /\ Len(SD2) = 2
  /\ Len(SX4) = 4 /\ Len(SX3) = 3 /\ Len(SX2) = 2 /\ Len(SX1) = 1
  /\ Len(WI2) = 2 /\ Len(WI1) = 1 /\ Len(WP1) = 1 /\ Len(WD1) = 1 /\ Len(WX1) = 1
  BY DEF LI4, LI3, LI2, LI1, LR4, LR3, LR2, LR1, LD2, LX2, RT1, SI4, SI3, SI2, SI1, SR4, SR3, SR2, SR1, SD3, SD2, SX4, SX3, SX2, SX1, WI2, WI1, WP1, WD1, WX1

LEMMA HeadTells ==
  ASSUME NEW kind, NEW argument, Head(cli.todo) = <<kind, argument>>
  PROVE  Argument = argument /\ \A k : Kind(k) => k = kind
  BY DEF Argument, Kind

LEMMA InstallingDiffers ==
  /\ LI4 # LI3 /\ LI4 # LI2 /\ LI4 # LI1 /\ LI4 # <<>> /\ LI3 # LI2
  /\ LI3 # LI1 /\ LI3 # <<>> /\ LI2 # LI1 /\ LI2 # <<>> /\ LI1 # <<>>
  /\ SI4 # SI3 /\ SI4 # SI2 /\ SI4 # SI1 /\ SI4 # <<>> /\ SI3 # SI2
  /\ SI3 # SI1 /\ SI3 # <<>> /\ SI2 # SI1 /\ SI2 # <<>> /\ SI1 # <<>>
  /\ WI2 # WI1 /\ WI2 # <<>> /\ WI1 # <<>>
<1>1. LI4 # LI3 /\ LI4 # LI2 /\ LI4 # LI1 /\ LI4 # <<>> /\ LI3 # LI2
  <2>1. Len(LI4) = 4 /\ Len(LI3) = 3 /\ Len(LI2) = 2 /\ Len(LI1) = 1
        /\ Len(<<>>) = 0
    BY LengthsAre
  <2> QED
    BY <2>1
<1>2. LI3 # LI1 /\ LI3 # <<>> /\ LI2 # LI1 /\ LI2 # <<>> /\ LI1 # <<>>
  <2>1. Len(LI3) = 3 /\ Len(LI2) = 2 /\ Len(LI1) = 1 /\ Len(<<>>) = 0
    BY LengthsAre
  <2> QED
    BY <2>1
<1>3. SI4 # SI3 /\ SI4 # SI2 /\ SI4 # SI1 /\ SI4 # <<>> /\ SI3 # SI2
  <2>1. Len(SI4) = 4 /\ Len(SI3) = 3 /\ Len(SI2) = 2 /\ Len(SI1) = 1
        /\ Len(<<>>) = 0
    BY LengthsAre
  <2> QED
    BY <2>1
<1>4. SI3 # SI1 /\ SI3 # <<>> /\ SI2 # SI1 /\ SI2 # <<>> /\ SI1 # <<>>
  <2>1. Len(SI3) = 3 /\ Len(SI2) = 2 /\ Len(SI1) = 1 /\ Len(<<>>) = 0
    BY LengthsAre
  <2> QED
    BY <2>1
<1>5. WI2 # WI1 /\ WI2 # <<>> /\ WI1 # <<>>
  <2>1. Len(WI2) = 2 /\ Len(WI1) = 1 /\ Len(<<>>) = 0
    BY LengthsAre
  <2> QED
    BY <2>1
<1> QED
  BY <1>1, <1>2, <1>3, <1>4, <1>5

LEMMA InstallationAdvances ==
  ASSUME ScheduleTypeOK, WriteFile \/ RunCommand,
         Apart(os, cli.before), Installing(cli.todo, os, cli.before, cli.plan)
  PROVE  Apart(os', cli.before) /\ Installing(Tail(cli.todo), os', cli.before, cli.plan)
<1>0. /\ os \in Machine /\ cli.before \in Machine /\ cli.plan \in Contents
      /\ native \in Natives /\ StepAhead
  BY DEF ScheduleTypeOK, Invocation, Kind, WriteFile, RunCommand
<1>1. CASE native = "launchd"
  <2>0. cli.todo = LI4 \/ cli.todo = LI3 \/ cli.todo = LI2 \/ cli.todo = LI1
    BY <1>0, <1>1 DEF Installing, StepAhead
  <2>1. CASE cli.todo = LI4
    <3>1. Head(cli.todo) = <<"write", "timer">> /\ Tail(cli.todo) = LI3
      BY <2>1, LaunchdSteps
    <3>3. os' = [os EXCEPT !.timer = cli.plan]
      BY <3>1, HeadTells DEF WriteFile, RunCommand, Tolerated
    <3>5. os'.timer = cli.plan
      BY <1>0, <1>1, <3>3 DEF Machine
    <3>6. Apart(os', cli.before)
      BY <1>0, <1>1, <3>3 DEF Apart, Machine
    <3> QED
      BY <1>1, <3>1, <3>5, <3>6 DEF Installing
  <2>2. CASE cli.todo = LI3
    <3>1. Head(cli.todo) = <<"run", "bootout?">> /\ Tail(cli.todo) = LI2
      BY <2>2, LaunchdSteps
    <3>2. os.timer = cli.plan
      BY <1>1, <2>2, InstallingDiffers DEF Installing
    <3>3. os' = os \/ os' = Effect("bootout?", os, cli.plan)
      BY <3>1, HeadTells DEF WriteFile, RunCommand, Tolerated
    <3>4. Effect("bootout?", os, cli.plan) = [os EXCEPT !.active = FALSE, !.known = 0]
      BY <1>0, EffectsAre
    <3>5. os'.timer = cli.plan
      BY <1>0, <1>1, <3>2, <3>3, <3>4 DEF Machine
    <3>6. Apart(os', cli.before)
      BY <1>0, <1>1, <3>3, <3>4 DEF Apart, Machine
    <3> QED
      BY <1>1, <3>1, <3>5, <3>6 DEF Installing
  <2>3. CASE cli.todo = LI2
    <3>1. Head(cli.todo) = <<"run", "bootstrap">> /\ Tail(cli.todo) = LI1
      BY <2>3, LaunchdSteps
    <3>2. os.timer = cli.plan
      BY <1>1, <2>3, InstallingDiffers DEF Installing
    <3>3. Possible("bootstrap", os) /\ os' = Effect("bootstrap", os, cli.plan)
      BY <3>1, HeadTells DEF WriteFile, RunCommand, Tolerated
    <3>4. /\ Effect("bootstrap", os, cli.plan) = [os EXCEPT !.active = TRUE, !.known = os.timer]
          /\ Possible("bootstrap", os) <=> os.timer \in Plans /\ ~os.active
      BY <1>0, EffectsAre
    <3>5. os'.timer = cli.plan /\ os'.active /\ os'.known = cli.plan
      BY <1>0, <1>1, <3>2, <3>3, <3>4 DEF Machine
    <3>6. Apart(os', cli.before)
      BY <1>0, <1>1, <3>3, <3>4 DEF Apart, Machine
    <3> QED
      BY <1>1, <3>1, <3>5, <3>6 DEF Installing
  <2>4. CASE cli.todo = LI1
    <3>1. Head(cli.todo) = <<"run", "enable">> /\ Tail(cli.todo) = <<>>
      BY <2>4, LaunchdSteps
    <3>2. os.timer = cli.plan /\ os.active /\ os.known = cli.plan
      BY <1>1, <2>4, InstallingDiffers DEF Installing
    <3>3. Possible("enable", os) /\ os' = Effect("enable", os, cli.plan)
      BY <3>1, HeadTells DEF WriteFile, RunCommand, Tolerated
    <3>4. /\ Effect("enable", os, cli.plan) = os
          /\ Possible("enable", os)
      BY <1>0, EffectsAre
    <3>5. os'.timer = cli.plan /\ os'.active /\ os'.known = cli.plan
      BY <1>0, <1>1, <3>2, <3>3, <3>4 DEF Machine
    <3>6. Apart(os', cli.before)
      BY <1>0, <1>1, <3>3, <3>4 DEF Apart, Machine
    <3> QED
      BY <1>1, <3>1, <3>5, <3>6 DEF Installing
  <2> QED
    BY <2>0, <2>1, <2>2, <2>3, <2>4
<1>2. CASE native = "systemd"
  <2>0. cli.todo = SI4 \/ cli.todo = SI3 \/ cli.todo = SI2 \/ cli.todo = SI1
    BY <1>0, <1>2 DEF Installing, StepAhead
  <2>1. CASE cli.todo = SI4
    <3>1. Head(cli.todo) = <<"write", "service">> /\ Tail(cli.todo) = SI3
      BY <2>1, SystemdSteps
    <3>2. os.known = cli.before.known /\ os.active = cli.before.active
      BY <1>2, <2>1, InstallingDiffers DEF Installing
    <3>3. os' = [os EXCEPT !.service = cli.plan]
      BY <3>1, HeadTells DEF WriteFile, RunCommand, Tolerated
    <3>5. os'.service = cli.plan /\ os'.known = cli.before.known /\ os'.active = cli.before.active
      BY <1>0, <1>2, <3>2, <3>3 DEF Machine
    <3>6. Apart(os', cli.before)
      BY <1>0, <1>2, <3>3 DEF Apart, Machine
    <3> QED
      BY <1>2, <3>1, <3>5, <3>6 DEF Installing
  <2>2. CASE cli.todo = SI3
    <3>1. Head(cli.todo) = <<"write", "timer">> /\ Tail(cli.todo) = SI2
      BY <2>2, SystemdSteps
    <3>2. os.service = cli.plan
      BY <1>2, <2>2, InstallingDiffers DEF Installing
    <3>3. os' = [os EXCEPT !.timer = cli.plan]
      BY <3>1, HeadTells DEF WriteFile, RunCommand, Tolerated
    <3>5. os'.service = cli.plan /\ os'.timer = cli.plan
      BY <1>0, <1>2, <3>2, <3>3 DEF Machine
    <3>6. Apart(os', cli.before)
      BY <1>0, <1>2, <3>3 DEF Apart, Machine
    <3> QED
      BY <1>2, <3>1, <3>5, <3>6 DEF Installing
  <2>3. CASE cli.todo = SI2
    <3>1. Head(cli.todo) = <<"run", "daemon-reload">> /\ Tail(cli.todo) = SI1
      BY <2>3, SystemdSteps
    <3>2. os.service = cli.plan /\ os.timer = cli.plan
      BY <1>2, <2>3, InstallingDiffers DEF Installing
    <3>3. Possible("daemon-reload", os) /\ os' = Effect("daemon-reload", os, cli.plan)
      BY <3>1, HeadTells DEF WriteFile, RunCommand, Tolerated
    <3>4. /\ Effect("daemon-reload", os, cli.plan) = [os EXCEPT !.known = os.service]
          /\ Possible("daemon-reload", os)
      BY <1>0, EffectsAre
    <3>5. os'.service = cli.plan /\ os'.timer = cli.plan /\ os'.known = cli.plan
      BY <1>0, <1>2, <3>2, <3>3, <3>4 DEF Machine
    <3>6. Apart(os', cli.before)
      BY <1>0, <1>2, <3>3, <3>4 DEF Apart, Machine
    <3> QED
      BY <1>2, <3>1, <3>5, <3>6 DEF Installing
  <2>4. CASE cli.todo = SI1
    <3>1. Head(cli.todo) = <<"run", "enable-now">> /\ Tail(cli.todo) = <<>>
      BY <2>4, SystemdSteps
    <3>2. os.service = cli.plan /\ os.timer = cli.plan /\ os.known = cli.plan
      BY <1>2, <2>4, InstallingDiffers DEF Installing
    <3>3. Possible("enable-now", os) /\ os' = Effect("enable-now", os, cli.plan)
      BY <3>1, HeadTells DEF WriteFile, RunCommand, Tolerated
    <3>4. /\ Effect("enable-now", os, cli.plan) = [os EXCEPT !.active = TRUE]
          /\ Possible("enable-now", os) <=> os.timer # 0
      BY <1>0, EffectsAre
    <3>5. os'.service = cli.plan /\ os'.timer = cli.plan /\ os'.known = cli.plan /\ os'.active
      BY <1>0, <1>2, <3>2, <3>3, <3>4 DEF Machine
    <3>6. Apart(os', cli.before)
      BY <1>0, <1>2, <3>3, <3>4 DEF Apart, Machine
    <3> QED
      BY <1>2, <3>1, <3>5, <3>6 DEF Installing
  <2> QED
    BY <2>0, <2>1, <2>2, <2>3, <2>4
<1>3. CASE native = "windows"
  <2>0. cli.todo = WI2 \/ cli.todo = WI1
    BY <1>0, <1>3 DEF Installing, StepAhead
  <2>1. CASE cli.todo = WI2
    <3>1. Head(cli.todo) = <<"run", "create">> /\ Tail(cli.todo) = WI1
      BY <2>1, WindowsSteps
    <3>3. Possible("create", os) /\ os' = Effect("create", os, cli.plan)
      BY <3>1, HeadTells DEF WriteFile, RunCommand, Tolerated
    <3>4. /\ Effect("create", os, cli.plan) = [os EXCEPT !.task = cli.plan, !.battery = FALSE]
          /\ Possible("create", os)
      BY <1>0, EffectsAre
    <3>5. os'.task = cli.plan
      BY <1>0, <1>3, <3>3, <3>4 DEF Machine
    <3>6. Apart(os', cli.before)
      BY <1>0, <1>3, <3>3, <3>4 DEF Apart, Machine
    <3> QED
      BY <1>3, <3>1, <3>5, <3>6 DEF Installing
  <2>2. CASE cli.todo = WI1
    <3>1. Head(cli.todo) = <<"run", "battery">> /\ Tail(cli.todo) = <<>>
      BY <2>2, WindowsSteps
    <3>2. os.task = cli.plan
      BY <1>3, <2>2, InstallingDiffers DEF Installing
    <3>3. Possible("battery", os) /\ os' = Effect("battery", os, cli.plan)
      BY <3>1, HeadTells DEF WriteFile, RunCommand, Tolerated
    <3>4. /\ Effect("battery", os, cli.plan) = [os EXCEPT !.battery = TRUE]
          /\ Possible("battery", os) <=> os.task # 0
      BY <1>0, EffectsAre
    <3>5. os'.task = cli.plan /\ os'.battery
      BY <1>0, <1>3, <3>2, <3>3, <3>4 DEF Machine
    <3>6. Apart(os', cli.before)
      BY <1>0, <1>3, <3>3, <3>4 DEF Apart, Machine
    <3> QED
      BY <1>3, <3>1, <3>5, <3>6 DEF Installing
  <2> QED
    BY <2>0, <2>1, <2>2
<1> QED
  BY <1>0, <1>1, <1>2, <1>3 DEF Natives

LEMMA ClearingDiffers ==
  /\ LD2 # RT1 /\ LD2 # <<>> /\ RT1 # <<>>
  /\ SD3 # SD2 /\ SD3 # RT1 /\ SD3 # <<>> /\ SD2 # RT1 /\ SD2 # <<>>
  /\ RT1 # <<>>
  /\ WD1 # <<>>
<1>1. LD2 # RT1 /\ LD2 # <<>> /\ RT1 # <<>>
  <2>1. Len(RT1) = 1 /\ Len(LD2) = 2 /\ Len(<<>>) = 0
    BY LengthsAre
  <2> QED
    BY <2>1
<1>2. SD3 # SD2 /\ SD3 # RT1 /\ SD3 # <<>> /\ SD2 # RT1 /\ SD2 # <<>>
  <2>1. Len(SD3) = 3 /\ Len(SD2) = 2 /\ Len(RT1) = 1 /\ Len(<<>>) = 0
    BY LengthsAre
  <2> QED
    BY <2>1
<1>3. RT1 # <<>>
  <2>1. Len(RT1) = 1 /\ Len(<<>>) = 0
    BY LengthsAre
  <2> QED
    BY <2>1
<1>4. WD1 # <<>>
  <2>1. Len(WD1) = 1 /\ Len(<<>>) = 0
    BY LengthsAre
  <2> QED
    BY <2>1
<1> QED
  BY <1>1, <1>2, <1>3, <1>4

LEMMA ClearingAdvances ==
  ASSUME ScheduleTypeOK, RestoreFile \/ RemoveFile \/ TryCommand \/ PutBack,
         Apart(os, cli.before), Clearing(cli.todo, os)
  PROVE  Apart(os', cli.before) /\ Clearing(Tail(cli.todo), os')
<1>0. /\ os \in Machine /\ cli.before \in Machine /\ cli.plan \in Contents
      /\ native \in Natives /\ StepAhead
  BY DEF ScheduleTypeOK, Invocation, Kind, RestoreFile, RemoveFile, TryCommand, PutBack
<1>1. CASE native = "launchd"
  <2>0. cli.todo = LD2 \/ cli.todo = RT1
    BY <1>0, <1>1 DEF Clearing, StepAhead
  <2>1. CASE cli.todo = LD2
    <3>1. Head(cli.todo) = <<"try", "bootout">> /\ Tail(cli.todo) = RT1
      BY <2>1, LaunchdSteps
    <3>3. os' = IF Possible("bootout", os) THEN Effect("bootout", os, cli.plan) ELSE os
      BY <3>1, HeadTells DEF RestoreFile, RemoveFile, TryCommand, PutBack, Tolerated
    <3>4. /\ Effect("bootout", os, cli.plan) = [os EXCEPT !.active = FALSE, !.known = 0]
          /\ Possible("bootout", os) <=> os.active
      BY <1>0, EffectsAre
    <3>5. ~os'.active
      BY <1>0, <1>1, <3>3, <3>4 DEF Machine
    <3>6. Apart(os', cli.before)
      BY <1>0, <1>1, <3>3, <3>4 DEF Apart, Machine
    <3> QED
      BY <1>1, <3>1, <3>5, <3>6 DEF Clearing
  <2>2. CASE cli.todo = RT1
    <3>1. Head(cli.todo) = <<"remove", "timer">> /\ Tail(cli.todo) = <<>>
      BY <2>2, LaunchdSteps
    <3>2. ~os.active
      BY <1>1, <2>2, ClearingDiffers DEF Clearing
    <3>3. os' = [os EXCEPT !.timer = 0]
      BY <3>1, HeadTells DEF RestoreFile, RemoveFile, TryCommand, PutBack, Tolerated
    <3>5. ~os'.active /\ os'.timer = 0
      BY <1>0, <1>1, <3>2, <3>3 DEF Machine
    <3>6. Apart(os', cli.before)
      BY <1>0, <1>1, <3>3 DEF Apart, Machine
    <3> QED
      BY <1>1, <3>1, <3>5, <3>6 DEF Clearing
  <2> QED
    BY <2>0, <2>1, <2>2
<1>2. CASE native = "systemd"
  <2>0. cli.todo = SD3 \/ cli.todo = SD2 \/ cli.todo = RT1
    BY <1>0, <1>2 DEF Clearing, StepAhead
  <2>1. CASE cli.todo = SD3
    <3>1. Head(cli.todo) = <<"try", "disable-now">> /\ Tail(cli.todo) = SD2
      BY <2>1, SystemdSteps
    <3>3. os' = IF Possible("disable-now", os) THEN Effect("disable-now", os, cli.plan) ELSE os
      BY <3>1, HeadTells DEF RestoreFile, RemoveFile, TryCommand, PutBack, Tolerated
    <3>4. /\ Effect("disable-now", os, cli.plan) = [os EXCEPT !.active = FALSE]
          /\ Possible("disable-now", os) <=> os.active
      BY <1>0, EffectsAre
    <3>5. ~os'.active
      BY <1>0, <1>2, <3>3, <3>4 DEF Machine
    <3>6. Apart(os', cli.before)
      BY <1>0, <1>2, <3>3, <3>4 DEF Apart, Machine
    <3> QED
      BY <1>2, <3>1, <3>5, <3>6 DEF Clearing
  <2>2. CASE cli.todo = SD2
    <3>1. Head(cli.todo) = <<"remove", "service">> /\ Tail(cli.todo) = RT1
      BY <2>2, SystemdSteps
    <3>2. ~os.active
      BY <1>2, <2>2, ClearingDiffers DEF Clearing
    <3>3. os' = [os EXCEPT !.service = 0]
      BY <3>1, HeadTells DEF RestoreFile, RemoveFile, TryCommand, PutBack, Tolerated
    <3>5. ~os'.active /\ os'.service = 0
      BY <1>0, <1>2, <3>2, <3>3 DEF Machine
    <3>6. Apart(os', cli.before)
      BY <1>0, <1>2, <3>3 DEF Apart, Machine
    <3> QED
      BY <1>2, <3>1, <3>5, <3>6 DEF Clearing
  <2>3. CASE cli.todo = RT1
    <3>1. Head(cli.todo) = <<"remove", "timer">> /\ Tail(cli.todo) = <<>>
      BY <2>3, LaunchdSteps
    <3>2. ~os.active /\ os.service = 0
      BY <1>2, <2>3, ClearingDiffers DEF Clearing
    <3>3. os' = [os EXCEPT !.timer = 0]
      BY <3>1, HeadTells DEF RestoreFile, RemoveFile, TryCommand, PutBack, Tolerated
    <3>5. ~os'.active /\ os'.service = 0 /\ os'.timer = 0
      BY <1>0, <1>2, <3>2, <3>3 DEF Machine
    <3>6. Apart(os', cli.before)
      BY <1>0, <1>2, <3>3 DEF Apart, Machine
    <3> QED
      BY <1>2, <3>1, <3>5, <3>6 DEF Clearing
  <2> QED
    BY <2>0, <2>1, <2>2, <2>3
<1>3. CASE native = "windows"
  <2>0. cli.todo = WD1
    BY <1>0, <1>3 DEF Clearing, StepAhead
  <2>1. CASE cli.todo = WD1
    <3>1. Head(cli.todo) = <<"try", "delete">> /\ Tail(cli.todo) = <<>>
      BY <2>1, WindowsSteps
    <3>2. os.task = 0 => ~os.battery
      BY <1>3, <2>1, ClearingDiffers DEF Clearing
    <3>3. os' = IF Possible("delete", os) THEN Effect("delete", os, cli.plan) ELSE os
      BY <3>1, HeadTells DEF RestoreFile, RemoveFile, TryCommand, PutBack, Tolerated
    <3>4. /\ Effect("delete", os, cli.plan) = [os EXCEPT !.task = 0, !.battery = FALSE]
          /\ Possible("delete", os) <=> os.task # 0
      BY <1>0, EffectsAre
    <3>5. os'.task = 0 /\ ~os'.battery
      BY <1>0, <1>3, <3>2, <3>3, <3>4 DEF Machine
    <3>6. Apart(os', cli.before)
      BY <1>0, <1>3, <3>3, <3>4 DEF Apart, Machine
    <3> QED
      BY <1>3, <3>1, <3>5, <3>6 DEF Clearing
  <2> QED
    BY <2>0, <2>1
<1> QED
  BY <1>0, <1>1, <1>2, <1>3 DEF Natives

\* What worked was written for a plan.
LEMMA WorkingHasFiles ==
  ASSUME NEW b \in Machine, Working(b), native \in Natives
  PROVE  /\ native # "windows" => /\ b.timer \in Plans /\ b.timer # 0
                                  /\ b.active /\ b.known = b.timer
         /\ native = "systemd" => b.service = b.timer
         /\ native = "windows" => b.task # 0 /\ b.battery
<1>1. PICK p \in Plans : Works(native, b, p)
  BY DEF Working
<1>2. p # 0
  BY ScheduleAssumption DEF Plans
<1> QED
  BY <1>1, <1>2, WorksIs DEF Natives

LEMMA RestoringDiffers ==
  /\ LR4 # LR3 /\ LR4 # LR2 /\ LR4 # LR1 /\ LR4 # <<>> /\ LR3 # LR2
  /\ LR3 # LR1 /\ LR3 # <<>> /\ LR2 # LR1 /\ LR2 # <<>> /\ LR1 # <<>>
  /\ SR4 # SR3 /\ SR4 # SR2 /\ SR4 # SR1 /\ SR4 # <<>> /\ SR3 # SR2
  /\ SR3 # SR1 /\ SR3 # <<>> /\ SR2 # SR1 /\ SR2 # <<>> /\ SR1 # <<>>
  /\ WP1 # <<>>
<1>1. LR4 # LR3 /\ LR4 # LR2 /\ LR4 # LR1 /\ LR4 # <<>> /\ LR3 # LR2
  <2>1. Len(LR4) = 4 /\ Len(LR3) = 3 /\ Len(LR2) = 2 /\ Len(LR1) = 1
        /\ Len(<<>>) = 0
    BY LengthsAre
  <2> QED
    BY <2>1
<1>2. LR3 # LR1 /\ LR3 # <<>> /\ LR2 # LR1 /\ LR2 # <<>> /\ LR1 # <<>>
  <2>1. Len(LR3) = 3 /\ Len(LR2) = 2 /\ Len(LR1) = 1 /\ Len(<<>>) = 0
    BY LengthsAre
  <2> QED
    BY <2>1
<1>3. SR4 # SR3 /\ SR4 # SR2 /\ SR4 # SR1 /\ SR4 # <<>> /\ SR3 # SR2
  <2>1. Len(SR4) = 4 /\ Len(SR3) = 3 /\ Len(SR2) = 2 /\ Len(SR1) = 1
        /\ Len(<<>>) = 0
    BY LengthsAre
  <2> QED
    BY <2>1
<1>4. SR3 # SR1 /\ SR3 # <<>> /\ SR2 # SR1 /\ SR2 # <<>> /\ SR1 # <<>>
  <2>1. Len(SR3) = 3 /\ Len(SR2) = 2 /\ Len(SR1) = 1 /\ Len(<<>>) = 0
    BY LengthsAre
  <2> QED
    BY <2>1
<1>5. WP1 # <<>>
  <2>1. Len(WP1) = 1 /\ Len(<<>>) = 0
    BY LengthsAre
  <2> QED
    BY <2>1
<1> QED
  BY <1>1, <1>2, <1>3, <1>4, <1>5

LEMMA RestoringAdvances ==
  ASSUME ScheduleTypeOK, RestoreFile \/ RemoveFile \/ TryCommand \/ PutBack,
         Working(cli.before), Apart(os, cli.before), Restoring(cli.todo, os, cli.before)
  PROVE  Apart(os', cli.before) /\ Restoring(Tail(cli.todo), os', cli.before)
<1>0. /\ os \in Machine /\ cli.before \in Machine /\ cli.plan \in Contents
      /\ native \in Natives /\ StepAhead
  BY DEF ScheduleTypeOK, Invocation, Kind, RestoreFile, RemoveFile, TryCommand, PutBack
<1>4. native # "windows" => cli.before.timer # 0 /\ cli.before.timer \in Plans
  BY <1>0, WorkingHasFiles
<1>1. CASE native = "launchd"
  <2>0. cli.todo = LR4 \/ cli.todo = LR3 \/ cli.todo = LR2 \/ cli.todo = LR1
    BY <1>0, <1>1 DEF Restoring, StepAhead
  <2>1. CASE cli.todo = LR4
    <3>1. Head(cli.todo) = <<"restore", "timer">> /\ Tail(cli.todo) = LR3
      BY <2>1, LaunchdSteps
    <3>3. os' = [os EXCEPT !.timer = cli.before.timer]
      BY <3>1, HeadTells DEF RestoreFile, RemoveFile, TryCommand, PutBack, Tolerated
    <3>5. os'.timer = cli.before.timer
      BY <1>0, <1>1, <3>3, <1>4 DEF Machine
    <3>6. Apart(os', cli.before)
      BY <1>0, <1>1, <3>3 DEF Apart, Machine
    <3> QED
      BY <1>1, <3>1, <3>5, <3>6 DEF Restoring
  <2>2. CASE cli.todo = LR3
    <3>1. Head(cli.todo) = <<"try", "bootout?">> /\ Tail(cli.todo) = LR2
      BY <2>2, LaunchdSteps
    <3>2. os.timer = cli.before.timer
      BY <1>1, <2>2, RestoringDiffers DEF Restoring
    <3>3. os' = IF Possible("bootout?", os) THEN Effect("bootout?", os, cli.plan) ELSE os
      BY <3>1, HeadTells DEF RestoreFile, RemoveFile, TryCommand, PutBack, Tolerated
    <3>4. /\ Effect("bootout?", os, cli.plan) = [os EXCEPT !.active = FALSE, !.known = 0]
          /\ Possible("bootout?", os) <=> os.active
      BY <1>0, EffectsAre
    <3>5. os'.timer = cli.before.timer /\ ~os'.active
      BY <1>0, <1>1, <3>2, <3>3, <3>4, <1>4 DEF Machine
    <3>6. Apart(os', cli.before)
      BY <1>0, <1>1, <3>3, <3>4 DEF Apart, Machine
    <3> QED
      BY <1>1, <3>1, <3>5, <3>6 DEF Restoring
  <2>3. CASE cli.todo = LR2
    <3>1. Head(cli.todo) = <<"try", "bootstrap">> /\ Tail(cli.todo) = LR1
      BY <2>3, LaunchdSteps
    <3>2. os.timer = cli.before.timer /\ ~os.active
      BY <1>1, <2>3, RestoringDiffers DEF Restoring
    <3>3. os' = IF Possible("bootstrap", os) THEN Effect("bootstrap", os, cli.plan) ELSE os
      BY <3>1, HeadTells DEF RestoreFile, RemoveFile, TryCommand, PutBack, Tolerated
    <3>4. /\ Effect("bootstrap", os, cli.plan) = [os EXCEPT !.active = TRUE, !.known = os.timer]
          /\ Possible("bootstrap", os) <=> os.timer \in Plans /\ ~os.active
      BY <1>0, EffectsAre
    <3>5. os'.timer = cli.before.timer /\ os'.active /\ os'.known = cli.before.timer
      BY <1>0, <1>1, <3>2, <3>3, <3>4, <1>4 DEF Machine
    <3>6. Apart(os', cli.before)
      BY <1>0, <1>1, <3>3, <3>4 DEF Apart, Machine
    <3> QED
      BY <1>1, <3>1, <3>5, <3>6 DEF Restoring
  <2>4. CASE cli.todo = LR1
    <3>1. Head(cli.todo) = <<"try", "enable">> /\ Tail(cli.todo) = <<>>
      BY <2>4, LaunchdSteps
    <3>2. os.timer = cli.before.timer /\ os.active /\ os.known = cli.before.timer
      BY <1>1, <2>4, RestoringDiffers DEF Restoring
    <3>3. os' = IF Possible("enable", os) THEN Effect("enable", os, cli.plan) ELSE os
      BY <3>1, HeadTells DEF RestoreFile, RemoveFile, TryCommand, PutBack, Tolerated
    <3>4. /\ Effect("enable", os, cli.plan) = os
          /\ Possible("enable", os)
      BY <1>0, EffectsAre
    <3>5. os'.timer = cli.before.timer /\ os'.active /\ os'.known = cli.before.timer
      BY <1>0, <1>1, <3>2, <3>3, <3>4, <1>4 DEF Machine
    <3>6. Apart(os', cli.before)
      BY <1>0, <1>1, <3>3, <3>4 DEF Apart, Machine
    <3> QED
      BY <1>1, <3>1, <3>5, <3>6 DEF Restoring
  <2> QED
    BY <2>0, <2>1, <2>2, <2>3, <2>4
<1>2. CASE native = "systemd"
  <2>0. cli.todo = SR4 \/ cli.todo = SR3 \/ cli.todo = SR2 \/ cli.todo = SR1
    BY <1>0, <1>2 DEF Restoring, StepAhead
  <2>1. CASE cli.todo = SR4
    <3>1. Head(cli.todo) = <<"restore", "service">> /\ Tail(cli.todo) = SR3
      BY <2>1, SystemdSteps
    <3>3. os' = [os EXCEPT !.service = cli.before.service]
      BY <3>1, HeadTells DEF RestoreFile, RemoveFile, TryCommand, PutBack, Tolerated
    <3>5. os'.service = cli.before.service
      BY <1>0, <1>2, <3>3, <1>4 DEF Machine
    <3>6. Apart(os', cli.before)
      BY <1>0, <1>2, <3>3 DEF Apart, Machine
    <3> QED
      BY <1>2, <3>1, <3>5, <3>6 DEF Restoring
  <2>2. CASE cli.todo = SR3
    <3>1. Head(cli.todo) = <<"restore", "timer">> /\ Tail(cli.todo) = SR2
      BY <2>2, SystemdSteps
    <3>2. os.service = cli.before.service
      BY <1>2, <2>2, RestoringDiffers DEF Restoring
    <3>3. os' = [os EXCEPT !.timer = cli.before.timer]
      BY <3>1, HeadTells DEF RestoreFile, RemoveFile, TryCommand, PutBack, Tolerated
    <3>5. os'.service = cli.before.service /\ os'.timer = cli.before.timer
      BY <1>0, <1>2, <3>2, <3>3, <1>4 DEF Machine
    <3>6. Apart(os', cli.before)
      BY <1>0, <1>2, <3>3 DEF Apart, Machine
    <3> QED
      BY <1>2, <3>1, <3>5, <3>6 DEF Restoring
  <2>3. CASE cli.todo = SR2
    <3>1. Head(cli.todo) = <<"try", "daemon-reload">> /\ Tail(cli.todo) = SR1
      BY <2>3, SystemdSteps
    <3>2. os.service = cli.before.service /\ os.timer = cli.before.timer
      BY <1>2, <2>3, RestoringDiffers DEF Restoring
    <3>3. os' = IF Possible("daemon-reload", os) THEN Effect("daemon-reload", os, cli.plan) ELSE os
      BY <3>1, HeadTells DEF RestoreFile, RemoveFile, TryCommand, PutBack, Tolerated
    <3>4. /\ Effect("daemon-reload", os, cli.plan) = [os EXCEPT !.known = os.service]
          /\ Possible("daemon-reload", os)
      BY <1>0, EffectsAre
    <3>5. os'.service = cli.before.service /\ os'.timer = cli.before.timer /\ os'.known = cli.before.service
      BY <1>0, <1>2, <3>2, <3>3, <3>4, <1>4 DEF Machine
    <3>6. Apart(os', cli.before)
      BY <1>0, <1>2, <3>3, <3>4 DEF Apart, Machine
    <3> QED
      BY <1>2, <3>1, <3>5, <3>6 DEF Restoring
  <2>4. CASE cli.todo = SR1
    <3>1. Head(cli.todo) = <<"try", "enable-now">> /\ Tail(cli.todo) = <<>>
      BY <2>4, SystemdSteps
    <3>2. os.service = cli.before.service /\ os.timer = cli.before.timer /\ os.known = cli.before.service
      BY <1>2, <2>4, RestoringDiffers DEF Restoring
    <3>3. os' = IF Possible("enable-now", os) THEN Effect("enable-now", os, cli.plan) ELSE os
      BY <3>1, HeadTells DEF RestoreFile, RemoveFile, TryCommand, PutBack, Tolerated
    <3>4. /\ Effect("enable-now", os, cli.plan) = [os EXCEPT !.active = TRUE]
          /\ Possible("enable-now", os) <=> os.timer # 0
      BY <1>0, EffectsAre
    <3>5. os'.service = cli.before.service /\ os'.timer = cli.before.timer /\ os'.known = cli.before.service /\ os'.active
      BY <1>0, <1>2, <3>2, <3>3, <3>4, <1>4 DEF Machine
    <3>6. Apart(os', cli.before)
      BY <1>0, <1>2, <3>3, <3>4 DEF Apart, Machine
    <3> QED
      BY <1>2, <3>1, <3>5, <3>6 DEF Restoring
  <2> QED
    BY <2>0, <2>1, <2>2, <2>3, <2>4
<1>3. CASE native = "windows"
  <2>0. cli.todo = WP1
    BY <1>0, <1>3 DEF Restoring, StepAhead
  <2>1. CASE cli.todo = WP1
    <3>1. Head(cli.todo) = <<"put-back", "task">> /\ Tail(cli.todo) = <<>>
      BY <2>1, WindowsSteps
    <3>3. os' = [os EXCEPT !.task = cli.before.task, !.battery = cli.before.battery]
      BY <3>1, HeadTells DEF RestoreFile, RemoveFile, TryCommand, PutBack, Tolerated
    <3>5. os'.task = cli.before.task /\ os'.battery = cli.before.battery
      BY <1>0, <1>3, <3>3, <1>4 DEF Machine
    <3>6. Apart(os', cli.before)
      BY <1>0, <1>3, <3>3 DEF Apart, Machine
    <3> QED
      BY <1>3, <3>1, <3>5, <3>6 DEF Restoring
  <2> QED
    BY <2>0, <2>1
<1> QED
  BY <1>0, <1>1, <1>2, <1>3 DEF Natives

LEMMA RemovingDiffers ==
  /\ LX2 # RT1 /\ LX2 # <<>> /\ RT1 # <<>>
  /\ SX4 # SX3 /\ SX4 # SX2 /\ SX4 # SX1 /\ SX4 # <<>> /\ SX3 # SX2
  /\ SX3 # SX1 /\ SX3 # <<>> /\ SX2 # SX1 /\ SX2 # <<>> /\ SX1 # <<>>
  /\ WX1 # <<>>
<1>1. LX2 # RT1 /\ LX2 # <<>> /\ RT1 # <<>>
  <2>1. Len(RT1) = 1 /\ Len(LX2) = 2 /\ Len(<<>>) = 0
    BY LengthsAre
  <2> QED
    BY <2>1
<1>2. SX4 # SX3 /\ SX4 # SX2 /\ SX4 # SX1 /\ SX4 # <<>> /\ SX3 # SX2
  <2>1. Len(SX4) = 4 /\ Len(SX3) = 3 /\ Len(SX2) = 2 /\ Len(SX1) = 1
        /\ Len(<<>>) = 0
    BY LengthsAre
  <2> QED
    BY <2>1
<1>3. SX3 # SX1 /\ SX3 # <<>> /\ SX2 # SX1 /\ SX2 # <<>> /\ SX1 # <<>>
  <2>1. Len(SX3) = 3 /\ Len(SX2) = 2 /\ Len(SX1) = 1 /\ Len(<<>>) = 0
    BY LengthsAre
  <2> QED
    BY <2>1
<1>4. WX1 # <<>>
  <2>1. Len(WX1) = 1 /\ Len(<<>>) = 0
    BY LengthsAre
  <2> QED
    BY <2>1
<1> QED
  BY <1>1, <1>2, <1>3, <1>4

LEMMA RemovalAdvances ==
  ASSUME ScheduleTypeOK, UnregisterCommand \/ RemoveFile \/ TryCommand,
         Apart(os, cli.before), Removing(cli.todo, os)
  PROVE  Apart(os', cli.before) /\ Removing(Tail(cli.todo), os')
<1>0. /\ os \in Machine /\ cli.before \in Machine /\ cli.plan \in Contents
      /\ native \in Natives /\ StepAhead
  BY DEF ScheduleTypeOK, Invocation, Kind, UnregisterCommand, RemoveFile, TryCommand, AlreadyAbsent
<1>1. CASE native = "launchd"
  <2>0. cli.todo = LX2 \/ cli.todo = RT1
    BY <1>0, <1>1 DEF Removing, StepAhead
  <2>1. CASE cli.todo = LX2
    <3>1. Head(cli.todo) = <<"unregister", "bootout">> /\ Tail(cli.todo) = RT1
      BY <2>1, LaunchdSteps
    <3>3. os' = IF Possible("bootout", os) THEN Effect("bootout", os, 0) ELSE os
      BY <3>1, HeadTells DEF UnregisterCommand, RemoveFile, TryCommand, AlreadyAbsent, Tolerated
    <3>4. /\ Effect("bootout", os, 0) = [os EXCEPT !.active = FALSE, !.known = 0]
          /\ Possible("bootout", os) <=> os.active
      BY <1>0, EffectsAre
    <3>5. ~os'.active
      BY <1>0, <1>1, <3>3, <3>4 DEF Machine
    <3>6. Apart(os', cli.before)
      BY <1>0, <1>1, <3>3, <3>4 DEF Apart, Machine
    <3> QED
      BY <1>1, <3>1, <3>5, <3>6 DEF Removing
  <2>2. CASE cli.todo = RT1
    <3>1. Head(cli.todo) = <<"remove", "timer">> /\ Tail(cli.todo) = <<>>
      BY <2>2, LaunchdSteps
    <3>2. ~os.active
      BY <1>1, <2>2, RemovingDiffers DEF Removing
    <3>3. os' = [os EXCEPT !.timer = 0]
      BY <3>1, HeadTells DEF UnregisterCommand, RemoveFile, TryCommand, AlreadyAbsent, Tolerated
    <3>5. ~os'.active /\ os'.timer = 0
      BY <1>0, <1>1, <3>2, <3>3 DEF Machine
    <3>6. Apart(os', cli.before)
      BY <1>0, <1>1, <3>3 DEF Apart, Machine
    <3> QED
      BY <1>1, <3>1, <3>5, <3>6 DEF Removing
  <2> QED
    BY <2>0, <2>1, <2>2
<1>2. CASE native = "systemd"
  <2>0. cli.todo = SX4 \/ cli.todo = SX3 \/ cli.todo = SX2 \/ cli.todo = SX1
    BY <1>0, <1>2 DEF Removing, StepAhead
  <2>1. CASE cli.todo = SX4
    <3>1. Head(cli.todo) = <<"unregister", "disable-now">> /\ Tail(cli.todo) = SX3
      BY <2>1, SystemdSteps
    <3>3. os' = IF Possible("disable-now", os) THEN Effect("disable-now", os, 0) ELSE os
      BY <3>1, HeadTells DEF UnregisterCommand, RemoveFile, TryCommand, AlreadyAbsent, Tolerated
    <3>4. /\ Effect("disable-now", os, 0) = [os EXCEPT !.active = FALSE]
          /\ Possible("disable-now", os) <=> os.active
      BY <1>0, EffectsAre
    <3>5. ~os'.active
      BY <1>0, <1>2, <3>3, <3>4 DEF Machine
    <3>6. Apart(os', cli.before)
      BY <1>0, <1>2, <3>3, <3>4 DEF Apart, Machine
    <3> QED
      BY <1>2, <3>1, <3>5, <3>6 DEF Removing
  <2>2. CASE cli.todo = SX3
    <3>1. Head(cli.todo) = <<"remove", "service">> /\ Tail(cli.todo) = SX2
      BY <2>2, SystemdSteps
    <3>2. ~os.active
      BY <1>2, <2>2, RemovingDiffers DEF Removing
    <3>3. os' = [os EXCEPT !.service = 0]
      BY <3>1, HeadTells DEF UnregisterCommand, RemoveFile, TryCommand, AlreadyAbsent, Tolerated
    <3>5. ~os'.active /\ os'.service = 0
      BY <1>0, <1>2, <3>2, <3>3 DEF Machine
    <3>6. Apart(os', cli.before)
      BY <1>0, <1>2, <3>3 DEF Apart, Machine
    <3> QED
      BY <1>2, <3>1, <3>5, <3>6 DEF Removing
  <2>3. CASE cli.todo = SX2
    <3>1. Head(cli.todo) = <<"remove", "timer">> /\ Tail(cli.todo) = SX1
      BY <2>3, SystemdSteps
    <3>2. ~os.active /\ os.service = 0
      BY <1>2, <2>3, RemovingDiffers DEF Removing
    <3>3. os' = [os EXCEPT !.timer = 0]
      BY <3>1, HeadTells DEF UnregisterCommand, RemoveFile, TryCommand, AlreadyAbsent, Tolerated
    <3>5. ~os'.active /\ os'.service = 0 /\ os'.timer = 0
      BY <1>0, <1>2, <3>2, <3>3 DEF Machine
    <3>6. Apart(os', cli.before)
      BY <1>0, <1>2, <3>3 DEF Apart, Machine
    <3> QED
      BY <1>2, <3>1, <3>5, <3>6 DEF Removing
  <2>4. CASE cli.todo = SX1
    <3>1. Head(cli.todo) = <<"try", "daemon-reload?">> /\ Tail(cli.todo) = <<>>
      BY <2>4, SystemdSteps
    <3>2. ~os.active /\ os.service = 0 /\ os.timer = 0
      BY <1>2, <2>4, RemovingDiffers DEF Removing
    <3>3. os' = os \/ os' = Effect("daemon-reload?", os, cli.plan)
      BY <3>1, HeadTells DEF UnregisterCommand, RemoveFile, TryCommand, AlreadyAbsent, Tolerated
    <3>4. Effect("daemon-reload?", os, cli.plan) = [os EXCEPT !.known = os.service]
      BY <1>0, EffectsAre
    <3>5. ~os'.active /\ os'.service = 0 /\ os'.timer = 0
      BY <1>0, <1>2, <3>2, <3>3, <3>4 DEF Machine
    <3>6. Apart(os', cli.before)
      BY <1>0, <1>2, <3>3, <3>4 DEF Apart, Machine
    <3> QED
      BY <1>2, <3>1, <3>5, <3>6 DEF Removing
  <2> QED
    BY <2>0, <2>1, <2>2, <2>3, <2>4
<1>3. CASE native = "windows"
  <2>0. cli.todo = WX1
    BY <1>0, <1>3 DEF Removing, StepAhead
  <2>1. CASE cli.todo = WX1
    <3>1. Head(cli.todo) = <<"unregister", "delete">> /\ Tail(cli.todo) = <<>>
      BY <2>1, WindowsSteps
    <3>2. os.task # 0
      BY <1>3, <2>1, RemovingDiffers DEF Removing
    <3>3. os' = IF Possible("delete", os) THEN Effect("delete", os, 0) ELSE os
      BY <3>1, HeadTells DEF UnregisterCommand, RemoveFile, TryCommand, AlreadyAbsent, Tolerated
    <3>4. /\ Effect("delete", os, 0) = [os EXCEPT !.task = 0, !.battery = FALSE]
          /\ Possible("delete", os) <=> os.task # 0
      BY <1>0, EffectsAre
    <3>5. os'.task = 0 /\ ~os'.battery
      BY <1>0, <1>3, <3>2, <3>3, <3>4 DEF Machine
    <3>6. Apart(os', cli.before)
      BY <1>0, <1>3, <3>3, <3>4 DEF Apart, Machine
    <3> QED
      BY <1>3, <3>1, <3>5, <3>6 DEF Removing
  <2> QED
    BY <2>0, <2>1
<1> QED
  BY <1>0, <1>1, <1>2, <1>3 DEF Natives

\* Where an installation fails, its rollback begins.
LEMMA FailureIsApart ==
  ASSUME ScheduleTypeOK, Placed, InstallPoints, CommandFails
  PROVE  /\ cli.at = "install" /\ cli.backend = native
         /\ Apart(os', cli.before)
         /\ native = "windows" /\ Blank(cli.before) => (os'.task = 0 => ~os'.battery)
<1>0. /\ os \in Machine /\ cli.before \in Machine /\ cli.plan \in Contents
      /\ native \in Natives /\ StepAhead /\ Kind("run")
  BY DEF ScheduleTypeOK, Invocation, Kind, CommandFails
<1>1. cli.at = "install" /\ cli.backend = native
  BY <1>0, KindTells
<1>2. /\ Apart(os, cli.before) /\ Installing(cli.todo, os, cli.before, cli.plan)
      /\ cli.plan # 0
  BY <1>1, ScheduleAssumption DEF InstallPoints, Placed, Plans
<1>3. os' = os \/ os' = Effect(Argument, os, cli.plan)
  BY DEF CommandFails
<1>4. CASE native = "launchd"
  <2>1. cli.todo = LI4 \/ cli.todo = LI3 \/ cli.todo = LI2 \/ cli.todo = LI1
    BY <1>0, <1>2, <1>4 DEF Installing, StepAhead
  <2>2. cli.todo # LI4
    <3>1. Head(LI4) = <<"write", "timer">>
      BY LaunchdSteps
    <3>2. \A a : Head(cli.todo) # <<"write", a>>
      BY <1>0, HeadTells
    <3> QED
      BY <3>1, <3>2
  <2>3. Argument \in {"bootout?", "bootstrap", "enable"}
    <3>1. /\ Head(LI3) = <<"run", "bootout?">> /\ Head(LI2) = <<"run", "bootstrap">>
          /\ Head(LI1) = <<"run", "enable">>
      BY LaunchdSteps
    <3> QED
      BY <2>1, <2>2, <3>1, HeadTells
  <2>4. /\ Effect("bootout?", os, cli.plan) = [os EXCEPT !.active = FALSE, !.known = 0]
        /\ Effect("bootstrap", os, cli.plan) = [os EXCEPT !.active = TRUE, !.known = os.timer]
        /\ Effect("enable", os, cli.plan) = os
    BY <1>0, EffectsAre
  <2>6. \A c \in {"bootout?", "bootstrap", "enable"} :
          LET e == Effect(c, os, cli.plan)
          IN  e.service = os.service /\ e.task = os.task /\ e.battery = os.battery
    <3>1. LET e == Effect("bootout?", os, cli.plan)
          IN  e.service = os.service /\ e.task = os.task /\ e.battery = os.battery
      BY <1>0, <2>4 DEF Machine
    <3>2. LET e == Effect("bootstrap", os, cli.plan)
          IN  e.service = os.service /\ e.task = os.task /\ e.battery = os.battery
      BY <1>0, <2>4 DEF Machine
    <3> QED
      BY <2>4, <3>1, <3>2
  <2>5. os'.service = os.service /\ os'.task = os.task /\ os'.battery = os.battery
    BY <1>3, <2>3, <2>6
  <2> QED
    BY <1>1, <1>2, <1>4, <2>5 DEF Apart
<1>5. CASE native = "systemd"
  <2>1. cli.todo = SI4 \/ cli.todo = SI3 \/ cli.todo = SI2 \/ cli.todo = SI1
    BY <1>0, <1>2, <1>5 DEF Installing, StepAhead
  <2>2. cli.todo # SI4 /\ cli.todo # SI3
    <3>1. Head(SI4) = <<"write", "service">> /\ Head(SI3) = <<"write", "timer">>
      BY SystemdSteps
    <3>2. \A a : Head(cli.todo) # <<"write", a>>
      BY <1>0, HeadTells
    <3> QED
      BY <3>1, <3>2
  <2>3. Argument \in {"daemon-reload", "enable-now"}
    <3>1. Head(SI2) = <<"run", "daemon-reload">> /\ Head(SI1) = <<"run", "enable-now">>
      BY SystemdSteps
    <3> QED
      BY <2>1, <2>2, <3>1, HeadTells
  <2>4. /\ Effect("daemon-reload", os, cli.plan) = [os EXCEPT !.known = os.service]
        /\ Effect("enable-now", os, cli.plan) = [os EXCEPT !.active = TRUE]
    BY <1>0, EffectsAre
  <2>5. os'.task = os.task /\ os'.battery = os.battery
    BY <1>0, <1>3, <2>3, <2>4 DEF Machine
  <2> QED
    BY <1>1, <1>2, <1>5, <2>5 DEF Apart
<1>6. CASE native = "windows"
  <2>1. cli.todo = WI2 \/ cli.todo = WI1
    BY <1>0, <1>2, <1>6 DEF Installing, StepAhead
  <2>2. Argument \in {"create", "battery"}
    BY <2>1, WindowsSteps, HeadTells
  <2>3. /\ Effect("create", os, cli.plan) = [os EXCEPT !.task = cli.plan, !.battery = FALSE]
        /\ Effect("battery", os, cli.plan) = [os EXCEPT !.battery = TRUE]
    BY <1>0, EffectsAre
  <2>7. \A c \in {"create", "battery"} :
          LET e == Effect(c, os, cli.plan)
          IN  /\ e.service = os.service /\ e.timer = os.timer
              /\ e.known = os.known /\ e.active = os.active
    <3>1. LET e == Effect("create", os, cli.plan)
          IN  /\ e.service = os.service /\ e.timer = os.timer
              /\ e.known = os.known /\ e.active = os.active
      BY <1>0, <2>3 DEF Machine
    <3>2. LET e == Effect("battery", os, cli.plan)
          IN  /\ e.service = os.service /\ e.timer = os.timer
              /\ e.known = os.known /\ e.active = os.active
      BY <1>0, <2>3 DEF Machine
    <3> QED
      BY <3>1, <3>2
  <2>4. /\ os'.service = os.service /\ os'.timer = os.timer
        /\ os'.known = os.known /\ os'.active = os.active
    BY <1>3, <2>2, <2>7
  <2>5. Apart(os', cli.before)
    BY <1>2, <1>6, <2>4 DEF Apart
  <2>6. ASSUME Blank(cli.before) PROVE os'.task = 0 => ~os'.battery
    <3>1. CASE cli.todo = WI2
      <4>1. Argument = "create"
        BY <3>1, WindowsSteps, HeadTells
      <4>2. os.task = cli.before.task /\ os.battery = cli.before.battery
        BY <1>2, <1>6, <3>1, InstallingDiffers DEF Installing
      <4>3. os.battery = FALSE
        BY <1>0, <2>6, <4>2, BlankIs DEF Machine
      <4> QED
        BY <1>0, <1>2, <1>3, <4>1, <4>3, <2>3 DEF Machine
    <3>2. CASE cli.todo = WI1
      <4>1. Argument = "battery"
        BY <3>2, WindowsSteps, HeadTells
      <4>2. os.task = cli.plan
        BY <1>2, <1>6, <3>2, InstallingDiffers DEF Installing
      <4> QED
        BY <1>0, <1>2, <1>3, <4>1, <4>2, <2>3 DEF Machine
    <3> QED
      BY <2>1, <3>1, <3>2
  <2> QED
    BY <1>1, <1>6, <2>5, <2>6
<1> QED
  BY <1>0, <1>4, <1>5, <1>6 DEF Natives

LEMMA PutBackIsLast ==
  ASSUME ScheduleTypeOK, Kind("put-back"),
         Clearing(cli.todo, os) \/ Restoring(cli.todo, os, cli.before)
  PROVE  Tail(cli.todo) = <<>>
<1>0. native \in Natives /\ cli.todo # <<>>
  BY DEF ScheduleTypeOK, Kind, StepAhead
<1>4. \A a : /\ Head(cli.todo) # <<"try", a>> /\ Head(cli.todo) # <<"remove", a>>
            /\ Head(cli.todo) # <<"restore", a>>
  BY HeadTells
<1>1. CASE native = "launchd"
  <2>1. \/ cli.todo = LD2 \/ cli.todo = RT1
        \/ cli.todo = LR4 \/ cli.todo = LR3 \/ cli.todo = LR2 \/ cli.todo = LR1
    BY <1>0, <1>1 DEF Clearing, Restoring
  <2>2. /\ Head(LD2) = <<"try", "bootout">> /\ Head(RT1) = <<"remove", "timer">>
        /\ Head(LR4) = <<"restore", "timer">> /\ Head(LR3) = <<"try", "bootout?">>
        /\ Head(LR2) = <<"try", "bootstrap">> /\ Head(LR1) = <<"try", "enable">>
    BY LaunchdSteps
  <2> QED
    BY <1>4, <2>1, <2>2
<1>2. CASE native = "systemd"
  <2>1. \/ cli.todo = SD3 \/ cli.todo = SD2 \/ cli.todo = RT1
        \/ cli.todo = SR4 \/ cli.todo = SR3 \/ cli.todo = SR2 \/ cli.todo = SR1
    BY <1>0, <1>2 DEF Clearing, Restoring
  <2>2. /\ Head(SD3) = <<"try", "disable-now">> /\ Head(SD2) = <<"remove", "service">>
        /\ Head(RT1) = <<"remove", "timer">>
        /\ Head(SR4) = <<"restore", "service">> /\ Head(SR3) = <<"restore", "timer">>
        /\ Head(SR2) = <<"try", "daemon-reload">> /\ Head(SR1) = <<"try", "enable-now">>
    BY SystemdSteps, LaunchdSteps
  <2> QED
    BY <1>4, <2>1, <2>2
<1>3. CASE native = "windows"
  <2>1. cli.todo = WD1 \/ cli.todo = WP1
    BY <1>0, <1>3 DEF Clearing, Restoring
  <2> QED
    BY <2>1, WindowsSteps, HeadTells
<1> QED
  BY <1>0, <1>1, <1>2, <1>3 DEF Natives

Points == InstallPoints /\ RollbackPoints /\ RemovalPoints

\* Steps of the launchd, systemd or Windows plan leave the rest of the invocation as it was.
LEMMA GoingOn ==
  ASSUME ScheduleTypeOK,
         WriteFile \/ RestoreFile \/ RemoveFile \/ RunCommand \/ TryCommand \/ UnregisterCommand
           \/ PutBack
  PROVE  /\ StepAhead /\ cli'.at = cli.at /\ cli'.backend = cli.backend /\ cli'.plan = cli.plan
         /\ cli'.before = cli.before /\ cli'.clean = cli.clean
         /\ cli'.todo = IF PutBack THEN <<>> ELSE Tail(cli.todo)
         /\ intact' = intact /\ still' = still
<1>1. cli \in Invocation
  BY DEF ScheduleTypeOK
<1>2. StepAhead /\ intact' = intact /\ still' = still
  BY DEF WriteFile, RestoreFile, RemoveFile, RunCommand, TryCommand, UnregisterCommand, PutBack, Kind
<1>3. PutBack => cli' = [cli EXCEPT !.todo = <<>>]
  BY DEF PutBack, Goes
<1>4. ~PutBack => cli' = [cli EXCEPT !.todo = Tail(cli.todo)]
  BY DEF WriteFile, RestoreFile, RemoveFile, RunCommand, TryCommand, UnregisterCommand, Goes
<1> QED
  BY <1>1, <1>2, <1>3, <1>4 DEF Invocation

LEMMA NoneOfThese ==
  ASSUME cli'.at \notin {"install", "rollback", "remove"}
  PROVE  Points'
  BY DEF Points, InstallPoints, RollbackPoints, RemovalPoints

LEMMA PointsInductive ==
  ASSUME ScheduleTypeOK, Placed, Points, RecordKept, [ScheduleNext]_scheduleVars
  PROVE  Points'
<1>0. /\ cli \in Invocation /\ native \in Natives /\ native \notin {"none", "cron"}
      /\ os \in Machine /\ cli.before \in Machine
      /\ cli.at \in {"idle", "install", "remove", "rollback", "cron"}
  BY DEF ScheduleTypeOK, Invocation, Natives
<1>1. ASSUME NEW b \in Backends, NEW p \in Plans, SetupInstall(b, p) PROVE Points'
  <2>1. /\ b \in {native, "cron"} /\ native' = native /\ os' = os
        /\ cli'.at = IF b = "cron" THEN "cron" ELSE "install"
        /\ cli'.before = os /\ cli'.todo = InstallTodo(b)
    BY <1>1, SetupInstallIs
  <2>2. CASE b = "cron"
    BY <2>1, <2>2, NoneOfThese
  <2>3. CASE b # "cron"
    <3>1. /\ native = "launchd" => cli'.todo = LI4
          /\ native = "systemd" => cli'.todo = SI4
          /\ native = "windows" => cli'.todo = WI2
      BY <2>1, <2>3 DEF InstallTodo
    <3>2. Installing(cli.todo, os, cli.before, cli.plan)'
      BY <1>0, <2>1, <3>1 DEF Installing
    <3>3. Apart(os, cli.before)'
      BY <2>1 DEF Apart
    <3> QED
      BY <2>1, <2>3, <3>2, <3>3 DEF Points, InstallPoints, RollbackPoints, RemovalPoints
  <2> QED
    BY <2>2, <2>3
<1>2. ASSUME SetupRemove PROVE Points'
  <2>1. /\ cli.at = "idle" /\ scheduleFile \in {"cron", native}
        /\ native' = native /\ os' = os /\ intact' = intact /\ scheduleFile' = scheduleFile
        /\ cli'.at = "remove" /\ cli'.backend = scheduleFile
        /\ cli'.before = os /\ cli'.todo = RemovalTodo(scheduleFile)
    BY <1>2, SetupRemoveIs DEF ScheduleTypeOK
  <2>2. ASSUME scheduleFile = native, intact
        PROVE  Apart(os, cli.before)' /\ Removing(cli.todo, os)'
    <3>1. Working(os)
      BY <2>1, <2>2 DEF RecordKept, Recorded
    <3>2. native = "windows" => os.task # 0
      BY <1>0, <3>1, WorkingHasFiles
    <3>3. /\ native = "launchd" => cli'.todo = LX2
          /\ native = "systemd" => cli'.todo = SX4
          /\ native = "windows" => cli'.todo = WX1
      BY <2>1, <2>2 DEF RemovalTodo
    <3>4. Removing(cli.todo, os)'
      BY <1>0, <2>1, <3>2, <3>3 DEF Removing
    <3>5. Apart(os, cli.before)'
      BY <2>1 DEF Apart
    <3> QED
      BY <3>4, <3>5
  <2> QED
    BY <2>1, <2>2 DEF Points, InstallPoints, RollbackPoints, RemovalPoints
<1>3. ASSUME WriteFile \/ RestoreFile \/ RemoveFile \/ RunCommand \/ TryCommand \/ UnregisterCommand
               \/ PutBack
      PROVE  Points'
  <2>1. /\ StepAhead /\ cli'.at = cli.at /\ cli'.backend = cli.backend /\ cli'.plan = cli.plan
        /\ cli'.before = cli.before /\ cli'.clean = cli.clean
        /\ cli'.todo = IF PutBack THEN <<>> ELSE Tail(cli.todo)
        /\ intact' = intact /\ native' = native
    BY <1>3, GoingOn DEF still
  <2>2. CASE cli.at = "install"
    <3>1. WriteFile \/ RunCommand
      BY <1>0, <1>3, <2>1, <2>2, KindTells DEF RestoreFile, RemoveFile, TryCommand, UnregisterCommand,
         PutBack
    <3>2. ~PutBack
      BY <2>1, <2>2, KindTells DEF PutBack
    <3>3. Apart(os', cli.before) /\ Installing(Tail(cli.todo), os', cli.before, cli.plan)
      BY <2>2, <3>1, InstallationAdvances DEF Points, InstallPoints
    <3>4. Apart(os, cli.before)' /\ Installing(cli.todo, os, cli.before, cli.plan)'
      BY <2>1, <3>2, <3>3 DEF Apart, Installing
    <3> QED
      BY <2>1, <2>2, <3>4 DEF Points, InstallPoints, RollbackPoints, RemovalPoints
  <2>3. CASE cli.at = "rollback"
    <3>1. RestoreFile \/ RemoveFile \/ TryCommand \/ PutBack
      BY <1>0, <1>3, <2>1, <2>3, KindTells DEF WriteFile, RunCommand, UnregisterCommand
    <3>2. ASSUME cli.clean, Blank(cli.before)
          PROVE  Apart(os, cli.before)' /\ Clearing(cli.todo, os)'
      <4>1. Apart(os, cli.before) /\ Clearing(cli.todo, os)
        BY <2>3, <3>2 DEF Points, RollbackPoints
      <4>2. cli'.todo = Tail(cli.todo)
        BY <2>1, <4>1, PutBackIsLast DEF PutBack
      <4>3. Apart(os', cli.before) /\ Clearing(Tail(cli.todo), os')
        BY <3>1, <4>1, ClearingAdvances
      <4> QED
        BY <2>1, <4>2, <4>3 DEF Apart, Clearing
    <3>3. ASSUME cli.clean, Working(cli.before)
          PROVE  Apart(os, cli.before)' /\ Restoring(cli.todo, os, cli.before)'
      <4>1. Apart(os, cli.before) /\ Restoring(cli.todo, os, cli.before)
        BY <2>3, <3>3 DEF Points, RollbackPoints
      <4>2. cli'.todo = Tail(cli.todo)
        BY <2>1, <4>1, PutBackIsLast DEF PutBack
      <4>3. Apart(os', cli.before) /\ Restoring(Tail(cli.todo), os', cli.before)
        BY <3>1, <3>3, <4>1, RestoringAdvances
      <4> QED
        BY <2>1, <4>2, <4>3 DEF Apart, Restoring
    <3>4. Blank(cli.before)' = Blank(cli.before) /\ Working(cli.before)' = Working(cli.before)
      BY <2>1 DEF Blank, Working
    <3>5. RollbackPoints'
      BY <2>1, <2>3, <3>2, <3>3, <3>4 DEF RollbackPoints
    <3> QED
      BY <2>1, <2>3, <3>5 DEF Points, InstallPoints, RemovalPoints
  <2>4. CASE cli.at = "remove"
    <3>1. UnregisterCommand \/ RemoveFile \/ TryCommand
      BY <1>0, <1>3, <2>1, <2>4, KindTells DEF WriteFile, RunCommand, RestoreFile, PutBack
    <3>2. ~PutBack
      BY <2>1, <2>4, KindTells DEF PutBack
    <3>3. ASSUME cli.backend = native, intact
          PROVE  Apart(os, cli.before)' /\ Removing(cli.todo, os)'
      <4>1. Apart(os, cli.before) /\ Removing(cli.todo, os)
        BY <2>4, <3>3 DEF Points, RemovalPoints
      <4>2. Apart(os', cli.before) /\ Removing(Tail(cli.todo), os')
        BY <3>1, <4>1, RemovalAdvances
      <4> QED
        BY <2>1, <3>2, <4>2 DEF Apart, Removing
    <3> QED
      BY <2>1, <2>4, <3>3 DEF Points, InstallPoints, RollbackPoints, RemovalPoints
  <2>5. CASE cli.at \in {"idle", "cron"}
    BY <2>1, <2>5, NoneOfThese
  <2> QED
    BY <1>0, <2>2, <2>3, <2>4, <2>5
<1>4. ASSUME CommandFails PROVE Points'
  <2>1. /\ cli.at = "install" /\ cli.backend = native /\ Apart(os', cli.before)
        /\ native = "windows" /\ Blank(cli.before) => (os'.task = 0 => ~os'.battery)
    BY <1>4, FailureIsApart DEF Points
  <2>2. cli' = [cli EXCEPT !.at = "rollback", !.todo = Rollback(native)] /\ native' = native
    BY <1>4, <2>1 DEF CommandFails, still
  <2>3. cli'.at = "rollback" /\ cli'.todo = Rollback(native) /\ cli'.before = cli.before
    BY <1>0, <2>2 DEF Invocation
  <2>4. Blank(cli.before) => Clearing(Rollback(native), os')
    BY <1>0, <2>1, RollbackIs DEF Clearing, Natives
  <2>5. Working(cli.before) => Restoring(Rollback(native), os', cli.before)
    BY <1>0, RollbackIs DEF Restoring, Natives
  <2>6. /\ Blank(cli.before)' = Blank(cli.before) /\ Working(cli.before)' = Working(cli.before)
        /\ Apart(os, cli.before)'
    BY <2>1, <2>2, <2>3 DEF Blank, Working, Apart
  <2>7. Blank(cli.before) => Clearing(cli.todo, os)'
    BY <2>2, <2>3, <2>4 DEF Clearing
  <2>8. Working(cli.before) => Restoring(cli.todo, os, cli.before)'
    BY <2>2, <2>3, <2>5 DEF Restoring
  <2>9. RollbackPoints'
    BY <2>6, <2>7, <2>8 DEF RollbackPoints
  <2> QED
    BY <2>3, <2>9 DEF Points, InstallPoints, RemovalPoints
<1>5. ASSUME TryFails \/ PutBackFails \/ UnregisterMistaken PROVE Points'
  <2>1. StepAhead /\ cli.at \in {"rollback", "remove"}
    BY <1>5, KindTells DEF TryFails, PutBackFails, UnregisterMistaken, Kind
  <2>2. cli'.at = cli.at /\ cli'.clean = FALSE /\ intact' = FALSE
    BY <1>0, <1>5 DEF TryFails, PutBackFails, UnregisterMistaken, Invocation
  <2> QED
    BY <2>1, <2>2 DEF Points, InstallPoints, RollbackPoints, RemovalPoints
<1>6. ASSUME Breaking \/ WriteFails \/ CrontabFails \/ Finish \/ RecordFails PROVE Points'
  <2>1. Finish \/ RecordFails => cli'.at = "idle"
    BY <1>0 DEF Finish, RecordFails, Invocation
  <2>2. cli'.at = "idle"
    BY <1>6, <2>1, BreakingIs, WriteFailsIs DEF CrontabFails, NoCli
  <2> QED
    BY <2>2, NoneOfThese
<1>7. ASSUME ReadCrontab \/ RewriteCrontab PROVE Points'
  <2>1. cli.at \in {"cron", "remove"} /\ cli.backend = "cron"
    BY <1>7, KindTells DEF ReadCrontab, RewriteCrontab, Kind
  <2>2. cli'.at = cli.at /\ cli'.backend = cli.backend
    BY <1>0, <1>7, RewriteTodo DEF RewriteCrontab, Goes, Invocation
  <2>3. native' = native
    BY <1>7 DEF ReadCrontab, RewriteCrontab, still
  <2> QED
    BY <1>0, <2>1, <2>2, <2>3 DEF Points, InstallPoints, RollbackPoints, RemovalPoints
<1>8. ASSUME UserAddsLine \/ UserDropsMark \/ UNCHANGED scheduleVars PROVE Points'
  <2>1. cli' = cli /\ os' = os /\ native' = native /\ intact' = intact
    BY <1>8 DEF UserAddsLine, UserDropsMark, scheduleVars
  <2> QED
    BY <2>1 DEF Points, InstallPoints, RollbackPoints, RemovalPoints, Apart, Installing, Clearing,
       Restoring, Removing, Blank, Working
<1> QED
  BY <1>1, <1>2, <1>3, <1>4, <1>5, <1>6, <1>7, <1>8 DEF ScheduleNext, Breaking

-----------------------------------------------------------------------------
(* What an invocation leaves when it ends.                                 *)

\* The machine at the end of each kind of invocation.
LEMMA AtTheEnd ==
  ASSUME ScheduleTypeOK, Placed, Points, cli.todo = <<>>
  PROVE  /\ cli.at = "install" =>
              Apart(os, cli.before) /\ Works(native, os, cli.plan) /\ cli.plan \in Plans
         /\ cli.at = "rollback" /\ cli.clean /\ (Blank(cli.before) \/ Working(cli.before)) =>
              View(os) = View(cli.before)
         /\ cli.at = "remove" /\ cli.backend = native /\ intact =>
              /\ Apart(os, cli.before)
              /\ native # "windows" => ~os.active /\ os.timer = 0
              /\ native = "systemd" => os.service = 0
              /\ native = "windows" => os.task = 0 /\ ~os.battery
<1> DEFINE b == cli.before
<1>0. os \in Machine /\ b \in Machine /\ native \in Natives
  BY DEF ScheduleTypeOK, Invocation
<1>n. /\ LI4 # <<>> /\ LI3 # <<>> /\ LI2 # <<>>
      /\ SI4 # <<>> /\ SI3 # <<>> /\ SI2 # <<>> /\ SI1 # <<>> /\ WI2 # <<>> /\ WI1 # <<>>
      /\ LD2 # <<>> /\ RT1 # <<>> /\ SD3 # <<>> /\ SD2 # <<>> /\ WD1 # <<>>
      /\ LR4 # <<>> /\ LR3 # <<>> /\ LR2 # <<>>
      /\ SR4 # <<>> /\ SR3 # <<>> /\ SR2 # <<>> /\ SR1 # <<>> /\ WP1 # <<>>
      /\ LX2 # <<>> /\ SX4 # <<>> /\ SX3 # <<>> /\ SX2 # <<>> /\ WX1 # <<>>
  BY LaunchdSteps, SystemdSteps, WindowsSteps
<1>1. ASSUME cli.at = "install"
      PROVE  Apart(os, b) /\ Works(native, os, cli.plan) /\ cli.plan \in Plans
  <2>1. Apart(os, b) /\ Installing(cli.todo, os, b, cli.plan) /\ cli.plan \in Plans
    BY <1>1 DEF Points, InstallPoints, Placed
  <2>2. native = "launchd" => os.timer = cli.plan /\ os.active /\ os.known = cli.plan
    BY <1>n, <2>1 DEF Installing
  <2>3. native = "systemd" =>
          os.service = cli.plan /\ os.timer = cli.plan /\ os.known = cli.plan /\ os.active
    BY <1>n, <2>1 DEF Installing
  <2>4. native = "windows" => os.task = cli.plan /\ os.battery
    BY <1>n, <2>1 DEF Installing
  <2> QED
    BY <1>0, <2>1, <2>2, <2>3, <2>4, WorksIs DEF Natives
<1>2. ASSUME cli.at = "rollback", cli.clean, Blank(b)
      PROVE  View(os) = View(b)
  <2>1. Apart(os, b) /\ Clearing(cli.todo, os)
    BY <1>2 DEF Points, RollbackPoints
  <2>2. b.service = 0 /\ b.timer = 0 /\ ~b.active /\ b.task = 0 /\ ~b.battery
    BY <1>0, <1>2, BlankIs
  <2>3. /\ native = "launchd" => ~os.active /\ os.timer = 0
        /\ native = "systemd" => ~os.active /\ os.service = 0 /\ os.timer = 0
        /\ native = "windows" => os.task = 0 /\ ~os.battery
    BY <1>n, <2>1 DEF Clearing
  <2>4. os.service = 0 /\ os.timer = 0 /\ ~os.active /\ os.task = 0 /\ ~os.battery
    BY <1>0, <2>1, <2>2, <2>3 DEF Apart, Natives
  <2>5. Blank(os)
    BY <1>0, <2>4, BlankIs
  <2> QED
    BY <1>2, <2>5 DEF Blank
<1>3. ASSUME cli.at = "rollback", cli.clean, Working(b)
      PROVE  View(os) = View(b)
  <2>1. Apart(os, b) /\ Restoring(cli.todo, os, b)
    BY <1>3 DEF Points, RollbackPoints
  <2>2. /\ native # "windows" => b.timer # 0 /\ b.active /\ b.known = b.timer
        /\ native = "systemd" => b.service = b.timer
        /\ native = "windows" => b.task # 0 /\ b.battery
    BY <1>0, <1>3, WorkingHasFiles
  <2>3. /\ native = "launchd" => os.timer = b.timer /\ os.active /\ os.known = b.timer
        /\ native = "systemd" => /\ os.service = b.service /\ os.timer = b.timer
                                 /\ os.known = b.service /\ os.active
        /\ native = "windows" => os.task = b.task /\ os.battery = b.battery
    BY <1>n, <2>1 DEF Restoring
  <2>4. os.active \in BOOLEAN /\ b.active \in BOOLEAN
    BY <1>0 DEF Machine
  <2>5. /\ os.service = b.service /\ os.timer = b.timer /\ os.active = b.active
        /\ os.known = b.known /\ os.task = b.task /\ os.battery = b.battery
    BY <1>0, <2>1, <2>2, <2>3, <2>4 DEF Apart, Natives
  <2> QED
    BY <1>0, <2>5, SameView
<1>4. ASSUME cli.at = "remove", cli.backend = native, intact
      PROVE  /\ Apart(os, b)
             /\ native # "windows" => ~os.active /\ os.timer = 0
             /\ native = "systemd" => os.service = 0
             /\ native = "windows" => os.task = 0 /\ ~os.battery
  <2>1. Apart(os, b) /\ Removing(cli.todo, os)
    BY <1>4 DEF Points, RemovalPoints
  <2>2. native = "launchd" => ~os.active /\ os.timer = 0
    BY <1>n, <2>1 DEF Removing
  <2>3. native = "systemd" => ~os.active /\ os.service = 0 /\ os.timer = 0
    BY <1>n, <2>1 DEF Removing
  <2>4. native = "windows" => os.task = 0 /\ ~os.battery
    BY <1>n, <2>1 DEF Removing
  <2> QED
    BY <1>0, <2>1, <2>2, <2>3, <2>4 DEF Natives
<1> QED
  BY <1>1, <1>2, <1>3, <1>4

\* What the record says rests on the view of the machine.
LEMMA RecordedIs ==
  ASSUME ScheduleTypeOK, NEW o \in Machine, NEW b \in Machine, View(o) = View(b), Recorded(b)
  PROVE  Recorded(o)
<1>0. native \in Natives
  BY DEF ScheduleTypeOK
<1>1. /\ o.service = b.service /\ o.timer = b.timer /\ o.active = b.active
      /\ o.active => o.known = b.known
      /\ o.task = b.task /\ o.battery = b.battery
  BY ViewTells
<1>2. Blank(b) => Blank(o)
  BY DEF Blank
<1>3. ASSUME Working(b) PROVE Working(o)
  <2>1. PICK p \in Plans : Works(native, b, p)
    BY <1>3 DEF Working
  <2>2. Works(native, o, p)
    BY <1>0, <1>1, <2>1, WorksIs DEF Natives
  <2> QED
    BY <2>2 DEF Working
<1> QED
  BY <1>1, <1>2, <1>3 DEF Recorded

\* The steps that stay within an invocation.
Within == WriteFile \/ RestoreFile \/ RemoveFile \/ RunCommand \/ TryCommand \/ UnregisterCommand
            \/ PutBack \/ CommandFails \/ TryFails \/ PutBackFails \/ UnregisterMistaken
            \/ ReadCrontab \/ RewriteCrontab

LEMMA WithinIs ==
  ASSUME ScheduleTypeOK, Placed, Within
  PROVE  /\ cli.at # "idle" /\ cli'.at # "idle" /\ cli'.backend = cli.backend
         /\ cli'.before = cli.before /\ native' = native /\ scheduleFile' = scheduleFile
         /\ intact' => intact
         /\ cli.backend = "cron" => os' = os
         /\ CommandFails \/ (cli'.at = cli.at)
<1>0. cli \in Invocation
  BY DEF ScheduleTypeOK
<1>1. StepAhead /\ cli.at # "idle"
  BY DEF Within, WriteFile, RestoreFile, RemoveFile, RunCommand, TryCommand, UnregisterCommand,
     PutBack, CommandFails, TryFails, PutBackFails, UnregisterMistaken, ReadCrontab,
     RewriteCrontab, Kind, StepAhead, CliBusy
<1>2. native # "cron"
  BY DEF ScheduleTypeOK, Natives
<1>3. CASE WriteFile \/ RestoreFile \/ RemoveFile \/ RunCommand \/ TryCommand \/ UnregisterCommand
             \/ PutBack
  <2>1. cli.backend = native
    BY <1>1, <1>3, KindTells DEF WriteFile, RestoreFile, RemoveFile, RunCommand, TryCommand,
       UnregisterCommand, PutBack
  <2> QED
    BY <1>1, <1>2, <1>3, <2>1, GoingOn DEF still
<1>4. CASE CommandFails
  <2>1. cli.backend = native
    BY <1>1, <1>4, KindTells DEF CommandFails
  <2>2. /\ cli' = [cli EXCEPT !.at = "rollback", !.todo = Rollback(cli.backend)]
        /\ intact' = intact /\ native' = native /\ scheduleFile' = scheduleFile
    BY <1>4 DEF CommandFails, still
  <2>3. cli'.at = "rollback" /\ cli'.backend = cli.backend /\ cli'.before = cli.before
    BY <1>0, <2>2 DEF Invocation
  <2> QED
    BY <1>1, <1>2, <1>4, <2>1, <2>2, <2>3
<1>5. CASE TryFails \/ PutBackFails \/ UnregisterMistaken
  <2>1. /\ intact' = FALSE /\ native' = native /\ scheduleFile' = scheduleFile /\ os' = os
        /\ \E todo : cli' = [cli EXCEPT !.todo = todo, !.clean = FALSE]
    BY <1>5 DEF TryFails, PutBackFails, UnregisterMistaken, still
  <2>2. cli'.at = cli.at /\ cli'.backend = cli.backend /\ cli'.before = cli.before
    BY <1>0, <2>1 DEF Invocation
  <2> QED
    BY <1>1, <2>1, <2>2
<1>6. CASE ReadCrontab \/ RewriteCrontab
  <2>1. /\ intact' = intact /\ native' = native /\ scheduleFile' = scheduleFile /\ os' = os
    BY <1>6 DEF ReadCrontab, RewriteCrontab, still
  <2>2. cli'.at = cli.at /\ cli'.backend = cli.backend /\ cli'.before = cli.before
    BY <1>0, <1>6, RewriteTodo DEF RewriteCrontab, Goes, Invocation
  <2> QED
    BY <1>1, <2>1, <2>2
<1> QED
  BY <1>3, <1>4, <1>5, <1>6 DEF Within

LEMMA RecordKeptInductive ==
  ASSUME ScheduleTypeOK, Placed, Points, RecordKept, [ScheduleNext]_scheduleVars
  PROVE  RecordKept'
<1>0. /\ cli \in Invocation /\ native \in Natives /\ native \notin {"none", "cron"}
      /\ os \in Machine /\ cli.before \in Machine
      /\ cli.at \in {"idle", "install", "remove", "rollback", "cron"}
      /\ scheduleFile \in {"none", "cron", native}
  BY DEF ScheduleTypeOK, Invocation, Natives
<1>1. ASSUME (\E b \in Backends, p \in Plans : SetupInstall(b, p)) \/ SetupRemove
      PROVE  RecordKept'
  <2>1. /\ cli.at = "idle" /\ native' = native /\ os' = os /\ intact' = intact
        /\ scheduleFile' = scheduleFile /\ cli'.before = os
    BY <1>1, SetupInstallIs, SetupRemoveIs
  <2>2. intact => Recorded(os)
    BY <2>1 DEF RecordKept
  <2> QED
    BY <2>1, <2>2 DEF RecordKept, Recorded, Working, Blank
<1>2. ASSUME Within PROVE RecordKept'
  <2>1. /\ cli.at # "idle" /\ cli'.at # "idle" /\ cli'.backend = cli.backend
        /\ cli'.before = cli.before /\ native' = native /\ scheduleFile' = scheduleFile
        /\ intact' => intact
        /\ cli.backend = "cron" => os' = os
    BY <1>2, WithinIs
  <2> QED
    BY <2>1 DEF RecordKept, Recorded, Working, Blank
<1>3. ASSUME Breaking \/ WriteFails PROVE RecordKept'
  BY <1>3, BreakingIs, WriteFailsIs DEF RecordKept
<1>4. ASSUME CrontabFails PROVE RecordKept'
  <2>1. cli.backend = "cron"
    BY <1>4, KindTells DEF CrontabFails, Kind
  <2>2. /\ os' = os /\ native' = native /\ scheduleFile' = scheduleFile
        /\ cli' = [NoCli EXCEPT !.result = "error"]
    BY <1>4 DEF CrontabFails
  <2>3. cli'.at = "idle"
    BY <2>2 DEF NoCli
  <2>4. ASSUME intact' PROVE intact
    BY <1>4, <2>4 DEF CrontabFails
  <2>5. ASSUME intact PROVE Recorded(os)
    BY <2>1, <2>5 DEF RecordKept
  <2> QED
    BY <2>2, <2>3, <2>4, <2>5 DEF RecordKept, Recorded, Working, Blank
<1>5. ASSUME Finish \/ RecordFails PROVE RecordKept'
  <2>1. /\ cli.at # "idle" /\ cli.todo = <<>> /\ cli'.at = "idle"
        /\ os' = os /\ native' = native
    BY <1>0, <1>5 DEF Finish, RecordFails, CliBusy, Invocation, still
  <2> SUFFICES ASSUME intact' PROVE Recorded(os)'
    BY <2>1 DEF RecordKept
  <2>7. intact /\ (RecordFails => scheduleFile = cli.backend)
    BY <1>5, Zenon DEF Finish, RecordFails
  <2>2. /\ cli.at \in {"install", "cron"} => scheduleFile' = cli.backend
        /\ cli.at = "remove" => scheduleFile' = "none"
        /\ cli.at = "rollback" => scheduleFile' = scheduleFile
    <3>1. CASE Finish
      BY <3>1 DEF Finish
    <3>2. CASE RecordFails
      <4>1. cli.at \in {"install", "cron"} /\ scheduleFile' = scheduleFile
        BY <3>2 DEF RecordFails, still
      <4> QED
        BY <2>7, <3>2, <4>1
    <3> QED
      BY <1>5, <3>1, <3>2
  <2>3. CASE cli.at = "install"
    <3>1. cli.backend = native /\ scheduleFile \in {"none", native}
      BY <2>3 DEF Placed
    <3>2. Recorded(cli.before)
      BY <1>0, <2>3, <3>1, <2>7 DEF RecordKept
    <3>3. Apart(os, cli.before) /\ Works(native, os, cli.plan) /\ cli.plan \in Plans
      BY <2>1, <2>3, AtTheEnd
    <3>4. Working(os)
      BY <3>3 DEF Working
    <3>5. Blank(cli.before) => /\ cli.before.service = 0 /\ cli.before.timer = 0
                               /\ ~cli.before.active
                               /\ cli.before.task = 0 /\ ~cli.before.battery
      BY <1>0, BlankIs
    <3>10. LET b == cli.before
           IN  /\ native = "launchd" => b.service = 0 /\ b.task = 0 /\ ~b.battery
               /\ native = "systemd" => b.task = 0 /\ ~b.battery
               /\ native = "windows" => b.service = 0 /\ b.timer = 0 /\ ~b.active
      BY <3>2, <3>5 DEF Recorded
    <3>6. /\ native = "launchd" => os.service = 0 /\ os.task = 0 /\ ~os.battery
          /\ native = "systemd" => os.task = 0 /\ ~os.battery
          /\ native = "windows" => os.service = 0 /\ os.timer = 0 /\ ~os.active
      BY <3>3, <3>10 DEF Apart
    <3>7. scheduleFile' = native' /\ os' = os /\ native' = native
      BY <2>1, <2>2, <2>3, <3>1
    <3>8. Working(os)'
      BY <3>4, <3>7 DEF Working
    <3>9. (/\ native = "launchd" => os.service = 0 /\ os.task = 0 /\ ~os.battery
           /\ native = "systemd" => os.task = 0 /\ ~os.battery
           /\ native = "windows" => os.service = 0 /\ os.timer = 0 /\ ~os.active)'
      BY <3>6, <3>7
    <3> QED
      BY <3>7, <3>8, <3>9 DEF Recorded
  <2>4. CASE cli.at = "cron"
    <3>1. cli.backend = "cron" /\ scheduleFile \in {"none", "cron"}
      BY <2>4 DEF Placed
    <3>2. Blank(os)
      BY <1>0, <3>1, <2>7 DEF RecordKept, Recorded
    <3> QED
      BY <1>0, <2>1, <2>2, <2>4, <3>1, <3>2 DEF Recorded, Blank
  <2>5. CASE cli.at = "remove"
    <3>1. cli.backend = scheduleFile /\ scheduleFile # "none"
      BY <2>5 DEF Placed
    <3>2. CASE scheduleFile = "cron"
      <4>1. Blank(os)
        BY <1>0, <3>1, <3>2, <2>7 DEF RecordKept, Recorded
      <4> QED
        BY <1>0, <2>1, <2>2, <2>5, <4>1 DEF Recorded, Blank
    <3>3. CASE scheduleFile = native
      <4>1. Recorded(cli.before)
        BY <1>0, <2>5, <3>1, <3>3, <2>7 DEF RecordKept
      <4>2. /\ Apart(os, cli.before)
            /\ native # "windows" => ~os.active /\ os.timer = 0
            /\ native = "systemd" => os.service = 0
            /\ native = "windows" => os.task = 0 /\ ~os.battery
        BY <2>1, <2>5, <2>7, <3>1, <3>3, AtTheEnd
      <4>3. os.service = 0 /\ os.timer = 0 /\ ~os.active /\ os.task = 0 /\ ~os.battery
        BY <1>0, <3>3, <4>1, <4>2 DEF Recorded, Apart, Natives
      <4>4. Blank(os)
        BY <1>0, <4>3, BlankIs
      <4> QED
        BY <1>0, <2>1, <2>2, <2>5, <4>4 DEF Recorded, Blank
    <3> QED
      BY <1>0, <3>1, <3>2, <3>3
  <2>6. CASE cli.at = "rollback"
    <3>1. cli.backend = native /\ cli.clean
      BY <2>6, <2>7 DEF Placed
    <3>2. Recorded(cli.before)
      BY <1>0, <2>6, <3>1, <2>7 DEF RecordKept
    <3>3. Blank(cli.before) \/ Working(cli.before)
      BY <3>2 DEF Recorded
    <3>4. View(os) = View(cli.before)
      BY <2>1, <2>6, <3>1, <3>3, AtTheEnd
    <3>5. Recorded(os)
      BY <1>0, <3>2, <3>4, RecordedIs
    <3> QED
      BY <2>1, <2>2, <2>6, <3>5 DEF Recorded, Blank, Working
  <2> QED
    BY <1>0, <2>1, <2>3, <2>4, <2>5, <2>6
<1>6. ASSUME UserAddsLine \/ UserDropsMark \/ UNCHANGED scheduleVars PROVE RecordKept'
  <2>1. /\ cli' = cli /\ os' = os /\ native' = native /\ intact' = intact
        /\ scheduleFile' = scheduleFile
    BY <1>6 DEF UserAddsLine, UserDropsMark, scheduleVars
  <2> QED
    BY <2>1 DEF RecordKept, Recorded, Working, Blank
<1> QED
  BY <1>1, <1>2, <1>3, <1>4, <1>5, <1>6 DEF ScheduleNext, Within, Breaking

Ends == Restored /\ InstalledWorks /\ UnwrittenKeepsLoaded

\* While the files are written, what was loaded is still loaded.
LEMMA LoadedWhileWriting ==
  ASSUME ScheduleTypeOK, Placed, Points, Kind("write")
  PROVE  Loaded(os) = Loaded(cli.before)
<1>0. native \in Natives /\ StepAhead
  BY DEF ScheduleTypeOK, Kind
<1>1. cli.at = "install"
  BY <1>0, KindTells
<1>2. Apart(os, cli.before) /\ Installing(cli.todo, os, cli.before, cli.plan)
  BY <1>1 DEF Points, InstallPoints
<1>3. \A kind, argument : Head(cli.todo) = <<kind, argument>> => kind = "write"
  BY HeadTells
<1>4. CASE native = "launchd"
  <2>1. cli.todo = LI4 \/ cli.todo = LI3 \/ cli.todo = LI2 \/ cli.todo = LI1
    BY <1>0, <1>2, <1>4 DEF Installing, StepAhead
  <2>2. /\ Head(LI3) = <<"run", "bootout?">> /\ Head(LI2) = <<"run", "bootstrap">>
        /\ Head(LI1) = <<"run", "enable">>
    BY LaunchdSteps
  <2>3. cli.todo = LI4
    BY <1>3, <2>1, <2>2
  <2>4. os.known = cli.before.known /\ os.active = cli.before.active
    BY <1>2, <1>4, <2>3, InstallingDiffers DEF Installing
  <2> QED
    BY <1>2, <1>4, <2>4 DEF Apart, Loaded
<1>5. CASE native = "systemd"
  <2>1. cli.todo = SI4 \/ cli.todo = SI3 \/ cli.todo = SI2 \/ cli.todo = SI1
    BY <1>0, <1>2, <1>5 DEF Installing, StepAhead
  <2>2. Head(SI2) = <<"run", "daemon-reload">> /\ Head(SI1) = <<"run", "enable-now">>
    BY SystemdSteps
  <2>3. cli.todo = SI4 \/ cli.todo = SI3
    BY <1>3, <2>1, <2>2
  <2>4. os.known = cli.before.known /\ os.active = cli.before.active
    BY <1>2, <1>5, <2>3, InstallingDiffers DEF Installing
  <2> QED
    BY <1>2, <1>5, <2>4 DEF Apart, Loaded
<1>6. CASE native = "windows"
  <2>1. cli.todo = WI2 \/ cli.todo = WI1
    BY <1>0, <1>2, <1>6 DEF Installing, StepAhead
  <2>2. Head(WI2) = <<"run", "create">> /\ Head(WI1) = <<"run", "battery">>
    BY WindowsSteps
  <2> QED
    BY <1>3, <2>1, <2>2
<1> QED
  BY <1>0, <1>4, <1>5, <1>6 DEF Natives

LEMMA EndsWell ==
  ASSUME ScheduleTypeOK, Placed, Points, Ends, [ScheduleNext]_scheduleVars
  PROVE  Ends'
<1>0. /\ cli \in Invocation /\ native \in Natives /\ native \notin {"none", "cron"}
      /\ os \in Machine /\ cli.before \in Machine
      /\ cli.at \in {"idle", "install", "remove", "rollback", "cron"}
  BY DEF ScheduleTypeOK, Invocation, Natives
<1>1. ASSUME cli'.at # "idle" PROVE Ends'
  BY <1>1 DEF Ends, Restored, InstalledWorks, UnwrittenKeepsLoaded
<1>2. ASSUME (\E b \in Backends, p \in Plans : SetupInstall(b, p)) \/ SetupRemove \/ Within
      PROVE  cli'.at # "idle"
  <2>1. cli'.at \in {"install", "cron", "remove"} \/ Within
    BY <1>2, SetupInstallIs, SetupRemoveIs
  <2> QED
    BY <2>1, WithinIs
<1>3. ASSUME Breaking \/ CrontabFails PROVE Ends'
  <2>1. native' = native
    BY <1>3, BreakingIs DEF CrontabFails, still
  <2>2. cli'.backend = "none" /\ cli'.result \in {"none", "error"}
    BY <1>3, BreakingIs DEF CrontabFails, NoCli
  <2> QED
    BY <1>0, <2>1, <2>2 DEF Ends, Restored, InstalledWorks, UnwrittenKeepsLoaded
<1>6. ASSUME WriteFails PROVE Ends'
  <2>1. /\ cli'.result = "unwritten" /\ cli'.before = cli.before
        /\ Loaded(os') = Loaded(os)
    BY <1>6, WriteFailsIs
  <2>2. Loaded(os) = Loaded(cli.before)
    BY <1>6, LoadedWhileWriting DEF WriteFails
  <2>3. Loaded(cli.before)' = Loaded(cli.before) /\ Loaded(os)' = Loaded(os')
    BY <2>1 DEF Loaded
  <2> QED
    BY <2>1, <2>2, <2>3 DEF Ends, Restored, InstalledWorks, UnwrittenKeepsLoaded
<1>4. ASSUME Finish \/ RecordFails PROVE Ends'
  <2>1. /\ cli.at # "idle" /\ cli.todo = <<>> /\ cli'.at = "idle"
        /\ cli'.backend = cli.backend /\ cli'.before = cli.before /\ cli'.plan = cli.plan
        /\ cli'.clean = cli.clean
        /\ os' = os /\ native' = native
    BY <1>0, <1>4 DEF Finish, RecordFails, CliBusy, Invocation, still
  <2>7. /\ Finish => cli'.result = (IF cli.at = "rollback" THEN "error" ELSE cli.at)
        /\ RecordFails => cli'.result = "unrecorded" /\ cli.at \in {"install", "cron"}
    BY <1>0 DEF Finish, RecordFails, Invocation
  <2>2. ASSUME cli.at = "rollback", cli.clean, Blank(cli.before) \/ Working(cli.before)
        PROVE  View(os) = View(cli.before)
    BY <2>1, <2>2, AtTheEnd
  <2>3. ASSUME cli.at = "install" PROVE Works(cli.backend, os, cli.plan)
    BY <2>1, <2>3, AtTheEnd DEF Placed
  <2>8. cli'.result = "error" => cli.at = "rollback"
    BY <1>0, <1>4, <2>1, <2>7
  <2>4. Restored'
    BY <1>0, <2>1, <2>2, <2>8 DEF Restored, Blank, Working
  <2>5. cli'.result \in {"install", "unrecorded"} /\ cli'.backend \in Natives =>
          cli.at = "install"
    <3>1. cli.at = "cron" => cli'.backend \notin Natives
      BY <2>1 DEF Placed, Natives
    <3> QED
      BY <1>0, <1>4, <2>1, <2>7, <3>1
  <2>6. InstalledWorks'
    BY <2>1, <2>3, <2>5 DEF InstalledWorks
  <2>9. cli'.result # "unwritten"
    BY <1>0, <1>4, <2>1, <2>7
  <2> QED
    BY <2>4, <2>6, <2>9 DEF Ends, UnwrittenKeepsLoaded
<1>5. ASSUME UserAddsLine \/ UserDropsMark \/ UNCHANGED scheduleVars
      PROVE  Ends'
  <2>1. cli' = cli /\ os' = os /\ native' = native
    BY <1>5 DEF UserAddsLine, UserDropsMark, scheduleVars
  <2> QED
    BY <2>1 DEF Ends, Restored, InstalledWorks, UnwrittenKeepsLoaded, Blank, Working
<1> QED
  BY <1>1, <1>2, <1>3, <1>4, <1>5, <1>6 DEF ScheduleNext, Within, Breaking

-----------------------------------------------------------------------------
(* The crontab.                                                            *)

Block == <<BEGIN, JOB, END>>

\* A table that holds these lines, with our block among them or without it.
Table(text, own, has) ==
    \E a, b \in Seq(Nat) :
      /\ own = a \o b
      /\ text = IF has THEN (a \o Block) \o b ELSE a \o b

LEMMA BlockIs ==
  /\ Block \in Seq(Int) /\ Len(Block) = 3
  /\ Block[1] = BEGIN /\ Block[2] = JOB /\ Block[3] = END
  /\ BEGIN \notin Nat /\ END \notin Nat /\ JOB # BEGIN /\ JOB # END /\ BEGIN # END
  BY DEF Block, BEGIN, JOB, END

LEMMA NaturalLines ==
  ASSUME NEW a \in Seq(Nat)
  PROVE  a \in Seq(Int) /\ \A i \in 1..Len(a) : a[i] \in Nat
<1>1. \A i \in 1..Len(a) : a[i] \in Nat
  BY ElementOfSeq
<1>2. a \in Seq(Int)
  BY SMT
<1> QED
  BY <1>1, <1>2

\* A sequence is cut where it was joined.
LEMMA CutApart ==
  ASSUME NEW S, NEW u \in Seq(S), NEW v \in Seq(S)
  PROVE  /\ SubSeq(u \o v, 1, Len(u)) = u
         /\ SubSeq(u \o v, Len(u) + 1, Len(u \o v)) = v
<1> DEFINE t == u \o v
<1>1. /\ t \in Seq(S) /\ Len(t) = Len(u) + Len(v) /\ Len(u) \in Nat /\ Len(v) \in Nat
      /\ \A i \in 1..Len(u) + Len(v) : t[i] = IF i <= Len(u) THEN u[i] ELSE v[i - Len(u)]
  BY ConcatProperties, LenProperties
<1>2. \A i \in 1..Len(t) : t[i] \in S
  BY <1>1, ElementOfSeq
<1> HIDE DEF t
<1>3. /\ SubSeq(t, 1, Len(u)) \in Seq(S) /\ Len(SubSeq(t, 1, Len(u))) = Len(u)
      /\ \A i \in 1..Len(u) : SubSeq(t, 1, Len(u))[i] = t[i]
  <2>1. \A i \in 1..Len(u) : t[i] \in S
    BY <1>1, <1>2
  <2>2. /\ SubSeq(t, 1, Len(u)) \in Seq(S)
        /\ Len(SubSeq(t, 1, Len(u))) = IF 1 <= Len(u) THEN Len(u) - 1 + 1 ELSE 0
        /\ \A i \in 1..Len(u) - 1 + 1 : SubSeq(t, 1, Len(u))[i] = t[1 + i - 1]
    BY <1>1, <2>1, SubSeqProperties
  <2> QED
    BY <1>1, <2>2
<1>4. SubSeq(t, 1, Len(u)) = u
  <2>1. \A i \in 1..Len(u) : SubSeq(t, 1, Len(u))[i] = u[i]
    BY <1>1, <1>3
  <2> QED
    BY <1>3, <2>1, SeqEqual
<1>5. /\ SubSeq(t, Len(u) + 1, Len(t)) \in Seq(S) /\ Len(SubSeq(t, Len(u) + 1, Len(t))) = Len(v)
      /\ \A i \in 1..Len(v) : SubSeq(t, Len(u) + 1, Len(t))[i] = t[Len(u) + i]
  <2>1. \A i \in Len(u) + 1..Len(t) : t[i] \in S
    BY <1>1, <1>2
  <2> DEFINE m == Len(u) + 1
             n == Len(t)
  <2>2. m \in Int /\ n \in Int /\ n - m + 1 = Len(v)
    BY <1>1
  <2>3. \A i \in m..n : t[i] \in S
    BY <2>1
  <2> HIDE DEF m, n
  <2>4. /\ SubSeq(t, m, n) \in Seq(S)
        /\ Len(SubSeq(t, m, n)) = IF m <= n THEN n - m + 1 ELSE 0
        /\ \A i \in 1..n - m + 1 : SubSeq(t, m, n)[i] = t[m + i - 1]
    BY <2>2, <2>3, SubSeqProperties
  <2>5. Len(SubSeq(t, m, n)) = Len(v)
    BY <1>1, <2>2, <2>4 DEF m, n
  <2>6. \A i \in 1..Len(v) : SubSeq(t, m, n)[i] = t[Len(u) + i]
    BY <1>1, <2>2, <2>4 DEF m
  <2> QED
    BY <2>4, <2>5, <2>6 DEF m, n
<1>6. SubSeq(t, Len(u) + 1, Len(t)) = v
  <2>1. \A i \in 1..Len(v) : SubSeq(t, Len(u) + 1, Len(t))[i] = v[i]
    <3> TAKE i \in 1..Len(v)
    <3>1. /\ Len(u) + i \in 1..Len(u) + Len(v) /\ ~(Len(u) + i <= Len(u))
          /\ Len(u) + i - Len(u) = i
      BY <1>1
    <3>2. t[Len(u) + i] = v[i]
      BY <1>1, <3>1
    <3> QED
      BY <1>5, <3>2
  <2> QED
    BY <1>5, <2>1, SeqEqual
<1> QED
  BY <1>4, <1>6 DEF t

\* What the CLI makes of such a table.
LEMMA TableIs ==
  ASSUME NEW text, NEW own, NEW has \in BOOLEAN, Table(text, own, has)
  PROVE  /\ own \in Seq(Nat) /\ text \in Seq(Int)
         /\ HasCronBlock(text) <=> has
         /\ StripCronBlock(text) = own
         /\ ~has => text = own
<1>1. PICK a \in Seq(Nat), b \in Seq(Nat) :
        /\ own = a \o b
        /\ text = IF has THEN (a \o Block) \o b ELSE a \o b
  BY DEF Table
<1>2. a \in Seq(Int) /\ b \in Seq(Int) /\ own \in Seq(Nat) /\ own \in Seq(Int)
  BY <1>1, ConcatProperties, NaturalLines
<1>3. CASE ~has
  <2>1. text = own /\ text \in Seq(Int) /\ text \in Seq(Nat)
    BY <1>1, <1>2, <1>3
  <2>2. \A i \in 1..Len(text) : text[i] \in Nat
    BY <2>1, NaturalLines
  <2>3. IndexOf(text, BEGIN) = 0
    <3> DEFINE k == IndexOf(text, BEGIN)
    <3>1. k \in 0..Len(text) /\ (k # 0 => text[k] = BEGIN)
      BY <2>1, IndexIs
    <3>2. Len(text) \in Nat
      BY <2>1, LenProperties
    <3> HIDE DEF k
    <3>3. ASSUME k # 0
          PROVE  FALSE
      <4>1. k \in 1..Len(text)
        BY <3>1, <3>2, <3>3
      <4>2. text[k] \in Nat
        BY <2>2, <4>1
      <4> QED
        BY <3>1, <3>3, <4>2, BlockIs
    <3> QED
      BY <3>3 DEF k
  <2>4. ~HasCronBlock(text)
    BY <2>3 DEF HasCronBlock
  <2>5. StripCronBlock(text) = text
    BY <2>4 DEF StripCronBlock
  <2> QED
    BY <1>2, <1>3, <2>1, <2>4, <2>5
<1>4. CASE has
  <2> DEFINE u == a \o Block
  <2>1. /\ u \in Seq(Int) /\ Len(u) = Len(a) + 3 /\ Len(a) \in Nat /\ Len(b) \in Nat
        /\ \A i \in 1..Len(a) + 3 : u[i] = IF i <= Len(a) THEN a[i] ELSE Block[i - Len(a)]
    <3>1. a \in Seq(Int) /\ Block \in Seq(Int) /\ Len(Block) = 3
      BY <1>2, BlockIs
    <3>2. Len(a) \in Nat /\ Len(b) \in Nat
      BY <1>2, LenProperties
    <3>3. /\ u \in Seq(Int) /\ Len(u) = Len(a) + Len(Block)
          /\ \A i \in 1..Len(a) + Len(Block) :
               u[i] = IF i <= Len(a) THEN a[i] ELSE Block[i - Len(a)]
      BY <3>1, ConcatProperties
    <3> HIDE DEF u
    <3> QED
      BY <3>1, <3>2, <3>3
  <2> HIDE DEF u
  <2>2. text = u \o b
    BY <1>1, <1>4 DEF u
  <2>3. /\ text \in Seq(Int) /\ Len(text) = Len(a) + 3 + Len(b)
        /\ \A i \in 1..Len(a) + 3 + Len(b) :
             text[i] = IF i <= Len(a) + 3 THEN u[i] ELSE b[i - (Len(a) + 3)]
    <3>1. u \in Seq(Int) /\ b \in Seq(Int)
      BY <1>2, <2>1
    <3>2. /\ text \in Seq(Int) /\ Len(text) = Len(u) + Len(b)
          /\ \A i \in 1..Len(u) + Len(b) :
               text[i] = IF i <= Len(u) THEN u[i] ELSE b[i - Len(u)]
      BY <2>2, <3>1, ConcatProperties
    <3>3. Len(u) = Len(a) + 3
      BY <2>1
    <3> QED
      BY <3>2, <3>3
  <2>4. /\ text[Len(a) + 1] = BEGIN /\ text[Len(a) + 2] = JOB /\ text[Len(a) + 3] = END
    <3>1. \A k \in {1, 2, 3} : /\ Len(a) + k \in 1..Len(a) + 3 /\ ~(Len(a) + k <= Len(a))
                               /\ Len(a) + k - Len(a) = k
      BY <2>1
    <3>2. ASSUME NEW k \in {1, 2, 3}
          PROVE  u[Len(a) + k] = Block[k]
      BY <2>1, <3>1
    <3>3. \A k \in {1, 2, 3} : Len(a) + k \in 1..Len(a) + 3 + Len(b) /\ Len(a) + k <= Len(a) + 3
      BY <2>1
    <3>4. ASSUME NEW k \in {1, 2, 3}
          PROVE  text[Len(a) + k] = Block[k]
      <4>1. Len(a) + k \in 1..Len(a) + 3 + Len(b) /\ Len(a) + k <= Len(a) + 3
        BY <3>3
      <4>2. text[Len(a) + k] = u[Len(a) + k]
        BY <2>3, <4>1
      <4> QED
        BY <3>2, <4>2
    <3> QED
      BY <3>4, BlockIs
  <2>5. \A i \in 1..Len(a) : text[i] \in Nat
    <3>1. \A i \in 1..Len(a) : a[i] \in Nat
      BY NaturalLines
    <3>2. ASSUME NEW i \in 1..Len(a)
          PROVE  text[i] = a[i]
      <4>1. i \in 1..Len(a) + 3 + Len(b) /\ i <= Len(a) + 3 /\ i \in 1..Len(a) + 3 /\ i <= Len(a)
        BY <2>1
      <4>2. text[i] = u[i]
        BY <2>3, <4>1
      <4>3. u[i] = a[i]
        BY <2>1, <4>1
      <4> QED
        BY <4>2, <4>3
    <3> QED
      BY <3>1, <3>2
  <2>6. \A i \in Len(a) + 4..Len(text) : text[i] \in Nat
    <3>1. \A i \in 1..Len(b) : b[i] \in Nat
      BY NaturalLines
    <3>2. \A i \in Len(a) + 4..Len(text) :
            text[i] = b[i - (Len(a) + 3)] /\ i - (Len(a) + 3) \in 1..Len(b)
      BY <2>1, <2>3
    <3> QED
      BY <3>1, <3>2
  <2>7. \A i \in 1..Len(text) :
          \/ i \in 1..Len(a) \/ i = Len(a) + 1 \/ i = Len(a) + 2 \/ i = Len(a) + 3
          \/ i \in Len(a) + 4..Len(text)
    <3>1. Len(a) \in Nat /\ Len(text) \in Nat
      BY <2>1, <2>3
    <3> QED
      BY <3>1
  <2>8. IndexOf(text, BEGIN) = Len(a) + 1
    <3>1. Len(a) + 1 \in 1..Len(text)
      BY <2>1, <2>3
    <3>2. /\ IndexOf(text, BEGIN) \in 1..Len(text)
          /\ text[IndexOf(text, BEGIN)] = BEGIN
      <4>1. IndexOf(text, BEGIN) # 0
        BY <2>3, <2>4, <3>1, IndexIs
      <4> QED
        BY <2>3, <4>1, IndexIs
    <3> QED
      BY <2>4, <2>5, <2>6, <2>7, <3>2, BlockIs
  <2>9. IndexOf(text, END) = Len(a) + 3
    <3>1. Len(a) + 3 \in 1..Len(text)
      BY <2>1, <2>3
    <3>2. /\ IndexOf(text, END) \in 1..Len(text)
          /\ text[IndexOf(text, END)] = END
      <4>1. IndexOf(text, END) # 0
        BY <2>3, <2>4, <3>1, IndexIs
      <4> QED
        BY <2>3, <4>1, IndexIs
    <3> QED
      BY <2>4, <2>5, <2>6, <2>7, <3>2, BlockIs
  <2>10. HasCronBlock(text)
    BY <2>1, <2>8, <2>9 DEF HasCronBlock
  <2>11. SubSeq(text, 1, Len(a)) = a
    <3>1. Block \o b \in Seq(Int)
      BY <1>2, BlockIs, ConcatProperties
    <3>2. text = a \o (Block \o b)
      BY <1>2, <2>2, BlockIs, ConcatAssociative DEF u
    <3> QED
      BY <1>2, <3>1, <3>2, CutApart
  <2>12. SubSeq(text, Len(a) + 4, Len(text)) = b
    <3>1. SubSeq(u \o b, Len(u) + 1, Len(u \o b)) = b
      BY <1>2, <2>1, CutApart
    <3>2. Len(u) + 1 = Len(a) + 4
      BY <2>1
    <3> QED
      BY <2>2, <3>1, <3>2
  <2>13. StripCronBlock(text) = a \o b
    <3>1. IndexOf(text, BEGIN) - 1 = Len(a) /\ IndexOf(text, END) + 1 = Len(a) + 4
      BY <2>1, <2>8, <2>9
    <3>2. StripCronBlock(text) =
            SubSeq(text, 1, IndexOf(text, BEGIN) - 1) \o SubSeq(text, IndexOf(text, END) + 1, Len(text))
      BY <2>10 DEF StripCronBlock
    <3> QED
      BY <2>11, <2>12, <3>1, <3>2
  <2> QED
    BY <1>1, <1>2, <1>4, <2>3, <2>10, <2>13
<1> QED
  BY <1>3, <1>4

LEMMA TableMade ==
  ASSUME NEW own \in Seq(Nat)
  PROVE  Table(own, own, FALSE) /\ Table(own \o Block, own, TRUE)
<1>1. <<>> \in Seq(Nat)
  BY EmptySeq
<1>2. own \o <<>> = own
  BY ConcatEmptySeq
<1>3. own \in Seq(Int) /\ own \o Block \in Seq(Int)
  BY BlockIs, NaturalLines, ConcatProperties
<1>4. (own \o Block) \o <<>> = own \o Block
  BY <1>3, ConcatEmptySeq
<1>5. Table(own, own, FALSE)
  BY <1>1, <1>2 DEF Table
<1>6. Table(own \o Block, own, TRUE)
  BY <1>1, <1>2, <1>4 DEF Table
<1> QED
  BY <1>5, <1>6

\* A line of the user's at the end or at the top.
LEMMA TableGrows ==
  ASSUME NEW text, NEW own, NEW has \in BOOLEAN, Table(text, own, has), NEW line \in Nat
  PROVE  /\ Table(Append(text, line), Append(own, line), has)
         /\ Table(<<line>> \o text, <<line>> \o own, has)
<1>1. PICK a \in Seq(Nat), b \in Seq(Nat) :
        /\ own = a \o b
        /\ text = IF has THEN (a \o Block) \o b ELSE a \o b
  BY DEF Table
<1>2. /\ a \in Seq(Int) /\ b \in Seq(Int) /\ own \in Seq(Nat) /\ text \in Seq(Int)
      /\ <<line>> \in Seq(Nat) /\ <<line>> \in Seq(Int) /\ line \in Int
  <2>1. a \in Seq(Int) /\ b \in Seq(Int)
    BY NaturalLines
  <2>2. own \in Seq(Nat) /\ text \in Seq(Int)
    BY TableIs
  <2>3. <<line>> \in Seq(Nat) /\ <<line>> \in Seq(Int) /\ line \in Int
    OBVIOUS
  <2> QED
    BY <2>1, <2>2, <2>3
<1>3. b \o <<line>> \in Seq(Nat) /\ <<line>> \o a \in Seq(Nat)
  BY <1>2, ConcatProperties
<1>4. a \o Block \in Seq(Int)
  BY <1>2, BlockIs, ConcatProperties
<1>5. Append(text, line) = text \o <<line>> /\ Append(own, line) = own \o <<line>>
  BY <1>2, AppendIsConcat
<1>6. own \o <<line>> = a \o (b \o <<line>>)
  BY <1>1, <1>2, ConcatAssociative
<1>7. text \o <<line>> = IF has THEN (a \o Block) \o (b \o <<line>>) ELSE a \o (b \o <<line>>)
  <2>1. ((a \o Block) \o b) \o <<line>> = (a \o Block) \o (b \o <<line>>)
    <3> DEFINE u == a \o Block
               w == <<line>>
    <3>1. u \in Seq(Int) /\ b \in Seq(Int) /\ w \in Seq(Int)
      BY <1>2, <1>4
    <3> HIDE DEF u, w
    <3>2. (u \o b) \o w = u \o (b \o w)
      BY <3>1, ConcatAssociative
    <3> QED
      BY <3>2 DEF u, w
  <2> QED
    BY <1>1, <1>6, <2>1
<1>8. Table(Append(text, line), Append(own, line), has)
  BY <1>3, <1>5, <1>6, <1>7 DEF Table
<1>9. <<line>> \o own = (<<line>> \o a) \o b
  <2>1. <<line>> \in Seq(Nat)
    BY <1>2
  <2>2. (<<line>> \o a) \o b = <<line>> \o (a \o b)
    BY <2>1, ConcatAssociative
  <2> QED
    BY <1>1, <2>2
<1>10. <<line>> \o text = IF has THEN ((<<line>> \o a) \o Block) \o b ELSE (<<line>> \o a) \o b
  <2>1. (<<line>> \o a) \o Block = <<line>> \o (a \o Block)
    <3>1. <<line>> \in Seq(Int) /\ a \in Seq(Int) /\ Block \in Seq(Int)
      BY <1>2, BlockIs
    <3> QED
      BY <3>1, ConcatAssociative
  <2>2. (<<line>> \o (a \o Block)) \o b = <<line>> \o ((a \o Block) \o b)
    BY <1>2, <1>4, ConcatAssociative
  <2> QED
    BY <1>1, <1>9, <2>1, <2>2
<1>11. Table(<<line>> \o text, <<line>> \o own, has)
  BY <1>3, <1>9, <1>10 DEF Table
<1> QED
  BY <1>8, <1>11

\* Such a table comes in one piece, if the user's lines leave room for our block.
LEMMA TableFits ==
  ASSUME NEW text, NEW own, NEW has \in BOOLEAN, Table(text, own, has),
         Len(own) + 3 <= PieceLimit
  PROVE  Len(text) <= PieceLimit
<1>1. PICK a \in Seq(Nat), b \in Seq(Nat) :
        /\ own = a \o b
        /\ text = IF has THEN (a \o Block) \o b ELSE a \o b
  BY DEF Table
<1>2. a \in Seq(Int) /\ b \in Seq(Int) /\ Block \in Seq(Int) /\ Len(Block) = 3
  BY NaturalLines, BlockIs
<1> DEFINE u == a \o Block
<1>3. Len(a \o b) = Len(a) + Len(b) /\ u \in Seq(Int) /\ Len(u) = Len(a) + Len(Block)
  BY <1>2, ConcatProperties
<1> HIDE DEF u
<1>4. Len(u \o b) = Len(u) + Len(b)
  BY <1>2, <1>3, ConcatProperties
<1>5. Len(a) \in Nat /\ Len(b) \in Nat /\ PieceLimit \in Nat
  BY <1>2, LenProperties, ScheduleAssumption
<1>6. CASE has
  <2>1. text = u \o b
    BY <1>1, <1>6 DEF u
  <2>2. Len(own) = Len(a) + Len(b)
    BY <1>1, <1>3
  <2> QED
    BY <1>2, <1>3, <1>4, <1>5, <2>1, <2>2
<1>7. CASE ~has
  <2>1. text = own
    BY <1>1, <1>7
  <2>2. Len(text) \in Nat
    BY <2>1, TableIs, LenProperties
  <2> QED
    BY <1>5, <2>1, <2>2
<1> QED
  BY <1>6, <1>7

\* The table that nobody has broken holds the user's lines, and at most our block.
Shaped == undisturbed /\ Fits => \E has \in BOOLEAN : Table(crontab, lines, has)

\* A rewriting rests on the table as it was, when that came in one piece.
ReadWhole ==
    cli.backend = "cron" /\ cli.todo \in {CWI, CWR} /\ Len(cli.table) <= PieceLimit =>
      cli.read = cli.table

LEMMA RewriteIs ==
  ASSUME ScheduleTypeOK, Placed, Kind("rewrite")
  PROVE  /\ cli.at \in {"cron", "remove"} /\ cli.backend = "cron"
         /\ cli.at = "cron" => Argument = "install"
         /\ cli.at = "remove" => Argument = "remove"
         /\ undisturbed /\ Fits /\ crontab = cli.table /\ Shaped /\ ReadWhole =>
              /\ Argument = "install" => Table(Rewritten, lines, TRUE)
              /\ Argument = "remove" => Table(Rewritten, lines, FALSE)
<1>1. cli.at \in {"cron", "remove"} /\ cli.backend = "cron" /\ cli.todo \in {CRI, CWI, CRR, CWR}
  BY KindTells DEF Kind
<1>2. /\ CRI # <<>> /\ CWI # <<>> /\ CRR # <<>> /\ CWR # <<>>
      /\ Head(CRI) = <<"read", "install">> /\ Head(CWI) = <<"rewrite", "install">>
      /\ Head(CRR) = <<"read", "remove">> /\ Head(CWR) = <<"rewrite", "remove">>
  BY CrontabSteps
<1>3. cli.todo # <<>> /\ Head(cli.todo)[1] = "rewrite" /\ Argument = Head(cli.todo)[2]
  BY DEF Kind, StepAhead, Argument
<1>4. cli.at = "cron" => Argument = "install"
  <2>1. cli.at = "cron" => cli.todo = CRI \/ cli.todo = CWI
    BY <1>3 DEF Placed
  <2> QED
    BY <2>1, <1>2, <1>3
<1>5. cli.at = "remove" => Argument = "remove"
  <2>1. cli.at = "remove" => cli.todo = CRR \/ cli.todo = CWR
    BY <1>1, <1>3 DEF Placed
  <2> QED
    BY <2>1, <1>2, <1>3
<1>6. ASSUME undisturbed, Fits, crontab = cli.table, Shaped, ReadWhole
      PROVE  /\ Argument = "install" => Table(Rewritten, lines, TRUE)
             /\ Argument = "remove" => Table(Rewritten, lines, FALSE)
  <2>1. PICK has \in BOOLEAN : Table(crontab, lines, has)
    BY <1>6 DEF Shaped
  <2>2. /\ lines \in Seq(Nat) /\ StripCronBlock(crontab) = lines
        /\ HasCronBlock(crontab) <=> has
        /\ ~has => crontab = lines
    BY <2>1, TableIs
  <2>7. Len(crontab) <= PieceLimit
    BY <1>6, <2>1, TableFits DEF Fits
  <2>9. cli.todo \in {CWI, CWR}
    BY <1>1, <1>2, <1>3
  <2>8. cli.read = crontab
    BY <1>1, <1>6, <2>7, <2>9 DEF ReadWhole
  <2>3. Table(lines, lines, FALSE) /\ Table(lines \o Block, lines, TRUE)
    BY <2>2, TableMade
  <2>4. MergeCronBlock(cli.read) = lines \o Block
    BY <2>2, <2>8 DEF MergeCronBlock, Block
  <2>5. Argument = "install" => Rewritten = lines \o Block
    BY <2>4 DEF Rewritten
  <2>6. Argument = "remove" => Rewritten = lines
    BY <2>2, <2>8 DEF Rewritten
  <2> QED
    BY <2>3, <2>5, <2>6
<1> QED
  BY <1>1, <1>4, <1>5, <1>6

\* Steps that leave the table and the user's lines alone.
Elsewhere ==
    \/ \E b \in Backends, p \in Plans : SetupInstall(b, p)
    \/ SetupRemove \/ Finish
    \/ WriteFile \/ RestoreFile \/ RemoveFile \/ RunCommand \/ TryCommand \/ UnregisterCommand
    \/ PutBack \/ CommandFails \/ TryFails \/ PutBackFails \/ UnregisterMistaken
    \/ ReadCrontab \/ WriteFails \/ RecordFails \/ Breaking

LEMMA ElsewhereIs ==
  ASSUME ScheduleTypeOK, Elsewhere
  PROVE  crontab' = crontab /\ lines' = lines /\ undisturbed' = undisturbed
<1>1. ((\E b \in Backends, p \in Plans : SetupInstall(b, p)) \/ SetupRemove) =>
        crontab' = crontab /\ lines' = lines /\ undisturbed' = undisturbed
  BY SetupInstallIs, SetupRemoveIs
<1>2. Breaking => still' = still
  BY BreakingIs
<1> QED
  BY <1>1, <1>2 DEF Elsewhere, Finish, WriteFile, RestoreFile, RemoveFile, RunCommand, TryCommand,
     UnregisterCommand, PutBack, CommandFails, TryFails, PutBackFails, UnregisterMistaken,
     ReadCrontab, WriteFails, RecordFails, still, user

\* Only a reading of the table leads to its rewriting.
LEMMA ReadWholeInductive ==
  ASSUME ScheduleTypeOK, Placed, ReadWhole, [ScheduleNext]_scheduleVars
  PROVE  ReadWhole'
<1>0. /\ cli \in Invocation /\ native # "cron"
      /\ CRI \notin {CWI, CWR} /\ CRR \notin {CWI, CWR} /\ CWI # <<>> /\ CWR # <<>>
  BY CrontabSteps DEF ScheduleTypeOK, Natives
<1>1. CASE ReadCrontab
  <2>1. cli'.table = crontab /\ cli'.read \in Captured(crontab)
    BY <1>1, RewriteTodo
  <2>2. Len(crontab) <= PieceLimit => cli'.read = crontab
    BY <2>1, CapturedIs DEF ScheduleTypeOK
  <2> QED
    BY <2>1, <2>2 DEF ReadWhole
<1>2. CASE (\E b \in Backends, p \in Plans : SetupInstall(b, p)) \/ SetupRemove
  <2>1. cli'.backend = "cron" => cli'.todo \in {CRI, CRR}
    BY <1>2, SetupInstallIs, SetupRemoveIs DEF InstallTodo, RemovalTodo
  <2> QED
    BY <1>0, <2>1 DEF ReadWhole
<1>3. CASE WriteFile \/ RestoreFile \/ RemoveFile \/ RunCommand \/ TryCommand
             \/ UnregisterCommand \/ PutBack \/ CommandFails \/ TryFails \/ PutBackFails
             \/ UnregisterMistaken
  <2>1. cli.backend = native
    BY <1>3, KindTells DEF WriteFile, RestoreFile, RemoveFile, RunCommand, TryCommand,
       UnregisterCommand, PutBack, CommandFails, TryFails, PutBackFails, UnregisterMistaken, Kind
  <2>2. cli'.backend = cli.backend
    BY <1>3, WithinIs DEF Within
  <2> QED
    BY <1>0, <2>1, <2>2 DEF ReadWhole
<1>4. CASE RewriteCrontab \/ Finish \/ RecordFails
  <2>1. cli'.todo = <<>>
    BY <1>0, <1>4 DEF RewriteCrontab, Finish, RecordFails, Goes, Invocation
  <2> QED
    BY <1>0, <2>1 DEF ReadWhole
<1>5. CASE Breaking \/ WriteFails \/ CrontabFails
  <2>1. cli'.backend = "none"
    BY <1>5, BreakingIs, WriteFailsIs DEF CrontabFails, NoCli
  <2> QED
    BY <2>1 DEF ReadWhole
<1>6. CASE UserAddsLine \/ UserDropsMark \/ UNCHANGED scheduleVars
  BY <1>6 DEF UserAddsLine, UserDropsMark, scheduleVars, ReadWhole
<1> QED
  BY <1>1, <1>2, <1>3, <1>4, <1>5, <1>6 DEF ScheduleNext, Breaking

\* A table that grows does not come to fit.
LEMMA LinesGrow ==
  ASSUME ScheduleTypeOK, UserAddsLine
  PROVE  Fits' => Fits
<1>1. lines \in Seq(Nat) /\ edits \in Nat /\ PieceLimit \in Nat
  BY ScheduleAssumption DEF ScheduleTypeOK
<1>2. lines' = Append(lines, edits) \/ lines' = <<edits>> \o lines
  BY DEF UserAddsLine
<1> DEFINE w == <<edits>>
<1>3. w \in Seq(Nat) /\ Len(w) = 1 /\ Len(lines) \in Nat /\ Len(Append(lines, edits)) = Len(lines) + 1
  BY <1>1
<1> HIDE DEF w
<1>4. Len(w \o lines) = Len(w) + Len(lines)
  BY <1>1, <1>3, ConcatProperties
<1>5. Len(lines') = Len(lines) + 1
  BY <1>2, <1>3, <1>4 DEF w
<1> QED
  BY <1>1, <1>3, <1>5 DEF Fits

LEMMA ShapedInductive ==
  ASSUME ScheduleTypeOK, Placed, Shaped, ReadWhole, [ScheduleNext]_scheduleVars
  PROVE  Shaped'
<1>1. ASSUME Elsewhere \/ UNCHANGED scheduleVars PROVE Shaped'
  <2>1. crontab' = crontab /\ lines' = lines /\ undisturbed' = undisturbed
    BY <1>1, ElsewhereIs DEF scheduleVars
  <2> QED
    BY <2>1 DEF Shaped, Fits, Table
<1>2. ASSUME RewriteCrontab \/ CrontabFails PROVE Shaped'
  <2>1. \/ UNCHANGED <<crontab, undisturbed>>
        \/ /\ Kind("rewrite") /\ crontab' = Rewritten
           /\ undisturbed' = (undisturbed /\ crontab = cli.table)
    BY <1>2 DEF RewriteCrontab, CrontabFails
  <2>2. lines' = lines
    BY <1>2 DEF RewriteCrontab, CrontabFails
  <2>3. CASE UNCHANGED <<crontab, undisturbed>>
    BY <2>2, <2>3 DEF Shaped, Fits, Table
  <2>4. CASE /\ Kind("rewrite") /\ crontab' = Rewritten
             /\ undisturbed' = (undisturbed /\ crontab = cli.table)
    <3> SUFFICES ASSUME undisturbed', Fits' PROVE \E has \in BOOLEAN : Table(crontab, lines, has)'
      BY DEF Shaped
    <3>1. undisturbed /\ crontab = cli.table /\ Fits
      BY <2>2, <2>4 DEF Fits
    <3>2. Table(Rewritten, lines, TRUE) \/ Table(Rewritten, lines, FALSE)
      BY <2>4, <3>1, RewriteIs
    <3>3. Table(crontab, lines, TRUE)' \/ Table(crontab, lines, FALSE)'
      BY <2>2, <2>4, <3>2 DEF Table
    <3> QED
      BY <3>3
  <2> QED
    BY <2>1, <2>3, <2>4
<1>3. ASSUME UserAddsLine PROVE Shaped'
  <2>1. /\ undisturbed' = undisturbed /\ edits \in Nat
        /\ \/ crontab' = Append(crontab, edits) /\ lines' = Append(lines, edits)
           \/ crontab' = <<edits>> \o crontab /\ lines' = <<edits>> \o lines
    BY <1>3 DEF UserAddsLine, ScheduleTypeOK
  <2>3. Fits' => Fits
    BY <1>3, LinesGrow
  <2> SUFFICES ASSUME undisturbed, NEW has \in BOOLEAN, Table(crontab, lines, has)
               PROVE  Table(crontab, lines, has)'
    BY <2>1, <2>3 DEF Shaped
  <2>2. /\ Table(Append(crontab, edits), Append(lines, edits), has)
        /\ Table(<<edits>> \o crontab, <<edits>> \o lines, has)
    BY <2>1, TableGrows
  <2> QED
    BY <2>1, <2>2 DEF Table
<1>4. ASSUME UserDropsMark PROVE Shaped'
  <2>1. undisturbed' = FALSE
    BY <1>4 DEF UserDropsMark
  <2> QED
    BY <2>1 DEF Shaped
<1> QED
  BY <1>1, <1>2, <1>3, <1>4 DEF ScheduleNext, Elsewhere, Breaking

\* A user who adds a line leaves the block where it is, or is not.
LEMMA AddingKeepsBlock ==
  ASSUME ScheduleTypeOK, Shaped, undisturbed, Fits, UserAddsLine
  PROVE  HasCronBlock(crontab') <=> HasCronBlock(crontab)
<1>1. PICK has \in BOOLEAN : Table(crontab, lines, has)
  BY DEF Shaped
<1>2. /\ edits \in Nat
      /\ \/ crontab' = Append(crontab, edits) /\ lines' = Append(lines, edits)
         \/ crontab' = <<edits>> \o crontab /\ lines' = <<edits>> \o lines
  BY DEF UserAddsLine, ScheduleTypeOK
<1>3. /\ Table(Append(crontab, edits), Append(lines, edits), has)
      /\ Table(<<edits>> \o crontab, <<edits>> \o lines, has)
  BY <1>1, <1>2, TableGrows
<1>4. HasCronBlock(crontab') <=> has
  BY <1>2, <1>3, TableIs
<1> QED
  BY <1>1, <1>4, TableIs

LEMMA BlockKnownInductive ==
  ASSUME ScheduleTypeOK, Placed, ReadWhole, Shaped, BlockKnown, [ScheduleNext]_scheduleVars
  PROVE  BlockKnown'
<1>0. /\ cli \in Invocation /\ native \in Natives /\ native \notin {"none", "cron"}
      /\ cli.at \in {"idle", "install", "remove", "rollback", "cron"}
      /\ scheduleFile \in {"none", "cron", native}
  BY DEF ScheduleTypeOK, Invocation, Natives
<1>1. ASSUME (\E b \in Backends, p \in Plans : SetupInstall(b, p)) \/ SetupRemove
      PROVE  BlockKnown'
  <2>1. /\ cli.at = "idle" /\ crontab' = crontab /\ scheduleFile' = scheduleFile
        /\ intact' = intact /\ undisturbed' = undisturbed /\ Fits' = Fits
    BY <1>1, SetupInstallIs, SetupRemoveIs DEF Fits
  <2>2. /\ cli'.at = "cron" => cli'.todo = CRI
        /\ cli'.at = "remove" /\ cli'.backend = "cron" => cli'.todo = CRR
    BY <1>0, <1>1, SetupInstallIs, SetupRemoveIs DEF InstallTodo, RemovalTodo
  <2>3. CRI # <<>> /\ CRR # <<>>
    BY CrontabSteps
  <2>4. intact /\ undisturbed /\ Fits => (HasCronBlock(crontab) <=> scheduleFile = "cron")
    BY <2>1 DEF BlockKnown
  <2> QED
    BY <2>1, <2>2, <2>3, <2>4 DEF BlockKnown
<1>2. ASSUME WriteFile \/ RestoreFile \/ RemoveFile \/ RunCommand \/ TryCommand \/ UnregisterCommand
               \/ PutBack \/ CommandFails \/ TryFails \/ PutBackFails \/ UnregisterMistaken
      PROVE  BlockKnown'
  <2>1. cli.backend = native /\ cli.at # "cron"
    BY <1>2, KindTells DEF WriteFile, RestoreFile, RemoveFile, RunCommand, TryCommand,
       UnregisterCommand, PutBack, CommandFails, TryFails, PutBackFails, UnregisterMistaken, Kind
  <2>2. /\ cli'.backend = cli.backend /\ scheduleFile' = scheduleFile
        /\ intact' => intact
        /\ CommandFails \/ cli'.at = cli.at
    BY <1>2, WithinIs DEF Within
  <2>3. CommandFails => cli'.at = "rollback"
    BY <1>0 DEF CommandFails, Invocation
  <2>4. crontab' = crontab /\ undisturbed' = undisturbed /\ Fits' = Fits
    BY <1>2, ElsewhereIs DEF Elsewhere, Fits
  <2>5. intact /\ undisturbed /\ Fits => (HasCronBlock(crontab) <=> scheduleFile = "cron")
    BY <1>0, <2>1 DEF BlockKnown
  <2> QED
    BY <1>0, <2>1, <2>2, <2>3, <2>4, <2>5 DEF BlockKnown
<1>3. ASSUME Breaking \/ WriteFails PROVE BlockKnown'
  BY <1>3, BreakingIs, WriteFailsIs DEF BlockKnown
<1>4. ASSUME ReadCrontab PROVE BlockKnown'
  <2>1. cli.todo # <<>> /\ cli.at \in {"cron", "remove"} /\ cli.backend = "cron"
    BY <1>4, KindTells DEF ReadCrontab, Kind, StepAhead
  <2>2. /\ cli.at = "cron" => cli'.todo = CWI
        /\ cli.at = "remove" => cli'.todo = CWR
        /\ cli'.at = cli.at
    BY <1>0, <1>4, RewriteTodo DEF Invocation
  <2>3. /\ crontab' = crontab /\ undisturbed' = undisturbed /\ intact' = intact
        /\ scheduleFile' = scheduleFile /\ Fits' = Fits
    BY <1>4 DEF ReadCrontab, still, user, Fits
  <2>4. CWI # <<>> /\ CWR # <<>>
    BY CrontabSteps
  <2> QED
    BY <2>1, <2>2, <2>3, <2>4 DEF BlockKnown
<1>5. ASSUME RewriteCrontab PROVE BlockKnown'
  <2>1. /\ cli'.at = cli.at /\ cli'.backend = cli.backend /\ cli'.todo = <<>>
        /\ crontab' = Rewritten /\ undisturbed' = (undisturbed /\ crontab = cli.table)
        /\ Fits' = Fits
    BY <1>0, <1>5 DEF RewriteCrontab, Goes, Invocation, Fits
  <2>2. /\ Kind("rewrite") /\ cli.at \in {"cron", "remove"} /\ cli.backend = "cron"
        /\ cli.at = "cron" => Argument = "install"
        /\ cli.at = "remove" => Argument = "remove"
    BY <1>5, RewriteIs DEF RewriteCrontab
  <2>3. ASSUME undisturbed', Fits' PROVE HasCronBlock(crontab') <=> cli.at = "cron"
    <3>1. undisturbed /\ crontab = cli.table /\ Fits
      BY <2>1, <2>3
    <3>2. /\ Argument = "install" => Table(Rewritten, lines, TRUE)
          /\ Argument = "remove" => Table(Rewritten, lines, FALSE)
      BY <2>2, <3>1, RewriteIs
    <3>3. /\ Argument = "install" => HasCronBlock(Rewritten)
          /\ Argument = "remove" => ~HasCronBlock(Rewritten)
      BY <3>2, TableIs
    <3> QED
      BY <2>1, <2>2, <3>3
  <2> QED
    BY <2>1, <2>2, <2>3 DEF BlockKnown
<1>6. ASSUME CrontabFails PROVE BlockKnown'
  <2>1. CASE intact' = FALSE
    BY <2>1 DEF BlockKnown
  <2>2. CASE UNCHANGED <<crontab, undisturbed, intact>>
    <3>1. cli.todo # <<>>
      BY <1>6 DEF CrontabFails, Kind, StepAhead
    <3>2. cli'.at = "idle" /\ scheduleFile' = scheduleFile /\ Fits' = Fits
      BY <1>6 DEF CrontabFails, NoCli, Fits
    <3> QED
      BY <2>2, <3>1, <3>2 DEF BlockKnown
  <2> QED
    BY <1>6, <2>1, <2>2 DEF CrontabFails
<1>7. ASSUME Finish \/ RecordFails PROVE BlockKnown'
  <2>1. /\ cli.at # "idle" /\ cli.todo = <<>> /\ cli'.at = "idle"
        /\ crontab' = crontab /\ undisturbed' = undisturbed /\ Fits' = Fits
    BY <1>0, <1>7 DEF Finish, RecordFails, CliBusy, Invocation, user, still, Fits
  <2> SUFFICES ASSUME intact', undisturbed, Fits
               PROVE  HasCronBlock(crontab) <=> scheduleFile' = "cron"
    BY <2>1 DEF BlockKnown
  <2>7. intact /\ (RecordFails => scheduleFile = cli.backend)
    BY <1>7, Zenon DEF Finish, RecordFails
  <2>2. /\ cli.at \in {"install", "cron"} => scheduleFile' = cli.backend
        /\ cli.at = "remove" => scheduleFile' = "none"
        /\ cli.at = "rollback" => scheduleFile' = scheduleFile
    <3>1. CASE Finish
      BY <3>1 DEF Finish
    <3>2. CASE RecordFails
      <4>1. cli.at \in {"install", "cron"} /\ scheduleFile' = scheduleFile
        BY <3>2 DEF RecordFails, still
      <4> QED
        BY <2>7, <3>2, <4>1
    <3> QED
      BY <1>7, <3>1, <3>2
  <2>3. /\ cli.at = "cron" => cli.backend = "cron"
        /\ cli.at \in {"install", "rollback"} => cli.backend = native /\ scheduleFile \in {"none", native}
        /\ cli.at = "remove" => cli.backend = scheduleFile
    BY DEF Placed
  <2>4. CASE cli.at = "cron"
    BY <2>1, <2>2, <2>3, <2>4, <2>7 DEF BlockKnown
  <2>5. CASE cli.at = "remove"
    BY <1>0, <2>1, <2>2, <2>3, <2>5, <2>7 DEF BlockKnown
  <2>6. CASE cli.at \in {"install", "rollback"}
    <3>1. HasCronBlock(crontab) <=> scheduleFile = "cron"
      BY <2>6, <2>7 DEF BlockKnown
    <3> QED
      BY <1>0, <2>2, <2>3, <2>6, <3>1
  <2> QED
    BY <1>0, <2>1, <2>4, <2>5, <2>6
<1>8. ASSUME UserAddsLine PROVE BlockKnown'
  <2>1. /\ cli' = cli /\ intact' = intact /\ undisturbed' = undisturbed
        /\ scheduleFile' = scheduleFile
    BY <1>8 DEF UserAddsLine
  <2>3. Fits' => Fits
    BY <1>8, LinesGrow
  <2>2. undisturbed /\ Fits => (HasCronBlock(crontab') <=> HasCronBlock(crontab))
    BY <1>8, AddingKeepsBlock
  <2> QED
    BY <2>1, <2>2, <2>3 DEF BlockKnown
<1>9. ASSUME UserDropsMark PROVE BlockKnown'
  BY <1>9 DEF UserDropsMark, BlockKnown
<1>10. ASSUME UNCHANGED scheduleVars PROVE BlockKnown'
  BY <1>10 DEF scheduleVars, BlockKnown, Fits
<1> QED
  BY <1>1, <1>2, <1>3, <1>4, <1>5, <1>6, <1>7, <1>8, <1>9, <1>10
     DEF ScheduleNext, Breaking

-----------------------------------------------------------------------------
(* The theorem.                                                            *)

InstallationInvariant ==
    /\ ScheduleTypeOK /\ Placed /\ Points
    /\ RecordKept /\ Ends
    /\ ReadWhole /\ Shaped /\ BlockKnown

LEMMA InstallationStarts ==
  ASSUME ScheduleInit
  PROVE  InstallationInvariant
<1>1. /\ native \in Natives /\ os = Bare /\ crontab = <<>> /\ scheduleFile = "none"
      /\ cli = NoCli /\ intact = TRUE /\ lines = <<>> /\ undisturbed = TRUE
      /\ setups = 0 /\ edits = 0
  BY DEF ScheduleInit
<1>2. NoCli \in Invocation
  BY NoCliIsTyped
<1>3. /\ cli.at = "idle" /\ cli.backend = "none" /\ cli.clean = TRUE /\ cli.result = "none"
  BY <1>1 DEF NoCli
<1>4. Bare \in Machine
  BY ScheduleAssumption DEF Bare, Machine, Contents
<1>5. ScheduleTypeOK
  BY <1>1, <1>2, <1>3, <1>4, EmptySeq DEF ScheduleTypeOK
<1>6. Placed /\ Points
  BY <1>1, <1>3 DEF Placed, Points, InstallPoints, RollbackPoints, RemovalPoints
<1>7. Recorded(os)
  <2>1. Blank(os)
    BY <1>1, <1>4, BlankIs DEF Bare
  <2>2. scheduleFile # native
    BY <1>1 DEF Natives
  <2> QED
    BY <2>1, <2>2 DEF Recorded
<1>8. RecordKept /\ Ends /\ ReadWhole
  BY <1>3, <1>7
     DEF RecordKept, Ends, Restored, InstalledWorks, UnwrittenKeepsLoaded, ReadWhole
<1>9. Table(crontab, lines, FALSE)
  BY <1>1, EmptySeq, TableMade
<1>10. Shaped
  BY <1>9 DEF Shaped
<1>11. ~HasCronBlock(crontab)
  BY <1>9, TableIs
<1>12. BlockKnown
  BY <1>1, <1>3, <1>11 DEF BlockKnown
<1> QED
  BY <1>5, <1>6, <1>8, <1>10, <1>12 DEF InstallationInvariant

LEMMA InvariantIsSound ==
  ASSUME InstallationInvariant
  PROVE  InstallationSound
<1>0. /\ ScheduleTypeOK /\ native \in Natives /\ native \notin {"none", "cron"}
      /\ os \in Machine /\ cli.before \in Machine
      /\ cli.backend \in {"none", "cron", native} /\ scheduleFile \in {"none", "cron", native}
  BY DEF InstallationInvariant, ScheduleTypeOK, Invocation, Natives
<1>1. FailureRestores
  <2> SUFFICES ASSUME cli.at = "idle", cli.result = "error", cli.backend \in Natives, cli.clean,
                      View(cli.before) = Bare \/ \E p \in Plans : Works(cli.backend, cli.before, p)
               PROVE  View(os) = View(cli.before)
    BY DEF FailureRestores
  <2>1. cli.backend = native
    BY <1>0 DEF Natives
  <2>2. Blank(cli.before) \/ Working(cli.before)
    BY <2>1 DEF Blank, Working
  <2> QED
    BY <2>1, <2>2 DEF InstallationInvariant, Ends, Restored
<1>2. InstalledWorks /\ UnwrittenKeepsLoaded
  BY DEF InstallationInvariant, Ends
<1>3. RecordTruthful
  <2> SUFFICES ASSUME cli.at = "idle", intact
               PROVE  CASE scheduleFile = "none" ->
                             View(os) = Bare /\ (undisturbed /\ Fits => ~HasCronBlock(crontab))
                        [] scheduleFile = "cron" -> undisturbed /\ Fits => HasCronBlock(crontab)
                        [] OTHER -> \E p \in Plans : Works(scheduleFile, os, p)
    BY DEF RecordTruthful, CliBusy
  <2>1. Recorded(os)
    BY DEF InstallationInvariant, RecordKept
  <2>2. undisturbed /\ Fits => (HasCronBlock(crontab) <=> scheduleFile = "cron")
    BY DEF InstallationInvariant, BlockKnown
  <2>3. scheduleFile = "none" => View(os) = Bare
    BY <1>0, <2>1 DEF Recorded, Blank
  <2>4. scheduleFile = native => \E p \in Plans : Works(scheduleFile, os, p)
    BY <2>1 DEF Recorded, Working
  <2> QED
    BY <1>0, <2>2, <2>3, <2>4
<1>4. UserLinesKept
  <2> SUFFICES ASSUME undisturbed, Fits
               PROVE  \/ crontab = lines
                      \/ \E i \in 0..Len(lines) :
                            crontab = SubSeq(lines, 1, i) \o <<BEGIN, JOB, END>>
                                        \o SubSeq(lines, i + 1, Len(lines))
    BY DEF UserLinesKept
  <2>1. PICK has \in BOOLEAN : Table(crontab, lines, has)
    BY DEF InstallationInvariant, Shaped
  <2>2. PICK a \in Seq(Nat), b \in Seq(Nat) :
          /\ lines = a \o b
          /\ crontab = IF has THEN (a \o Block) \o b ELSE a \o b
    BY <2>1 DEF Table
  <2>3. CASE ~has
    BY <2>2, <2>3
  <2>4. CASE has
    <3>1. /\ SubSeq(lines, 1, Len(a)) = a
          /\ SubSeq(lines, Len(a) + 1, Len(lines)) = b
      BY <2>2, CutApart
    <3>2. Len(lines) = Len(a) + Len(b) /\ Len(a) \in Nat /\ Len(b) \in Nat
      BY <2>2, ConcatProperties, LenProperties
    <3>3. Len(a) \in 0..Len(lines)
      BY <3>2
    <3>4. crontab = SubSeq(lines, 1, Len(a)) \o <<BEGIN, JOB, END>>
                      \o SubSeq(lines, Len(a) + 1, Len(lines))
      BY <2>2, <2>4, <3>1 DEF Block
    <3> QED
      BY <3>3, <3>4
  <2> QED
    BY <2>3, <2>4
<1> QED
  BY <1>1, <1>2, <1>3, <1>4 DEF InstallationSound

\* Whatever fails or is killed, and however many plans there are: an installation of which a
\* command fails restores what worked before it, one of which a write of the files fails leaves
\* what is loaded as it was (and the files new or torn), one that succeeds works, schedule.json
\* tells what is there as long as every step that failed was undone, and the user's own lines
\* stay in their order in a crontab that `crontab -l` hands over in one piece.  It says nothing
\* of a longer crontab, which the CLI may cut.
THEOREM InstallationStaysSound == ScheduleSpec => []InstallationSound
<1>1. ScheduleInit => InstallationInvariant
  BY InstallationStarts
<1>2. InstallationInvariant /\ [ScheduleNext]_scheduleVars => InstallationInvariant'
  <2> SUFFICES ASSUME InstallationInvariant, [ScheduleNext]_scheduleVars
               PROVE  InstallationInvariant'
    OBVIOUS
  <2>1. /\ ScheduleTypeOK /\ Placed /\ Points /\ RecordKept /\ Ends
        /\ ReadWhole /\ Shaped /\ BlockKnown
    BY DEF InstallationInvariant
  <2>2. ScheduleTypeOK' /\ Placed' /\ Points' /\ RecordKept'
    BY <2>1, ScheduleTypeInductive, PlacedInductive, PointsInductive, RecordKeptInductive
  <2>3. Ends' /\ ReadWhole' /\ Shaped' /\ BlockKnown'
    BY <2>1, EndsWell, ReadWholeInductive, ShapedInductive, BlockKnownInductive
  <2> QED
    BY <2>2, <2>3 DEF InstallationInvariant
<1>3. InstallationInvariant => InstallationSound
  BY InvariantIsSound
<1> QED
  BY <1>1, <1>2, <1>3, PTL DEF ScheduleSpec

=============================================================================
