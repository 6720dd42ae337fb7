-------------------------- MODULE WorkstationKeys ---------------------------
(***************************************************************************)
(* Enrollment of one workstation installation: the CLI commands login      *)
(* (browser consent or headless pairing) and logout, the operator's        *)
(* browser, and the Worker's workstation_codes and workstations tables.    *)
(*                                                                         *)
(* Every POST and DELETE runs inside the Connect coordinator, one at a     *)
(* time; the exchange is the only handler here whose read and whose write  *)
(* are apart, so it alone is two actions and the other handlers wait for   *)
(* it.  The cron purge and the clock do not.  A request or a response may  *)
(* be lost, and a command may be interrupted, between any two steps.       *)
(*                                                                         *)
(* PKCE, rate limits and display names do not change who holds a key and   *)
(* are left out; no handler ever sets workstations.disabled.               *)
(***************************************************************************)
EXTENDS Integers, Sequences

CONSTANTS
    Commands,    \* CLI processes that may run at once on the machine
    Codes,       \* authorization codes, each generated at most once
    Principals,  \* human Access principals
    TTL,         \* WORKSTATION_AUTH_CODE_TTL_SECONDS = WORKSTATION_PAIRING_TTL_SECONDS
    MaxTime,     \* bound on the clock (model checking only)
    MaxKeys,     \* bound on the keys ever minted (model checking only)
    Nobody,      \* the empty owner of a pairing nobody has approved
    None

\* A row of workstation_codes and the row of workstations.  A key is the number of
\* the exchange that minted it.
CodeRow == [owner : Principals \cup {Nobody}, expires : Nat, consumed : BOOLEAN,
            pairing : BOOLEAN, approved : BOOLEAN]
WorkstationRow == [owner : Principals \cup {Nobody}, key : Nat \ {0}, revoked : BOOLEAN]
Exchange == [by : Commands \cup {None}, code : Codes, owner : Principals \cup {Nobody}]

ASSUME WorkstationAssumption ==
    /\ TTL \in Nat \ {0}
    /\ MaxTime \in Nat
    /\ MaxKeys \in Nat
    /\ Nobody \notin Principals
    /\ None \notin Codes /\ None \notin Commands
    /\ None \notin CodeRow /\ None \notin WorkstationRow /\ None \notin Exchange

VARIABLES
    now,
    codes,        \* workstation_codes: code -> row or None
    workstation,  \* the workstations row of the installation, or None
    exchange,     \* the exchange handler between its read and its batch, or None
    credential,   \* the key in workstation.json (0: no file)
    pc,           \* command -> what it does next
    code,         \* login -> the code it holds, or None
    key,          \* login -> the key it received; logout -> the key it read
    created,      \* history: codes ever created
    consent,      \* history: code -> principals who authorized or approved it
    minted,       \* history: the code behind each key, in the order of minting
    voided        \* history: codes that existed at some revocation or deletion

server == <<codes, workstation, exchange>>
command == <<pc, code, key>>
history == <<created, consent, minted, voided>>
vars == <<now, server, credential, command, history>>

Init ==
    /\ now = 0
    /\ codes = [c \in Codes |-> None]
    /\ workstation = None
    /\ exchange = None
    /\ credential = 0
    /\ pc = [m \in Commands |-> "idle"]
    /\ code = [m \in Commands |-> None]
    /\ key = [m \in Commands |-> 0]
    /\ created = {}
    /\ consent = [c \in Codes |-> {}]
    /\ minted = <<>>
    /\ voided = {}

Step(m, label, c, k) ==
    /\ pc' = [pc EXCEPT ![m] = label]
    /\ code' = [code EXCEPT ![m] = c]
    /\ key' = [key EXCEPT ![m] = k]

Done(m) == Step(m, "idle", None, 0)

Coordinated == exchange = None  \* the coordinator is free for another handler

-----------------------------------------------------------------------------
(* bat workstation login.                                                  *)

StartLogin(m) ==
    /\ pc[m] = "idle"
    /\ \E label \in {"consent", "pair"} : Step(m, label, None, 0)
    /\ UNCHANGED <<now, server, credential, history>>

CreateCode(c, row) ==
    /\ Coordinated
    /\ c \notin created
    /\ created' = created \cup {c}
    /\ codes' = [codes EXCEPT ![c] = row]
    /\ UNCHANGED <<workstation, exchange>>

\* The operator consents in the browser; the loopback callback brings the code.
Authorize(m, c, p) ==
    /\ pc[m] = "consent"
    /\ CreateCode(c, [owner |-> p, expires |-> now + TTL, consumed |-> FALSE,
                      pairing |-> FALSE, approved |-> FALSE])
    /\ consent' = [consent EXCEPT ![c] = @ \cup {p}]
    /\ Step(m, "send", c, 0)
    /\ UNCHANGED <<now, credential, minted, voided>>

PairStart(m, c) ==
    /\ pc[m] = "pair"
    /\ CreateCode(c, [owner |-> Nobody, expires |-> now + TTL, consumed |-> FALSE,
                      pairing |-> TRUE, approved |-> FALSE])
    /\ Step(m, "poll", c, 0)
    /\ UNCHANGED <<now, credential, consent, minted, voided>>

\* approvePairing: one approval, while the code is unexpired and unconsumed.
PairApprove(c, p) ==
    /\ Coordinated
    /\ codes[c] # None
    /\ codes[c].pairing
    /\ ~codes[c].consumed /\ ~codes[c].approved /\ codes[c].expires > now
    /\ codes' = [codes EXCEPT ![c].owner = p, ![c].approved = TRUE]
    /\ consent' = [consent EXCEPT ![c] = @ \cup {p}]
    /\ UNCHANGED <<now, workstation, exchange, credential, command, created, minted, voided>>

\* The status of a pairing; a consumed code counts as approved.
PairStatus(c) ==
    IF codes[c] = None THEN "unknown"
    ELSE IF codes[c].approved \/ codes[c].consumed THEN "approved"
    ELSE IF codes[c].expires <= now THEN "expired"
    ELSE "pending"

Poll(m) ==
    /\ pc[m] = "poll"
    /\ PairStatus(code[m]) # "pending"
    /\ IF PairStatus(code[m]) = "approved" THEN Step(m, "send", code[m], 0) ELSE Done(m)
    /\ UNCHANGED <<now, server, credential, history>>

\* workstationExchangeRoute up to its batch.
Refused(c) == codes[c] = None \/ (codes[c].consumed \/ codes[c].expires <= now)

ExchangeRead(m) ==
    /\ pc[m] = "send"
    /\ Coordinated
    /\ LET c == code[m] IN
         IF Refused(c)
         THEN Done(m) /\ exchange' = exchange
         ELSE /\ exchange' = [by |-> m, code |-> c, owner |-> codes[c].owner]
              /\ Step(m, "exchanging", c, 0)
    /\ UNCHANGED <<now, codes, workstation, credential, history>>

\* A request nobody waits for: a replay, or one sent before the pairing is approved.
StrayExchange(c) ==
    /\ Coordinated
    /\ ~Refused(c)
    /\ exchange' = [by |-> None, code |-> c, owner |-> codes[c].owner]
    /\ UNCHANGED <<now, codes, workstation, credential, command, history>>

\* Mutant: the code is never marked.
ConsumeForgotten(c) == codes

Consume(c) == [codes EXCEPT ![c].consumed = TRUE]

\* The code was unexpired at the time the handler compares it with, the one it read.
Consumes(row) == row # None /\ ~row.consumed /\ (row.pairing => row.approved)

\* The guarded upsert: a new row, or a new key for the row of the same owner.
Mints(e) ==
    /\ codes[e.code].owner = e.owner
    /\ workstation = None \/ workstation.owner = e.owner

ExchangeCommit ==
    /\ exchange # None
    /\ Len(minted) < MaxKeys
    /\ LET e == exchange
           consumes == Consumes(codes[e.code])
           mints == consumes /\ Mints(e)
           k == Len(minted) + 1
       IN /\ codes' = IF consumes THEN Consume(e.code) ELSE codes
          /\ workstation' = IF mints THEN [owner |-> e.owner, key |-> k, revoked |-> FALSE]
                            ELSE workstation
          /\ minted' = IF mints THEN Append(minted, e.code) ELSE minted
          /\ IF e.by # None /\ pc[e.by] = "exchanging"
             THEN IF mints THEN Step(e.by, "write", None, k) ELSE Done(e.by)
             ELSE UNCHANGED command
    /\ exchange' = None
    /\ UNCHANGED <<now, credential, created, consent, voided>>

WriteCredential(m) ==
    /\ pc[m] = "write"
    /\ credential' = key[m]
    /\ Done(m)
    /\ UNCHANGED <<now, server, history>>

-----------------------------------------------------------------------------
(* bat workstation logout.                                                 *)

StartLogout(m) ==
    /\ pc[m] = "idle"
    /\ credential # 0
    /\ Step(m, "revoke", None, credential)
    /\ UNCHANGED <<now, server, credential, history>>

\* The key authenticates: workstationKeyAuth.
Live(k) == workstation # None /\ workstation.key = k /\ ~workstation.revoked

ConsumeAll == [c \in Codes |-> IF codes[c] = None THEN None
                               ELSE [codes[c] EXCEPT !.consumed = TRUE]]

\* Mutant: the pending codes outlive the key.
RevokeKeyOnly(m) ==
    /\ pc[m] = "revoke"
    /\ Coordinated
    /\ IF Live(key[m])
       THEN /\ workstation' = [workstation EXCEPT !.revoked = TRUE]
            /\ voided' = voided \cup created
       ELSE UNCHANGED <<workstation, voided>>
    /\ Step(m, "forget", None, key[m])
    /\ UNCHANGED <<now, codes, exchange, credential, created, consent, minted>>

\* revokeKey: the key and every pending code in one batch; a dead key is told 401.
Revoke(m) ==
    /\ pc[m] = "revoke"
    /\ Coordinated
    /\ IF Live(key[m])
       THEN /\ workstation' = [workstation EXCEPT !.revoked = TRUE]
            /\ codes' = ConsumeAll
            /\ voided' = voided \cup created
       ELSE UNCHANGED <<codes, workstation, voided>>
    /\ Step(m, "forget", None, key[m])
    /\ UNCHANGED <<now, exchange, credential, created, consent, minted>>

ForgetCredential(m) ==
    /\ pc[m] = "forget"
    /\ credential' = 0
    /\ Done(m)
    /\ UNCHANGED <<now, server, history>>

\* Mutant: the credential is forgotten when the server could not be reached.
InterruptForgets(m) ==
    /\ pc[m] # "idle"
    /\ credential' = IF pc[m] \in {"revoke", "forget"} THEN 0 ELSE credential
    /\ Done(m)
    /\ UNCHANGED <<now, server, history>>

\* The command is stopped, or gives up on an error or on an answer it never got.
Interrupt(m) ==
    /\ pc[m] # "idle"
    /\ Done(m)
    /\ UNCHANGED <<now, server, credential, history>>

-----------------------------------------------------------------------------
\* The owner or a global manager deletes the workstation in the browser.
DeleteWorkstation ==
    /\ Coordinated
    /\ workstation # None
    /\ workstation' = None
    /\ codes' = ConsumeAll
    /\ voided' = voided \cup created
    /\ UNCHANGED <<now, exchange, credential, command, created, consent, minted>>

\* The coordinator object is lost with the exchange it was running.
Evict ==
    /\ exchange # None
    /\ exchange' = None
    /\ UNCHANGED <<now, codes, workstation, credential, command, history>>

\* purgeOlderThan of the cron job.
Purge ==
    /\ codes' = [c \in Codes |->
                   IF codes[c] # None /\ codes[c].expires < now THEN None ELSE codes[c]]
    /\ codes' # codes
    /\ UNCHANGED <<now, workstation, exchange, credential, command, history>>

Tick ==
    /\ now < MaxTime
    /\ now' = now + 1
    /\ UNCHANGED <<server, credential, command, history>>

Next ==
    \/ \E m \in Commands :
         \/ StartLogin(m) \/ Poll(m) \/ ExchangeRead(m) \/ WriteCredential(m)
         \/ StartLogout(m) \/ Revoke(m) \/ ForgetCredential(m) \/ Interrupt(m)
         \/ \E c \in Codes : PairStart(m, c) \/ \E p \in Principals : Authorize(m, c, p)
    \/ \E c \in Codes : StrayExchange(c) \/ \E p \in Principals : PairApprove(c, p)
    \/ ExchangeCommit \/ DeleteWorkstation \/ Evict \/ Purge \/ Tick

Spec == Init /\ [][Next]_vars

-----------------------------------------------------------------------------
(* Properties.                                                             *)

Labels == {"idle", "consent", "pair", "poll", "send", "exchanging", "write",
           "revoke", "forget"}

\* Every variable has its type, and a login past its code holds one.
TypeOK ==
    /\ now \in Nat
    /\ codes \in [Codes -> CodeRow \cup {None}]
    /\ workstation \in WorkstationRow \cup {None}
    /\ exchange \in Exchange \cup {None}
    /\ credential \in Nat
    /\ pc \in [Commands -> Labels]
    /\ code \in [Commands -> Codes \cup {None}]
    /\ key \in [Commands -> Nat]
    /\ created \subseteq Codes
    /\ consent \in [Codes -> SUBSET Principals]
    /\ minted \in Seq(Codes)
    /\ voided \subseteq Codes
    /\ \A m \in Commands : pc[m] \in {"poll", "send", "exchanging"} => code[m] # None

\* A code mints at most one key, over retries, lost answers and racing logins, so a
\* replay never rotates away a key that was handed out.
CodeMintsOnce ==
    \A i, j \in 1..Len(minted) : minted[i] = minted[j] => i = j

\* A code that existed when the key was revoked, or the workstation deleted, never
\* mints a key afterwards, whatever login was under way.
VoidedCodesPowerless ==
    minted' # minted => minted'[Len(minted')] \notin voided

\* The owner of an enrolled workstation is a principal who consented to the very code
\* its key came from: an unapproved pairing enrolls nothing, and a re-login by
\* somebody else never moves the installation to them.
EnrolledByConsent ==
    workstation # None => workstation.owner \in consent[minted[workstation.key]]

\* What an authorization code is good for: one key, for a workstation of the principal who
\* consented (the exchange route and its guarded upsert).
CodesGuarded == CodeMintsOnce /\ EnrolledByConsent

\* "The guarded upsert guarantees the row exists once the code was consumed": what
\* the exchange handler dereferences without a check.
ConsumedCodeHasRow ==
    exchange # None /\ exchange' = None /\ codes'[exchange.code] # codes[exchange.code]
      => workstation' # None

\* An exchange spends a code that is still good and has a row to answer with, whatever
\* revocation, deletion or login ran between its statements.
ExchangesSound == [][VoidedCodesPowerless /\ ConsumedCodeHasRow]_vars

\* Logout keeps a credential whose key still works, over refusals, lost answers and
\* interruptions; all it can lose is one that a login stored after the logout had read
\* the one before.
LogoutForgetsDeadKey ==
    [][credential # 0 /\ credential' = 0 /\ Live(credential)
       => \E m \in Commands : pc[m] = "forget" /\ key[m] # credential]_vars
=============================================================================
