------------------------------- MODULE CmPool -------------------------------
(***************************************************************************)
(* The pool of logged-in Steam CM connections that sync-daemon shares      *)
(* between content syncs, source resolution and collection RPCs            *)
(* (crates/steam-sync/src/steam.rs, CmPool and PooledConn).                *)
(*                                                                         *)
(* A connection is checked out by taking a semaphore permit and THEN       *)
(* popping the idle stack, and is given back by pushing the stack and THEN *)
(* dropping the permit.  The four halves are separate actions here,        *)
(* because other threads run between them.  A connection that failed with  *)
(* a transient error is not given back: a detached task logs its slot in   *)
(* again while it still holds the permit.                                  *)
(***************************************************************************)
EXTENDS Naturals, Sequences, FiniteSets

CONSTANTS
  N,               \* pool_size: connections logged in at startup
  Clients,         \* tasks of the daemon that use a pooled connection
  LOGIN_ATTEMPTS   \* tries of one login before it is given up

ASSUME NAssumption == N \in Nat \ {0}
ASSUME AttemptsAssumption == LOGIN_ATTEMPTS \in Nat \ {0}
ASSUME ClientsAssumption == IsFiniteSet(Clients)
ASSUME OwnersAssumption == Clients \cap {"free", "away", "lost"} = {}

Slots == 0 .. N - 1
NoSlot == N                    \* not a slot
Kinds == {"session", "anonymous"}

VARIABLES
  auth,            \* how the pool logs in: the stored session or anonymously
  phase,           \* "starting" | "up" | "none" (daemon runs without a pool)
  login,           \* per slot, the login_with_retry call in progress on it
  gate,            \* slot holding the single retry_gate permit, or NoSlot
  conn,            \* per slot, what its live connection is logged in as
  authenticated,   \* per slot flag that any_authenticated reads
  idle,            \* stack of (slot, connection) pairs; top is the last one
  permits,         \* permits available in the pool's semaphore
  dropping,        \* relogin tasks that pushed and have yet to drop a permit
  client           \* per client, its progress through acquire ... drop

vars == <<auth, phase, login, gate, conn, authenticated, idle, permits,
          dropping, client>>
poolVars == <<conn, authenticated, idle, permits, dropping>>

-----------------------------------------------------------------------------
\* A slot's login: `as` is the kind being tried, `attempt` counts the tries of
\* that kind.  "try": ClientLogon in flight; "gate": waiting for retry_gate;
\* "sleep": backing off with the gate held; "push": reconnected, still to be put
\* back; "done": logged in during start; "off": no login runs; "lost": the
\* permit was forgotten; "hung": the attempt is never answered.
LoginPcs == {"off", "try", "gate", "sleep", "push", "done", "lost", "hung"}
LoginRecords == [at : LoginPcs, as : Kinds, attempt : 1 .. LOGIN_ATTEMPTS]

FreshLogin(kind) == [at |-> "try", as |-> kind, attempt |-> 1]
NoLogin == [at |-> "off", as |-> "anonymous", attempt |-> 1]

\* "out": uses no connection; "wait": inside acquire, queued on the semaphore;
\* "permit": has a permit, has not popped yet; "using": owns the slot's
\* connection; "ended": the operation returned `res`, PooledConn is about to be
\* dropped; "release": connection pushed back, permit not dropped yet.
ClientPcs == {"out", "wait", "permit", "using", "ended", "release"}

\* What an operation on a connection can end with.  "ok"; "refused", a typed
\* Steam error outside the transient list; "connection", a typed transient one.
\* Two carry no SteamError at all: "timeout", the timeout wrapper's, and
\* "local", every refusal the daemon decides itself (ensure_owned,
\* account_steam_id on an anonymous connection, an empty publish).
Outcomes == {"ok", "refused", "connection", "timeout", "local"}

\* is_transient: an error without a SteamError in its chain counts as transient.
is_transient(e) == e \in {"connection", "timeout", "local"}

\* "never" in place of an outcome: the operation hangs.
ClientRecords ==
  [pc : ClientPcs, slot : Slots \cup {NoSlot}, res : Outcomes \cup {"never"}]
At(pc) == [pc |-> pc, slot |-> NoSlot, res |-> "ok"]
Out == At("out")

TypeOK ==
  /\ auth \in Kinds
  /\ phase \in {"starting", "up", "none"}
  /\ login \in [Slots -> LoginRecords]
  /\ gate \in Slots \cup {NoSlot}
  /\ conn \in [Slots -> Kinds \cup {"none"}]
  /\ authenticated \in [Slots -> BOOLEAN]
  /\ idle \in Seq(Slots)
  /\ permits \in Nat
  /\ dropping \in Nat
  /\ client \in [Clients -> ClientRecords]

\* CmPool::start has just begun: every slot logs in at once.  `a` is the login
\* main.rs picked: the Secret's session wins over ANONYMOUS_LOGIN.
Starting(a) ==
  /\ auth = a
  /\ phase = "starting"
  /\ login = [s \in Slots |-> FreshLogin(a)]
  /\ gate = NoSlot
  /\ conn = [s \in Slots |-> "none"]
  /\ authenticated = [s \in Slots |-> FALSE]
  /\ idle = << >>
  /\ permits = 0
  /\ dropping = 0
  /\ client = [c \in Clients |-> Out]

Init == \E a \in Kinds : Starting(a)

-----------------------------------------------------------------------------
(***************************************************************************)
(* login_with_retry and login_or_degrade_to_anonymous, for one slot.       *)
(***************************************************************************)
\* Mutant of LoginOk: relogin_slot does not store the slot's flag.
LoginOkFlagKept(s) ==
  /\ login[s].at = "try"
  /\ conn' = [conn EXCEPT ![s] = login[s].as]
  /\ login' = [login EXCEPT ![s].at = IF phase = "starting" THEN "done" ELSE "push"]
  /\ UNCHANGED <<auth, phase, gate, authenticated, idle, permits, dropping, client>>

LoginOk(s) ==
  /\ login[s].at = "try"
  /\ conn' = [conn EXCEPT ![s] = login[s].as]
  /\ IF phase = "starting"
       THEN /\ login' = [login EXCEPT ![s].at = "done"]
            /\ UNCHANGED authenticated
       ELSE /\ login' = [login EXCEPT ![s].at = "push"]
            /\ authenticated' = [authenticated EXCEPT ![s] = (login[s].as = "session")]
  /\ UNCHANGED <<auth, phase, gate, idle, permits, dropping, client>>

\* Mutant of LoginRetry: one attempt too many.
LoginRetryOnceMore(s) ==
  /\ login[s].at = "try"
  /\ login[s].attempt <= LOGIN_ATTEMPTS
  /\ login' = [login EXCEPT ![s].at = "gate"]
  /\ UNCHANGED <<auth, phase, gate, client, poolVars>>

\* A failed attempt with attempts left queues on the gate before its backoff.
LoginRetry(s) ==
  /\ login[s].at = "try"
  /\ login[s].attempt < LOGIN_ATTEMPTS
  /\ login' = [login EXCEPT ![s].at = "gate"]
  /\ UNCHANGED <<auth, phase, gate, client, poolVars>>

\* The last authenticated attempt failed: the slot degrades to anonymous.
LoginDegrade(s) ==
  /\ login[s].at = "try"
  /\ login[s].attempt = LOGIN_ATTEMPTS
  /\ login[s].as = "session"
  /\ login' = [login EXCEPT ![s] = FreshLogin("anonymous")]
  /\ UNCHANGED <<auth, phase, gate, client, poolVars>>

\* Mutant of LoginFail: a relogin that failed drops its permit instead of
\* forgetting it.
LoginFailPermitDropped(s) ==
  /\ login[s].at = "try"
  /\ login[s].attempt = LOGIN_ATTEMPTS
  /\ login[s].as = "anonymous"
  /\ phase = "up"
  /\ login' = [login EXCEPT ![s].at = "lost"]
  /\ authenticated' = [authenticated EXCEPT ![s] = FALSE]
  /\ permits' = permits + 1
  /\ UNCHANGED <<auth, phase, conn, gate, idle, dropping, client>>

\* Even anonymous login failed.  During start try_join_all drops every other
\* login and start returns the error; afterwards the permit is forgotten.
LoginFail(s) ==
  /\ login[s].at = "try"
  /\ login[s].attempt = LOGIN_ATTEMPTS
  /\ login[s].as = "anonymous"
  /\ \/ /\ phase = "starting"
        /\ phase' = "none"
        /\ login' = [t \in Slots |-> NoLogin]
        /\ conn' = [t \in Slots |-> "none"]
        /\ gate' = NoSlot
        /\ UNCHANGED authenticated
     \/ /\ phase = "up"
        /\ login' = [login EXCEPT ![s].at = "lost"]
        /\ authenticated' = [authenticated EXCEPT ![s] = FALSE]
        /\ UNCHANGED <<phase, conn, gate>>
  /\ UNCHANGED <<auth, idle, permits, dropping, client>>

\* The attempt is never answered: neither shutdown of the connection it replaces
\* nor the CM list request, the connect and the logon has a timeout (with_timeout
\* wraps operations only).  The task keeps slot and permit; retry_gate is free,
\* an attempt runs without it.
LoginHangs(s) ==
  /\ login[s].at = "try"
  /\ login' = [login EXCEPT ![s].at = "hung"]
  /\ UNCHANGED <<auth, phase, gate, client, poolVars>>

GateAcquire(s) ==
  /\ login[s].at = "gate"
  /\ gate = NoSlot
  /\ gate' = s
  /\ login' = [login EXCEPT ![s].at = "sleep"]
  /\ UNCHANGED <<auth, phase, client, poolVars>>

\* The backoff ends.  `_permit` goes out of scope with the match arm, so the
\* gate is free again before the next attempt_login().
BackoffDone(s) ==
  /\ login[s].at = "sleep"
  /\ gate' = NoSlot
  /\ login' = [login EXCEPT ![s].at = "try", ![s].attempt = @ + 1]
  /\ UNCHANGED <<auth, phase, client, poolVars>>

\* Every slot is logged in: the flags are read off the connections and the
\* semaphore opens with N permits.
PoolUp ==
  /\ phase = "starting"
  /\ \A s \in Slots : login[s].at = "done"
  /\ phase' = "up"
  /\ login' = [s \in Slots |-> NoLogin]
  /\ authenticated' = [s \in Slots |-> conn[s] = "session"]
  /\ idle' = [i \in 1 .. N |-> i - 1]
  /\ permits' = N
  /\ UNCHANGED <<auth, gate, conn, dropping, client>>

\* relogin_slot after a successful login: push, then drop the permit.  Between
\* the two another task can already pop the slot, and even mark it bad again,
\* so what is pending is counted apart from the slot.
ReloginPush(s) ==
  /\ login[s].at = "push"
  /\ idle' = Append(idle, s)
  /\ login' = [login EXCEPT ![s] = NoLogin]
  /\ dropping' = dropping + 1
  /\ UNCHANGED <<auth, phase, gate, conn, authenticated, permits, client>>

ReloginDropPermit ==
  /\ dropping > 0
  /\ dropping' = dropping - 1
  /\ permits' = permits + 1
  /\ UNCHANGED <<auth, phase, login, gate, conn, authenticated, idle, client>>

-----------------------------------------------------------------------------
(***************************************************************************)
(* acquire, the operation, and PooledConn's drop, for one client.          *)
(***************************************************************************)
\* Without a pool (phase "none") `pool()?` fails and nothing is acquired.
AcquireStart(c) ==
  /\ phase = "up"
  /\ client[c].pc = "out"
  /\ client' = [client EXCEPT ![c].pc = "wait"]
  /\ UNCHANGED <<auth, phase, login, gate, poolVars>>

AcquirePermit(c) ==
  /\ client[c].pc = "wait"
  /\ permits > 0
  /\ permits' = permits - 1
  /\ client' = [client EXCEPT ![c].pc = "permit"]
  /\ UNCHANGED <<auth, phase, login, gate, conn, authenticated, idle, dropping>>

\* Mutant of AcquirePop: the top of the stack is used but stays there.
AcquirePeek(c) ==
  /\ client[c].pc = "permit"
  /\ idle # << >>
  /\ client' = [client EXCEPT ![c] = [At("using") EXCEPT !.slot = idle[Len(idle)]]]
  /\ UNCHANGED <<auth, phase, login, gate, poolVars>>

\* `idle.pop().expect("permit acquired implies a connection is idle")`: the
\* expectation is the guard, and PermitBacked says it never fails.
AcquirePop(c) ==
  /\ client[c].pc = "permit"
  /\ idle # << >>
  /\ client' = [client EXCEPT ![c] = [At("using") EXCEPT !.slot = idle[Len(idle)]]]
  /\ idle' = SubSeq(idle, 1, Len(idle) - 1)
  /\ UNCHANGED <<auth, phase, login, gate, conn, authenticated, permits, dropping>>

\* The operation returns; a transient error calls mark_bad on the guard.
OpEnd(c) ==
  /\ client[c].pc = "using"
  /\ client[c].res # "never"
  /\ \E e \in Outcomes :
       client' = [client EXCEPT ![c].pc = "ended", ![c].res = e]
  /\ UNCHANGED <<auth, phase, login, gate, poolVars>>

\* The operation never returns.  Its CM calls are wrapped in with_timeout, but a
\* content sync also downloads manifests over plain HTTP while it holds the
\* connection, with a client that has no timeout.
OpHangs(c) ==
  /\ client[c].pc = "using"
  /\ client' = [client EXCEPT ![c].res = "never"]
  /\ UNCHANGED <<auth, phase, login, gate, poolVars>>

\* Mutant of DropBad: the bad connection goes back on the stack as well.
DropBadPushed(c) ==
  /\ client[c].pc = "ended"
  /\ is_transient(client[c].res)
  /\ login' = [login EXCEPT ![client[c].slot] = FreshLogin(auth)]
  /\ idle' = Append(idle, client[c].slot)
  /\ client' = [client EXCEPT ![c] = Out]
  /\ UNCHANGED <<auth, phase, gate, conn, authenticated, permits, dropping>>

\* PooledConn::drop, marked bad: the connection is shut down and a detached
\* task takes slot and permit along to relogin_slot.
DropBad(c) ==
  /\ client[c].pc = "ended"
  /\ is_transient(client[c].res)
  /\ login' = [login EXCEPT ![client[c].slot] = FreshLogin(auth)]
  /\ conn' = [conn EXCEPT ![client[c].slot] = "none"]
  /\ client' = [client EXCEPT ![c] = Out]
  /\ UNCHANGED <<auth, phase, gate, authenticated, idle, permits, dropping>>

\* PooledConn::drop otherwise: push the connection back ...
DropGood(c) ==
  /\ client[c].pc = "ended"
  /\ ~ is_transient(client[c].res)
  /\ idle' = Append(idle, client[c].slot)
  /\ client' = [client EXCEPT ![c] = At("release")]
  /\ UNCHANGED <<auth, phase, login, gate, conn, authenticated, permits, dropping>>

\* Mutant of DropPermit: the permit is forgotten.
DropPermitForgotten(c) ==
  /\ client[c].pc = "release"
  /\ client' = [client EXCEPT ![c] = Out]
  /\ UNCHANGED <<auth, phase, login, gate, poolVars>>

\* ... and then drops the permit.
DropPermit(c) ==
  /\ client[c].pc = "release"
  /\ permits' = permits + 1
  /\ client' = [client EXCEPT ![c] = Out]
  /\ UNCHANGED <<auth, phase, login, gate, conn, authenticated, idle, dropping>>

\* The process exits and comes back: a crash, or RefreshSteamAuth / a confirmed
\* QR login, which write the session Secret and exit on purpose.
Restart ==
  \E a \in {auth, "session"} :
    /\ auth' = a
    /\ phase' = "starting"
    /\ login' = [s \in Slots |-> FreshLogin(a)]
    /\ gate' = NoSlot
    /\ conn' = [s \in Slots |-> "none"]
    /\ authenticated' = [s \in Slots |-> FALSE]
    /\ idle' = << >>
    /\ permits' = 0
    /\ dropping' = 0
    /\ client' = [c \in Clients |-> Out]

LoginStep(s) ==
  \/ LoginOk(s) \/ LoginRetry(s) \/ LoginDegrade(s) \/ LoginFail(s)

SlotStep(s) ==
  \/ LoginStep(s) \/ LoginHangs(s)
  \/ GateAcquire(s) \/ BackoffDone(s)
  \/ ReloginPush(s)

ClientStep(c) ==
  \/ AcquireStart(c) \/ AcquirePermit(c) \/ AcquirePop(c)
  \/ OpEnd(c) \/ OpHangs(c) \/ DropBad(c) \/ DropGood(c) \/ DropPermit(c)

Next ==
  \/ \E s \in Slots : SlotStep(s)
  \/ PoolUp
  \/ ReloginDropPermit
  \/ \E c \in Clients : ClientStep(c)
  \/ Restart

Spec == Init /\ [][Next]_vars

\* An attempt or an operation that does not hang ends, sleeping ends and tasks
\* that can run do run.  Nothing keeps LoginHangs and OpHangs from happening.
\* tokio's Semaphore serves its waiters in FIFO order, hence strong fairness
\* for the two acquisitions.
Fairness ==
  /\ WF_vars(PoolUp)
  /\ WF_vars(ReloginDropPermit)
  /\ \A s \in Slots :
       /\ WF_vars(LoginStep(s))
       /\ SF_vars(GateAcquire(s))
       /\ WF_vars(BackoffDone(s))
       /\ WF_vars(ReloginPush(s))
  /\ \A c \in Clients :
       /\ SF_vars(AcquirePermit(c))
       /\ WF_vars(AcquirePop(c))
       /\ WF_vars(OpEnd(c))
       /\ WF_vars(DropBad(c) \/ DropGood(c))
       /\ WF_vars(DropPermit(c))

FairSpec == Spec /\ Fairness

-----------------------------------------------------------------------------
IdleSet == {idle[i] : i \in DOMAIN idle}
Holders == {c \in Clients : client[c].pc \in {"using", "ended"}}
UsedBy(s) == {c \in Holders : client[c].slot = s}

Poppers == {c \in Clients : client[c].pc = "permit"}
Releasers == {c \in Clients : client[c].pc = "release"}

(***************************************************************************)
(* A task that won a permit always finds a connection to pop: the permits  *)
(* available and the permits already won never outnumber the idle          *)
(* connections.  This is acquire's `.expect("permit acquired implies a     *)
(* connection is idle")`, across every interleaving of acquire, drop,      *)
(* background relogin and forgotten permits.                               *)
(***************************************************************************)
PermitBacked == permits + Cardinality(Poppers) <= Len(idle)

(***************************************************************************)
(* A CM connection has one owner: a slot is never idle twice, never idle   *)
(* while a client uses it or a relogin replaces it, and never used by two  *)
(* clients (a CmConnection is a sequential request/response channel).      *)
(***************************************************************************)
OneOwner ==
  /\ \A i, j \in DOMAIN idle : idle[i] = idle[j] => i = j
  /\ \A c \in Holders :
       /\ client[c].slot \in Slots \ IdleSet
       /\ login[client[c].slot].at = "off"
       /\ UsedBy(client[c].slot) = {c}
  /\ \A s \in IdleSet : login[s].at = "off"

(***************************************************************************)
(* any_authenticated never overstates a connection somebody can get or     *)
(* has: for every slot that is idle or in use the flag says exactly        *)
(* whether its connection holds the account session, although flag, stack  *)
(* and permit are updated in separate steps by relogin_slot.               *)
(***************************************************************************)
FlagsTruthful ==
  \A s \in Slots :
    (s \in IdleSet \/ UsedBy(s) # {}) => (authenticated[s] <=> conn[s] = "session")

(***************************************************************************)
(* The pool refines ConnectionPool: seen from outside, permits, stack and  *)
(* relogin tasks are one owner per connection, taken and given atomically. *)
(***************************************************************************)
Owner ==
  [s \in Slots |->
     IF UsedBy(s) # {} THEN CHOOSE c \in UsedBy(s) : TRUE
     ELSE IF s \in IdleSet THEN "free"
     ELSE IF login[s].at = "lost" THEN "lost" ELSE "away"]

Abstract == INSTANCE ConnectionPool
              WITH Conns <- Slots, Users <- Clients, owner <- Owner

PoolRefined == Abstract!Spec

(***************************************************************************)
(* Whoever waits in acquire is served eventually, as long as one slot of   *)
(* the pool is neither lost, nor in a relogin that hangs, nor with an      *)
(* operation that hangs.  (Otherwise acquire waits until the process       *)
(* restarts; relogin_slot's comment accepts that for forgotten permits.)   *)
(***************************************************************************)
Stuck(s) ==
  \/ login[s].at \in {"lost", "hung"}
  \/ \E c \in UsedBy(s) : client[c].res = "never"

AcquireServed ==
  \A c \in Clients :
    client[c].pc = "wait" ~>
      (client[c].pc # "wait" \/ \A s \in Slots : Stuck(s))
=============================================================================
