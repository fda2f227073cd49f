---------------------------- MODULE CmPoolProofs ----------------------------
(***************************************************************************)
(* Proofs about CmPool, for every pool size, number of clients and number  *)
(* of login attempts: acquire's "permit acquired implies a connection is   *)
(* idle", the single owner of every connection, and the truthfulness of    *)
(* the flags any_authenticated reads.                                      *)
(***************************************************************************)
EXTENDS CmPool, FiniteSetTheorems, SequenceTheorems, TLAPS

USE NAssumption, AttemptsAssumption, ClientsAssumption

LEMMA FreshLoginType == \A kind \in Kinds : FreshLogin(kind) \in LoginRecords
BY DEF FreshLogin, LoginRecords, LoginPcs

LEMMA NoLoginType == NoLogin \in LoginRecords
BY DEF NoLogin, LoginRecords, LoginPcs, Kinds

LEMMA AtType == \A pc \in ClientPcs : At(pc) \in ClientRecords
BY DEF At, ClientRecords, Outcomes, NoSlot, Slots

LEMMA OutType == Out \in ClientRecords
BY AtType DEF Out, ClientPcs

LEMMA TypeInit == Init => TypeOK
<1> SUFFICES ASSUME NEW a \in Kinds, Starting(a) PROVE TypeOK
  BY DEF Init
<1>1. login \in [Slots -> LoginRecords] /\ client \in [Clients -> ClientRecords]
  BY FreshLoginType, OutType DEF Starting
<1>2. idle \in Seq(Slots)
  BY DEF Starting
<1> QED BY <1>1, <1>2 DEF Starting, TypeOK, Kinds

\* A login that backs off has an attempt left for afterwards.
AttemptsLeft ==
  \A s \in Slots : login[s].at \in {"gate", "sleep"} => login[s].attempt < LOGIN_ATTEMPTS

\* Every step keeps every variable in its type.
LEMMA TypeStep == TypeOK /\ AttemptsLeft /\ OneOwner /\ [Next]_vars => TypeOK'
<1> SUFFICES ASSUME TypeOK, AttemptsLeft, OneOwner, [Next]_vars PROVE TypeOK'
  OBVIOUS
<1> USE DEF TypeOK
<1>at. ASSUME NEW s \in Slots, NEW pc \in LoginPcs
       PROVE  [login EXCEPT ![s].at = pc] \in [Slots -> LoginRecords]
  BY DEF LoginRecords
<1>fl. ASSUME NEW s \in Slots, NEW r \in LoginRecords
       PROVE  [login EXCEPT ![s] = r] \in [Slots -> LoginRecords]
  OBVIOUS
<1>cl. ASSUME NEW c \in Clients, NEW r \in ClientRecords
       PROVE  [client EXCEPT ![c] = r] \in [Clients -> ClientRecords]
  OBVIOUS
<1>pc. ASSUME NEW c \in Clients, NEW pc \in ClientPcs
       PROVE  [client EXCEPT ![c].pc = pc] \in [Clients -> ClientRecords]
  BY DEF ClientRecords
<1>1. ASSUME NEW s \in Slots, LoginOk(s) PROVE TypeOK'
  <2>1. login[s].as \in Kinds
    BY DEF LoginRecords
  <2>2. login' \in [Slots -> LoginRecords]
    <3>1. \E pc \in {"done", "push"} : login' = [login EXCEPT ![s].at = pc]
      BY <1>1 DEF LoginOk
    <3>2. {"done", "push"} \subseteq LoginPcs
      BY DEF LoginPcs
    <3> QED BY <3>1, <3>2, <1>at
  <2>3. conn' \in [Slots -> Kinds \cup {"none"}] /\ authenticated' \in [Slots -> BOOLEAN]
    BY <1>1, <2>1 DEF LoginOk
  <2> QED BY <1>1, <2>2, <2>3 DEF LoginOk
<1>2. ASSUME NEW s \in Slots, LoginRetry(s) PROVE TypeOK'
  BY <1>2, <1>at DEF LoginRetry, LoginPcs, poolVars
<1>3. ASSUME NEW s \in Slots, LoginDegrade(s) PROVE TypeOK'
  BY <1>3, <1>fl, FreshLoginType DEF LoginDegrade, Kinds, poolVars
<1>4. ASSUME NEW s \in Slots, LoginFail(s) PROVE TypeOK'
  <2>1. login' \in [Slots -> LoginRecords]
    <3>1. login' = [t \in Slots |-> NoLogin] \/ login' = [login EXCEPT ![s].at = "lost"]
      BY <1>4 DEF LoginFail
    <3>2. "lost" \in LoginPcs
      BY DEF LoginPcs
    <3>3. CASE login' = [t \in Slots |-> NoLogin]
      BY <3>3, NoLoginType
    <3>4. CASE login' = [login EXCEPT ![s].at = "lost"]
      BY <3>2, <3>4, <1>at
    <3> QED BY <3>1, <3>3, <3>4
  <2> QED BY <1>4, <2>1 DEF LoginFail, Kinds
<1>5. ASSUME NEW s \in Slots, GateAcquire(s) PROVE TypeOK'
  BY <1>5, <1>at DEF GateAcquire, LoginPcs, poolVars
<1>6. ASSUME NEW s \in Slots, ReloginPush(s) PROVE TypeOK'
  <2>1. login' \in [Slots -> LoginRecords]
    BY <1>6, <1>fl, NoLoginType DEF ReloginPush
  <2>2. idle' \in Seq(Slots) /\ dropping' \in Nat
    BY <1>6 DEF ReloginPush
  <2> QED BY <1>6, <2>1, <2>2 DEF ReloginPush
<1>7. CASE PoolUp
  <2>1. login' \in [Slots -> LoginRecords]
    BY <1>7, NoLoginType DEF PoolUp
  <2>2. idle' \in Seq(Slots)
    <3>1. \A i \in 1 .. N : i - 1 \in Slots
      BY DEF Slots
    <3> QED BY <1>7, <3>1 DEF PoolUp
  <2> QED BY <1>7, <2>1, <2>2 DEF PoolUp
<1>8. CASE ReloginDropPermit
  BY <1>8 DEF ReloginDropPermit
<1>9. ASSUME NEW c \in Clients, AcquireStart(c) PROVE TypeOK'
  BY <1>9, <1>pc DEF AcquireStart, ClientPcs, poolVars
<1>10. ASSUME NEW c \in Clients, AcquirePermit(c) PROVE TypeOK'
  <2>1. permits' \in Nat
    BY <1>10 DEF AcquirePermit
  <2> QED BY <1>10, <1>pc, <2>1 DEF AcquirePermit, ClientPcs
<1>11. ASSUME NEW c \in Clients, AcquirePop(c) PROVE TypeOK'
  <2>1. Len(idle) \in Nat \ {0} /\ idle[Len(idle)] \in Slots
    BY <1>11 DEF AcquirePop
  <2>2. [At("using") EXCEPT !.slot = idle[Len(idle)]] \in ClientRecords
    BY <2>1, AtType DEF ClientRecords, ClientPcs
  <2>3. idle' \in Seq(Slots)
    BY <1>11, <2>1 DEF AcquirePop
  <2> QED BY <1>11, <1>cl, <2>2, <2>3 DEF AcquirePop
<1>12. ASSUME NEW c \in Clients, OpEnd(c) PROVE TypeOK'
  <2>1. PICK e \in Outcomes : client' = [client EXCEPT ![c].pc = "ended", ![c].res = e]
    BY <1>12 DEF OpEnd
  <2>2. [client[c] EXCEPT !.pc = "ended", !.res = e] \in ClientRecords
    BY DEF ClientRecords, ClientPcs
  <2>3. client' = [client EXCEPT ![c] = [client[c] EXCEPT !.pc = "ended", !.res = e]]
    BY <2>1
  <2> QED BY <1>12, <1>cl, <2>2, <2>3 DEF OpEnd, poolVars
<1>13. ASSUME NEW c \in Clients, DropBad(c) PROVE TypeOK'
  <2>1. login' \in [Slots -> LoginRecords]
    <3>1. CASE client[c].slot \in Slots
      BY <1>13, <3>1, <1>fl, FreshLoginType DEF DropBad
    <3>2. CASE client[c].slot \notin Slots
      BY <1>13, <3>2 DEF DropBad
    <3> QED BY <3>1, <3>2
  <2>2. conn' \in [Slots -> Kinds \cup {"none"}]
    BY <1>13 DEF DropBad
  <2>3. client' \in [Clients -> ClientRecords]
    BY <1>13, <1>cl, OutType DEF DropBad
  <2> QED BY <1>13, <2>1, <2>2, <2>3 DEF DropBad
<1>14. ASSUME NEW c \in Clients, DropGood(c) PROVE TypeOK'
  <2>1. idle' \in Seq(Slots)
    BY <1>14 DEF DropGood, OneOwner, Holders
  <2> QED BY <1>14, <1>cl, <2>1, AtType DEF DropGood, ClientPcs
<1>15. ASSUME NEW c \in Clients, DropPermit(c) PROVE TypeOK'
  BY <1>15, <1>cl, OutType DEF DropPermit
<1>16. ASSUME NEW s \in Slots, BackoffDone(s) PROVE TypeOK'
  <2>1. login[s].attempt + 1 \in 1 .. LOGIN_ATTEMPTS
    BY <1>16 DEF BackoffDone, AttemptsLeft, LoginRecords
  <2>2. [login[s] EXCEPT !.at = "try", !.attempt = login[s].attempt + 1] \in LoginRecords
    BY <2>1 DEF LoginRecords, LoginPcs
  <2>3. login' = [login EXCEPT ![s] =
                    [login[s] EXCEPT !.at = "try", !.attempt = login[s].attempt + 1]]
    BY <1>16 DEF BackoffDone
  <2> QED BY <1>16, <1>fl, <2>2, <2>3 DEF BackoffDone, poolVars
<1>17. CASE Restart
  <2>1. PICK a \in Kinds : auth' = a /\ login' = [s \in Slots |-> FreshLogin(a)]
    BY <1>17 DEF Restart, Kinds
  <2>2. login' \in [Slots -> LoginRecords] /\ client' \in [Clients -> ClientRecords]
    BY <1>17, <2>1, FreshLoginType, OutType DEF Restart
  <2> QED BY <1>17, <2>1, <2>2 DEF Restart
<1>18. CASE UNCHANGED vars
  BY <1>18 DEF vars
<1>19. ASSUME NEW s \in Slots, LoginHangs(s) PROVE TypeOK'
  BY <1>19, <1>at DEF LoginHangs, LoginPcs, poolVars
<1>20. ASSUME NEW c \in Clients, OpHangs(c) PROVE TypeOK'
  <2>1. [client[c] EXCEPT !.res = "never"] \in ClientRecords
    BY DEF ClientRecords
  <2>2. client' = [client EXCEPT ![c] = [client[c] EXCEPT !.res = "never"]]
    BY <1>20 DEF OpHangs
  <2> QED BY <1>20, <1>cl, <2>1, <2>2 DEF OpHangs, poolVars
<1> QED
  BY <1>1, <1>2, <1>3, <1>4, <1>5, <1>6, <1>7, <1>8, <1>9, <1>10, <1>11, <1>12, <1>13,
     <1>14, <1>15, <1>16, <1>17, <1>18, <1>19, <1>20 DEF Next, SlotStep, LoginStep, ClientStep

LEMMA AttemptsStep == TypeOK /\ AttemptsLeft /\ [Next]_vars => AttemptsLeft'
<1> SUFFICES ASSUME TypeOK, AttemptsLeft, [Next]_vars PROVE AttemptsLeft'
  OBVIOUS
<1> USE DEF TypeOK, AttemptsLeft
<1>1. ASSUME NEW s \in Slots, LoginStep(s) \/ LoginHangs(s) \/ GateAcquire(s)
                             \/ BackoffDone(s) \/ ReloginPush(s)
      PROVE  AttemptsLeft'
  <2>1. CASE LoginRetry(s)
    BY <2>1 DEF LoginRetry, LoginRecords
  <2>2. CASE LoginOk(s)
    <3>1. \E pc \in {"done", "push"} : login' = [login EXCEPT ![s].at = pc]
      BY <2>2 DEF LoginOk
    <3> QED BY <3>1 DEF LoginRecords
  <2>3. CASE LoginDegrade(s)
    BY <2>3 DEF LoginDegrade, FreshLogin
  <2>4. CASE LoginFail(s)
    <3>1. login' = [t \in Slots |-> NoLogin] \/ login' = [login EXCEPT ![s].at = "lost"]
      BY <2>4 DEF LoginFail
    <3>2. CASE login' = [t \in Slots |-> NoLogin]
      BY <3>2 DEF NoLogin
    <3>3. CASE login' = [login EXCEPT ![s].at = "lost"]
      BY <3>3 DEF LoginRecords
    <3> QED BY <3>1, <3>2, <3>3
  <2>5. CASE GateAcquire(s)
    BY <2>5 DEF GateAcquire, LoginRecords
  <2>6. CASE BackoffDone(s)
    BY <2>6 DEF BackoffDone, LoginRecords
  <2>7. CASE ReloginPush(s)
    BY <2>7 DEF ReloginPush, NoLogin
  <2>8. CASE LoginHangs(s)
    BY <2>8 DEF LoginHangs, LoginRecords
  <2> QED BY <1>1, <2>1, <2>2, <2>3, <2>4, <2>5, <2>6, <2>7, <2>8 DEF LoginStep
<1>2. CASE PoolUp
  BY <1>2 DEF PoolUp, NoLogin
<1>3. CASE Restart
  BY <1>3 DEF Restart, FreshLogin
<1>4. ASSUME NEW c \in Clients, DropBad(c) PROVE AttemptsLeft'
  BY <1>4 DEF DropBad, FreshLogin
<1>5. ASSUME NEW c \in Clients, ClientStep(c), ~ DropBad(c) PROVE AttemptsLeft'
  BY <1>5 DEF ClientStep, AcquireStart, AcquirePermit, AcquirePop, OpEnd, OpHangs, DropGood, DropPermit
<1>6. CASE ReloginDropPermit \/ UNCHANGED vars
  BY <1>6 DEF ReloginDropPermit, vars
<1> QED
  BY <1>1, <1>2, <1>3, <1>4, <1>5, <1>6 DEF Next, SlotStep

-----------------------------------------------------------------------------
\* Nothing is handed out before the pool is up, and which logins run depends on
\* how far the pool has come.
PhaseInv ==
  /\ phase # "up" => /\ idle = << >> /\ permits = 0 /\ dropping = 0
                     /\ \A c \in Clients : client[c].pc = "out"
  /\ phase = "starting" => \A s \in Slots : login[s].at \in {"try", "gate", "sleep", "done", "hung"}
  /\ phase = "up" => \A s \in Slots : login[s].at # "done"
  /\ phase = "none" => \A s \in Slots : login[s].at = "off"

LEMMA PhaseInit == Init => PhaseInv /\ AttemptsLeft
BY DEF Init, Starting, PhaseInv, AttemptsLeft, FreshLogin, Out, At

\* The steps inside a login leave it a login in progress.
LEMMA LoginGoesOn ==
  ASSUME TypeOK, NEW s \in Slots,
         LoginRetry(s) \/ LoginDegrade(s) \/ LoginHangs(s) \/ GateAcquire(s) \/ BackoffDone(s)
  PROVE  /\ \A t \in Slots \ {s} : login'[t] = login[t]
         /\ login'[s].at \in {"try", "gate", "sleep", "hung"}
         /\ login[s].at \in {"try", "gate", "sleep"}
<1> USE DEF TypeOK
<1>1. CASE LoginRetry(s)
  BY <1>1 DEF LoginRetry, LoginRecords
<1>2. CASE LoginDegrade(s)
  BY <1>2 DEF LoginDegrade, FreshLogin
<1>3. CASE GateAcquire(s)
  BY <1>3 DEF GateAcquire, LoginRecords
<1>4. CASE BackoffDone(s)
  BY <1>4 DEF BackoffDone, LoginRecords
<1>5. CASE LoginHangs(s)
  BY <1>5 DEF LoginHangs, LoginRecords
<1> QED BY <1>1, <1>2, <1>3, <1>4, <1>5

LEMMA PhaseStep == TypeOK /\ PhaseInv /\ [Next]_vars => PhaseInv'
<1> SUFFICES ASSUME TypeOK, PhaseInv, [Next]_vars PROVE PhaseInv'
  OBVIOUS
<1> USE DEF TypeOK
<1>1. ASSUME NEW s \in Slots,
             LoginRetry(s) \/ LoginDegrade(s) \/ LoginHangs(s) \/ GateAcquire(s) \/ BackoffDone(s)
      PROVE  PhaseInv'
  <2>1. /\ \A t \in Slots \ {s} : login'[t] = login[t]
        /\ login'[s].at \in {"try", "gate", "sleep", "hung"}
        /\ login[s].at \in {"try", "gate", "sleep"}
    BY <1>1, LoginGoesOn
  <2>3. UNCHANGED <<phase, idle, permits, dropping, client>>
    BY <1>1 DEF LoginRetry, LoginDegrade, LoginHangs, GateAcquire, BackoffDone, poolVars
  <2> QED BY <2>1, <2>3 DEF PhaseInv
<1>2. ASSUME NEW s \in Slots, LoginOk(s) PROVE PhaseInv'
  <2>1. UNCHANGED <<phase, idle, permits, dropping, client>>
    BY <1>2 DEF LoginOk
  <2>2. login' = [login EXCEPT ![s].at = IF phase = "starting" THEN "done" ELSE "push"]
    BY <1>2 DEF LoginOk
  <2>3. login[s].at = "try"
    BY <1>2 DEF LoginOk
  <2> QED BY <2>1, <2>2, <2>3 DEF PhaseInv, LoginRecords
<1>3. ASSUME NEW s \in Slots, LoginFail(s) PROVE PhaseInv'
  <2>1. CASE phase = "starting"
    <3>1. /\ phase' = "none" /\ \A t \in Slots : login'[t].at = "off"
          /\ UNCHANGED <<idle, permits, dropping, client>>
      BY <1>3, <2>1 DEF LoginFail, NoLogin
    <3> QED BY <2>1, <3>1 DEF PhaseInv
  <2>2. CASE phase = "up"
    <3>1. phase' = "up" /\ login' = [login EXCEPT ![s].at = "lost"]
      BY <1>3, <2>2 DEF LoginFail
    <3> QED BY <2>2, <3>1 DEF PhaseInv, LoginRecords
  <2> QED BY <1>3, <2>1, <2>2 DEF LoginFail
<1>4. ASSUME NEW s \in Slots, ReloginPush(s) PROVE PhaseInv'
  <2>1. phase = "up" /\ phase' = phase
    BY <1>4 DEF ReloginPush, PhaseInv
  <2> QED BY <1>4, <2>1 DEF ReloginPush, PhaseInv, NoLogin
<1>5. CASE PoolUp
  BY <1>5 DEF PoolUp, PhaseInv, NoLogin
<1>6. CASE Restart
  BY <1>6 DEF Restart, PhaseInv, FreshLogin, Out, At
<1>7. CASE ReloginDropPermit
  <2>1. phase = "up"
    BY <1>7 DEF ReloginDropPermit, PhaseInv
  <2> QED BY <1>7, <2>1 DEF ReloginDropPermit, PhaseInv
<1>8. ASSUME NEW c \in Clients, ClientStep(c) PROVE PhaseInv'
  <2>1. phase = "up" /\ phase' = phase
    BY <1>8 DEF ClientStep, AcquireStart, AcquirePermit, AcquirePop, OpEnd, OpHangs, DropBad,
                DropGood, DropPermit, PhaseInv
  <2>2. \A s \in Slots : login'[s].at # "done"
    BY <1>8, <2>1 DEF ClientStep, AcquireStart, AcquirePermit, AcquirePop, OpEnd, OpHangs, DropBad,
                DropGood, DropPermit, PhaseInv, FreshLogin
  <2> QED BY <2>1, <2>2 DEF PhaseInv
<1>9. CASE UNCHANGED vars
  BY <1>9 DEF vars, PhaseInv
<1> QED
  BY <1>1, <1>2, <1>3, <1>4, <1>5, <1>6, <1>7, <1>8, <1>9 DEF Next, SlotStep, LoginStep

-----------------------------------------------------------------------------
(***************************************************************************)
(* One owner per connection.                                               *)
(***************************************************************************)
\* Pushing a slot that is not on the stack.
LEMMA PushFacts ==
  ASSUME TypeOK, NEW s \in Slots, idle' = Append(idle, s)
  PROVE  /\ Len(idle') = Len(idle) + 1
         /\ IdleSet' = IdleSet \cup {s}
         /\ (\A i, j \in DOMAIN idle : idle[i] = idle[j] => i = j) /\ s \notin IdleSet
              => \A i, j \in DOMAIN idle' : idle'[i] = idle'[j] => i = j
<1> USE DEF TypeOK
<1>1. /\ DOMAIN idle = 1 .. Len(idle) /\ Len(idle) \in Nat
      /\ DOMAIN idle' = 1 .. Len(idle) + 1 /\ Len(idle') = Len(idle) + 1
      /\ idle'[Len(idle) + 1] = s
      /\ \A i \in 1 .. Len(idle) : idle'[i] = idle[i]
  OBVIOUS
<1>2. IdleSet' = IdleSet \cup {s}
  BY <1>1 DEF IdleSet
<1>3. ASSUME \A i, j \in DOMAIN idle : idle[i] = idle[j] => i = j, s \notin IdleSet,
             NEW i \in DOMAIN idle', NEW j \in DOMAIN idle', idle'[i] = idle'[j]
      PROVE  i = j
  BY <1>1, <1>3 DEF IdleSet
<1> QED BY <1>1, <1>2, <1>3

\* Popping the top of a stack without duplicates.
LEMMA PopFacts ==
  ASSUME TypeOK, idle # << >>, idle' = SubSeq(idle, 1, Len(idle) - 1),
         \A i, j \in DOMAIN idle : idle[i] = idle[j] => i = j
  PROVE  /\ Len(idle') = Len(idle) - 1
         /\ idle[Len(idle)] \in IdleSet
         /\ IdleSet' = IdleSet \ {idle[Len(idle)]}
         /\ \A i, j \in DOMAIN idle' : idle'[i] = idle'[j] => i = j
<1> USE DEF TypeOK
<1>1. /\ Len(idle) \in Nat \ {0} /\ DOMAIN idle = 1 .. Len(idle)
      /\ Len(idle') = Len(idle) - 1 /\ DOMAIN idle' = 1 .. Len(idle) - 1
      /\ \A i \in 1 .. Len(idle) - 1 : idle'[i] = idle[i]
  <2>1. Len(idle) \in Nat \ {0} /\ DOMAIN idle = 1 .. Len(idle)
    OBVIOUS
  <2>2. Len(idle') = Len(idle) - 1 /\ \A i \in 1 .. Len(idle) - 1 : idle'[i] = idle[i]
    BY <2>1
  <2>3. idle' \in Seq(Slots)
    BY <2>1
  <2> QED BY <2>1, <2>2, <2>3
<1>2. idle[Len(idle)] \in IdleSet
  BY <1>1 DEF IdleSet
<1>3. IdleSet' = IdleSet \ {idle[Len(idle)]}
  <2>1. ASSUME NEW x \in IdleSet' PROVE x \in IdleSet \ {idle[Len(idle)]}
    <3>1. PICK i \in 1 .. Len(idle) - 1 : x = idle[i]
      BY <1>1 DEF IdleSet
    <3> QED BY <1>1, <3>1 DEF IdleSet
  <2>2. ASSUME NEW x \in IdleSet \ {idle[Len(idle)]} PROVE x \in IdleSet'
    <3>1. PICK i \in 1 .. Len(idle) : x = idle[i]
      BY <1>1 DEF IdleSet
    <3>2. i \in 1 .. Len(idle) - 1
      BY <1>1, <3>1
    <3> QED BY <1>1, <3>1, <3>2 DEF IdleSet
  <2> QED BY <2>1, <2>2
<1> QED BY <1>1, <1>2, <1>3

\* OneOwner, written with the set of owners spelt out.
Distinct == \A i, j \in DOMAIN idle : idle[i] = idle[j] => i = j
OwnFacts ==
  /\ Distinct
  /\ \A s \in IdleSet : login[s].at = "off"
  /\ \A c \in Holders : /\ client[c].slot \in Slots /\ client[c].slot \notin IdleSet
                        /\ login[client[c].slot].at = "off"
  /\ \A c, d \in Holders : client[c].slot = client[d].slot => c = d

LEMMA OwnFactsEquiv == OneOwner <=> OwnFacts
BY DEF OneOwner, OwnFacts, Distinct, UsedBy

LEMMA OwnInit == Init => OwnFacts
BY DEF Init, Starting, OwnFacts, Distinct, IdleSet, Holders, Out, At

\* A step that leaves stack and holders alone and no login of an owned slot.
LEMMA OwnQuiet ==
  ASSUME TypeOK, OwnFacts, idle' = idle,
         \A s \in Slots : login[s].at = "off" => login'[s].at = "off",
         \A c \in Clients : /\ client'[c].pc \in {"using", "ended"}
                                 <=> client[c].pc \in {"using", "ended"}
                            /\ client'[c].slot = client[c].slot \/ c \notin Holders
  PROVE  OwnFacts'
<1>1. Holders' = Holders /\ IdleSet' = IdleSet /\ IdleSet \subseteq Slots
  BY DEF Holders, IdleSet, TypeOK
<1>2. \A c \in Holders : client'[c].slot = client[c].slot
  BY DEF Holders
<1> QED BY <1>1, <1>2 DEF OwnFacts, Distinct

LEMMA OwnStep == TypeOK /\ PhaseInv /\ OwnFacts /\ [Next]_vars => OwnFacts'
<1> SUFFICES ASSUME TypeOK, PhaseInv, OwnFacts, [Next]_vars PROVE OwnFacts'
  OBVIOUS
<1> USE DEF TypeOK
<1>1. ASSUME NEW s \in Slots,
             LoginRetry(s) \/ LoginDegrade(s) \/ LoginHangs(s) \/ GateAcquire(s) \/ BackoffDone(s)
      PROVE  OwnFacts'
  <2>1. \A t \in Slots : login[t].at = "off" => login'[t].at = "off"
    BY <1>1, LoginGoesOn
  <2>2. idle' = idle /\ client' = client
    BY <1>1 DEF LoginRetry, LoginDegrade, LoginHangs, GateAcquire, BackoffDone, poolVars
  <2> QED BY <2>1, <2>2, OwnQuiet
<1>2. ASSUME NEW s \in Slots, LoginOk(s) \/ LoginFail(s) PROVE OwnFacts'
  <2>1. idle' = idle /\ client' = client /\ login[s].at = "try"
    BY <1>2 DEF LoginOk, LoginFail
  <2>2. \A t \in Slots : login[t].at = "off" => login'[t].at = "off"
    <3>1. CASE LoginOk(s)
      BY <3>1 DEF LoginOk, LoginRecords
    <3>2. CASE LoginFail(s)
      <4>1. login' = [t \in Slots |-> NoLogin] \/ login' = [login EXCEPT ![s].at = "lost"]
        BY <3>2 DEF LoginFail
      <4>2. CASE login' = [t \in Slots |-> NoLogin]
        BY <4>2 DEF NoLogin
      <4>3. CASE login' = [login EXCEPT ![s].at = "lost"]
        BY <2>1, <4>3 DEF LoginRecords
      <4> QED BY <4>1, <4>2, <4>3
    <3> QED BY <1>2, <3>1, <3>2
  <2> QED BY <2>1, <2>2, OwnQuiet
<1>3. ASSUME NEW s \in Slots, ReloginPush(s) PROVE OwnFacts'
  <2>1. s \notin IdleSet /\ \A c \in Holders : client[c].slot # s
    BY <1>3 DEF ReloginPush, OwnFacts
  <2>2. IdleSet' = IdleSet \cup {s} /\ Distinct'
    BY <1>3, <2>1, PushFacts DEF ReloginPush, OwnFacts, Distinct
  <2>3. login'[s].at = "off" /\ \A t \in Slots \ {s} : login'[t] = login[t]
    BY <1>3 DEF ReloginPush, NoLogin
  <2>4. client' = client /\ Holders' = Holders
    BY <1>3 DEF ReloginPush, Holders
  <2>5. IdleSet \subseteq Slots
    BY DEF IdleSet
  <2> QED BY <2>1, <2>2, <2>3, <2>4, <2>5 DEF OwnFacts
<1>4. CASE PoolUp
  <2>1. idle' = [i \in 1 .. N |-> i - 1]
    BY <1>4 DEF PoolUp
  <2>2. Distinct'
    BY <2>1 DEF Distinct
  <2>3. IdleSet' \subseteq Slots
    BY <2>1 DEF IdleSet, Slots
  <2>4. \A s \in Slots : login'[s].at = "off"
    BY <1>4 DEF PoolUp, NoLogin
  <2>5. Holders' = {}
    BY <1>4 DEF PoolUp, PhaseInv, Holders
  <2> QED BY <2>2, <2>3, <2>4, <2>5 DEF OwnFacts
<1>5. CASE Restart
  <2>1. Holders' = {} /\ IdleSet' = {} /\ Distinct'
    BY <1>5 DEF Restart, Holders, IdleSet, Distinct, Out, At
  <2> QED BY <2>1 DEF OwnFacts
<1>6. ASSUME NEW c \in Clients, AcquireStart(c) \/ AcquirePermit(c) \/ OpEnd(c) \/ OpHangs(c) \/ DropPermit(c)
      PROVE  OwnFacts'
  <2>1. idle' = idle /\ login' = login
    BY <1>6 DEF AcquireStart, AcquirePermit, OpEnd, OpHangs, DropPermit, poolVars
  <2>2. ASSUME NEW d \in Clients
        PROVE  /\ client'[d].pc \in {"using", "ended"} <=> client[d].pc \in {"using", "ended"}
               /\ client'[d].slot = client[d].slot \/ d \notin Holders
    <3>1. CASE d # c
      BY <1>6, <3>1 DEF AcquireStart, AcquirePermit, OpEnd, OpHangs, DropPermit
    <3>2. CASE d = c /\ AcquireStart(c)
      BY <3>2 DEF AcquireStart, ClientRecords
    <3>3. CASE d = c /\ AcquirePermit(c)
      BY <3>3 DEF AcquirePermit, ClientRecords
    <3>4. CASE d = c /\ (OpEnd(c) \/ OpHangs(c))
      BY <3>4 DEF OpEnd, OpHangs, ClientRecords
    <3>5. CASE d = c /\ DropPermit(c)
      BY <3>5 DEF DropPermit, Out, At, Holders
    <3> QED BY <1>6, <3>1, <3>2, <3>3, <3>4, <3>5
  <2> QED BY <2>1, <2>2, OwnQuiet
<1>7. ASSUME NEW c \in Clients, AcquirePop(c) PROVE OwnFacts'
  <2> DEFINE top == idle[Len(idle)]
  <2>1. top \in IdleSet /\ IdleSet' = IdleSet \ {top} /\ Distinct'
    BY <1>7, PopFacts DEF AcquirePop, OwnFacts, Distinct
  <2>2. login' = login /\ login[top].at = "off" /\ top \in Slots
    BY <1>7, <2>1 DEF AcquirePop, OwnFacts, IdleSet
  <2>3. client'[c].pc = "using" /\ client'[c].slot = top
    BY <1>7 DEF AcquirePop, At
  <2>4. \A d \in Clients \ {c} : client'[d] = client[d]
    BY <1>7 DEF AcquirePop
  <2>5. c \notin Holders /\ Holders' = Holders \cup {c}
    BY <1>7, <2>3, <2>4 DEF AcquirePop, Holders
  <2>6. \A d \in Holders : client[d].slot # top
    BY <2>1 DEF OwnFacts
  <2> HIDE DEF top
  <2>7. \A d \in Holders' : /\ client'[d].slot \in Slots /\ client'[d].slot \notin IdleSet'
                            /\ login'[client'[d].slot].at = "off"
    BY <2>1, <2>2, <2>3, <2>4, <2>5 DEF OwnFacts, Holders
  <2>8. \A d, e \in Holders' : client'[d].slot = client'[e].slot => d = e
    BY <2>3, <2>4, <2>5, <2>6 DEF OwnFacts, Holders
  <2>9. \A s \in IdleSet' : login'[s].at = "off"
    BY <2>1, <2>2 DEF OwnFacts
  <2> QED BY <2>1, <2>7, <2>8, <2>9 DEF OwnFacts
<1>8. ASSUME NEW c \in Clients, DropBad(c) \/ DropGood(c) PROVE OwnFacts'
  <2> DEFINE s == client[c].slot
  <2>1. c \in Holders /\ s \in Slots /\ s \notin IdleSet /\ login[s].at = "off"
    BY <1>8 DEF DropBad, DropGood, OwnFacts, Holders
  <2>2. \A d \in Holders \ {c} : client[d].slot # s
    BY <2>1 DEF OwnFacts
  <2>3. client'[c].pc \in {"out", "release"} /\ \A d \in Clients \ {c} : client'[d] = client[d]
    BY <1>8 DEF DropBad, DropGood, Out, At
  <2>4. Holders' = Holders \ {c}
    BY <2>3 DEF Holders
  <2>5. IdleSet \subseteq Slots
    BY DEF IdleSet
  <2>6. CASE DropBad(c)
    <3>1. idle' = idle /\ \A t \in Slots \ {s} : login'[t] = login[t]
      BY <2>6 DEF DropBad
    <3>2. IdleSet' = IdleSet /\ (Distinct' <=> Distinct)
      BY <3>1 DEF IdleSet, Distinct
    <3> HIDE DEF s
    <3> QED BY <2>1, <2>2, <2>3, <2>4, <2>5, <3>1, <3>2 DEF OwnFacts, Holders
  <2>7. CASE DropGood(c)
    <3>1. login' = login /\ idle' = Append(idle, s)
      BY <2>7 DEF DropGood
    <3>2. IdleSet' = IdleSet \cup {s} /\ Distinct'
      BY <2>1, <3>1, PushFacts DEF OwnFacts, Distinct
    <3> HIDE DEF s
    <3> QED BY <2>1, <2>2, <2>3, <2>4, <2>5, <3>1, <3>2 DEF OwnFacts, Holders
  <2> QED BY <1>8, <2>6, <2>7
<1>9. CASE ReloginDropPermit \/ UNCHANGED vars
  BY <1>9, OwnQuiet DEF ReloginDropPermit, vars
<1> QED
  BY <1>1, <1>2, <1>3, <1>4, <1>5, <1>6, <1>7, <1>8, <1>9
     DEF Next, SlotStep, LoginStep, ClientStep

-----------------------------------------------------------------------------
(***************************************************************************)
(* Permits against connections.  Counting exactly is what is inductive:    *)
(* every idle connection is behind a free permit, a permit won but not yet *)
(* used to pop, or a permit not yet dropped after a push.                  *)
(***************************************************************************)
ClientsAt(pc) == {c \in Clients : client[c].pc = pc}
CountInv ==
  Len(idle) = permits + Cardinality(Poppers) + Cardinality(Releasers) + dropping

LEMMA CountType ==
  /\ IsFiniteSet(Poppers) /\ Cardinality(Poppers) \in Nat
  /\ IsFiniteSet(Releasers) /\ Cardinality(Releasers) \in Nat
<1>1. Poppers \subseteq Clients /\ Releasers \subseteq Clients
  BY DEF Poppers, Releasers
<1> QED BY <1>1, FS_Subset, FS_CardinalityType

\* How one client's step changes the number of clients at a program counter.
LEMMA CountMoves ==
  ASSUME NEW c \in Clients, NEW pc, \A d \in Clients \ {c} : client'[d] = client[d]
  PROVE  /\ client[c].pc = pc /\ client'[c].pc # pc
              => Cardinality(ClientsAt(pc)') = Cardinality(ClientsAt(pc)) - 1
         /\ client[c].pc # pc /\ client'[c].pc = pc
              => Cardinality(ClientsAt(pc)') = Cardinality(ClientsAt(pc)) + 1
         /\ (client[c].pc = pc <=> client'[c].pc = pc)
              => Cardinality(ClientsAt(pc)') = Cardinality(ClientsAt(pc))
<1>1. IsFiniteSet(ClientsAt(pc))
  <2>1. ClientsAt(pc) \subseteq Clients
    BY DEF ClientsAt
  <2> QED BY <2>1, FS_Subset
<1>2. CASE client[c].pc = pc /\ client'[c].pc # pc
  <2>1. ClientsAt(pc)' = ClientsAt(pc) \ {c} /\ c \in ClientsAt(pc)
    BY <1>2 DEF ClientsAt
  <2> QED BY <1>1, <1>2, <2>1, FS_RemoveElement
<1>3. CASE client[c].pc # pc /\ client'[c].pc = pc
  <2>1. ClientsAt(pc)' = ClientsAt(pc) \cup {c} /\ c \notin ClientsAt(pc)
    BY <1>3 DEF ClientsAt
  <2> QED BY <1>1, <1>3, <2>1, FS_AddElement
<1>4. CASE client[c].pc = pc <=> client'[c].pc = pc
  <2>1. ClientsAt(pc)' = ClientsAt(pc)
    BY <1>4 DEF ClientsAt
  <2> QED BY <1>4, <2>1
<1> QED BY <1>2, <1>3, <1>4

\* The same for the two sets that CountInv counts.
LEMMA CountBoth ==
  ASSUME NEW c \in Clients, \A d \in Clients \ {c} : client'[d] = client[d]
  PROVE  /\ client[c].pc = "permit" /\ client'[c].pc # "permit"
              => Cardinality(Poppers') = Cardinality(Poppers) - 1
         /\ client[c].pc # "permit" /\ client'[c].pc = "permit"
              => Cardinality(Poppers') = Cardinality(Poppers) + 1
         /\ client[c].pc # "permit" /\ client'[c].pc # "permit"
              => Cardinality(Poppers') = Cardinality(Poppers)
         /\ client[c].pc = "release" /\ client'[c].pc # "release"
              => Cardinality(Releasers') = Cardinality(Releasers) - 1
         /\ client[c].pc # "release" /\ client'[c].pc = "release"
              => Cardinality(Releasers') = Cardinality(Releasers) + 1
         /\ client[c].pc # "release" /\ client'[c].pc # "release"
              => Cardinality(Releasers') = Cardinality(Releasers)
<1>1. /\ Poppers = ClientsAt("permit") /\ Poppers' = ClientsAt("permit")'
      /\ Releasers = ClientsAt("release") /\ Releasers' = ClientsAt("release")'
  BY DEF Poppers, Releasers, ClientsAt
<1>2. /\ client[c].pc = "permit" /\ client'[c].pc # "permit"
           => Cardinality(ClientsAt("permit")') = Cardinality(ClientsAt("permit")) - 1
      /\ client[c].pc # "permit" /\ client'[c].pc = "permit"
           => Cardinality(ClientsAt("permit")') = Cardinality(ClientsAt("permit")) + 1
      /\ (client[c].pc = "permit" <=> client'[c].pc = "permit")
           => Cardinality(ClientsAt("permit")') = Cardinality(ClientsAt("permit"))
  BY CountMoves
<1>3. /\ client[c].pc = "release" /\ client'[c].pc # "release"
           => Cardinality(ClientsAt("release")') = Cardinality(ClientsAt("release")) - 1
      /\ client[c].pc # "release" /\ client'[c].pc = "release"
           => Cardinality(ClientsAt("release")') = Cardinality(ClientsAt("release")) + 1
      /\ (client[c].pc = "release" <=> client'[c].pc = "release")
           => Cardinality(ClientsAt("release")') = Cardinality(ClientsAt("release"))
  BY CountMoves
<1> QED BY <1>1, <1>2, <1>3

\* A pool nobody uses yet.
LEMMA CountNobody ==
  ASSUME \A c \in Clients : client[c].pc = "out"
  PROVE  Cardinality(Poppers) = 0 /\ Cardinality(Releasers) = 0
<1>1. Poppers = {} /\ Releasers = {}
  BY DEF Poppers, Releasers
<1> QED BY <1>1, FS_EmptySet

LEMMA CountInit == Init => CountInv
<1> SUFFICES ASSUME Init PROVE CountInv
  OBVIOUS
<1>1. \A c \in Clients : client[c].pc = "out"
  BY DEF Init, Starting, Out, At
<1>2. idle = << >> /\ permits = 0 /\ dropping = 0
  BY DEF Init, Starting
<1> QED BY <1>1, <1>2, CountNobody DEF CountInv

LEMMA CountStep ==
  TypeOK /\ PhaseInv /\ OwnFacts /\ CountInv /\ [Next]_vars => CountInv'
<1> SUFFICES ASSUME TypeOK, PhaseInv, OwnFacts, CountInv, [Next]_vars PROVE CountInv'
  OBVIOUS
<1>0. /\ Len(idle) \in Nat /\ permits \in Nat /\ dropping \in Nat
      /\ Cardinality(Poppers) \in Nat /\ Cardinality(Releasers) \in Nat
  BY CountType DEF TypeOK
<1>1. ASSUME UNCHANGED <<idle, permits, dropping, client>> PROVE CountInv'
  BY <1>1 DEF CountInv, Poppers, Releasers
<1>2. ASSUME NEW s \in Slots, LoginStep(s) \/ LoginHangs(s) \/ GateAcquire(s)
                             \/ BackoffDone(s)
      PROVE  CountInv'
  BY <1>1, <1>2 DEF LoginStep, LoginHangs, LoginOk, LoginRetry, LoginDegrade, LoginFail, GateAcquire,
                    BackoffDone, poolVars
<1>3. ASSUME NEW s \in Slots, ReloginPush(s) PROVE CountInv'
  <2>1. Len(idle') = Len(idle) + 1 /\ dropping' = dropping + 1
    BY <1>3, PushFacts DEF ReloginPush
  <2>2. permits' = permits /\ Poppers' = Poppers /\ Releasers' = Releasers
    BY <1>3 DEF ReloginPush, Poppers, Releasers
  <2>3. /\ Cardinality(Poppers') = Cardinality(Poppers)
        /\ Cardinality(Releasers') = Cardinality(Releasers)
    BY <2>2
  <2>4. Len(idle) = permits + Cardinality(Poppers) + Cardinality(Releasers) + dropping
    BY DEF CountInv
  <2>5. Len(idle') = permits' + Cardinality(Poppers') + Cardinality(Releasers') + dropping'
    BY <1>0, <2>1, <2>2, <2>3, <2>4
  <2> QED BY <2>5 DEF CountInv
<1>4. CASE PoolUp
  <2>1. Len(idle') = N /\ permits' = N /\ dropping' = 0
    BY <1>4 DEF PoolUp, PhaseInv
  <2>2. \A c \in Clients : client[c].pc = "out"
    BY <1>4 DEF PoolUp, PhaseInv
  <2>3. Poppers' = Poppers /\ Releasers' = Releasers
    BY <1>4 DEF PoolUp, Poppers, Releasers
  <2>4. Cardinality(Poppers) = 0 /\ Cardinality(Releasers) = 0
    BY <2>2, CountNobody
  <2> QED BY <2>1, <2>3, <2>4 DEF CountInv
<1>5. CASE ReloginDropPermit
  <2>1. /\ dropping' = dropping - 1 /\ permits' = permits + 1 /\ idle' = idle
        /\ Poppers' = Poppers /\ Releasers' = Releasers
    BY <1>5 DEF ReloginDropPermit, Poppers, Releasers
  <2> QED BY <1>0, <2>1 DEF CountInv
<1>6. CASE Restart
  <2>1. \A c \in Clients : client'[c].pc = "out"
    BY <1>6 DEF Restart, Out, At
  <2>2. idle' = << >> /\ permits' = 0 /\ dropping' = 0
    BY <1>6 DEF Restart
  <2>3. Poppers' = {} /\ Releasers' = {}
    BY <2>1 DEF Poppers, Releasers
  <2>4. Cardinality(Poppers') = 0 /\ Cardinality(Releasers') = 0
    BY <2>3, FS_EmptySet
  <2>5. Len(idle') = 0
    BY <2>2
  <2> QED BY <2>2, <2>4, <2>5 DEF CountInv
<1>7. ASSUME NEW c \in Clients, ClientStep(c) PROVE CountInv'
  <2>1. \A d \in Clients \ {c} : client'[d] = client[d]
    BY <1>7 DEF ClientStep, AcquireStart, AcquirePermit, AcquirePop, OpEnd, OpHangs, DropBad,
                DropGood, DropPermit, TypeOK
  <2>2. CASE AcquireStart(c) \/ OpEnd(c) \/ OpHangs(c) \/ DropBad(c)
    <3>1. idle' = idle /\ permits' = permits /\ dropping' = dropping
      BY <2>2 DEF AcquireStart, OpEnd, OpHangs, DropBad, poolVars
    <3>2. client[c].pc \notin {"permit", "release"} /\ client'[c].pc \notin {"permit", "release"}
      <4>1. CASE AcquireStart(c)
        BY <4>1 DEF AcquireStart, ClientRecords
      <4>2. CASE OpEnd(c) \/ OpHangs(c)
        BY <4>2 DEF OpEnd, OpHangs, ClientRecords, TypeOK
      <4>3. CASE DropBad(c)
        BY <4>3 DEF DropBad, Out, At
      <4> QED BY <2>2, <4>1, <4>2, <4>3
    <3>3. Cardinality(Poppers') = Cardinality(Poppers)
          /\ Cardinality(Releasers') = Cardinality(Releasers)
      BY <2>1, <3>2, CountBoth
    <3> QED BY <1>0, <3>1, <3>3 DEF CountInv
  <2>3. CASE AcquirePermit(c)
    <3>1. idle' = idle /\ permits' = permits - 1 /\ dropping' = dropping
      BY <2>3 DEF AcquirePermit
    <3>2. client[c].pc = "wait" /\ client'[c].pc = "permit"
      BY <2>3 DEF AcquirePermit, ClientRecords, TypeOK
    <3>3. Cardinality(Poppers') = Cardinality(Poppers) + 1
          /\ Cardinality(Releasers') = Cardinality(Releasers)
      BY <2>1, <3>2, CountBoth
    <3> QED BY <1>0, <3>1, <3>3 DEF CountInv
  <2>4. CASE AcquirePop(c)
    <3>1. Len(idle') = Len(idle) - 1 /\ permits' = permits /\ dropping' = dropping
      BY <2>4, PopFacts DEF AcquirePop, OwnFacts, Distinct
    <3>2. client[c].pc = "permit" /\ client'[c].pc = "using"
      BY <2>4 DEF AcquirePop, At, TypeOK
    <3>3. Cardinality(Poppers') = Cardinality(Poppers) - 1
          /\ Cardinality(Releasers') = Cardinality(Releasers)
      BY <2>1, <3>2, CountBoth
    <3> QED BY <1>0, <3>1, <3>3 DEF CountInv
  <2>5. CASE DropGood(c)
    <3>1. client[c].slot \in Slots
      BY <2>5 DEF DropGood, OwnFacts, Holders
    <3>2. Len(idle') = Len(idle) + 1 /\ permits' = permits /\ dropping' = dropping
      BY <2>5, <3>1, PushFacts DEF DropGood
    <3>3. client[c].pc = "ended" /\ client'[c].pc = "release"
      BY <2>5 DEF DropGood, At, TypeOK
    <3>4. Cardinality(Poppers') = Cardinality(Poppers)
          /\ Cardinality(Releasers') = Cardinality(Releasers) + 1
      BY <2>1, <3>3, CountBoth
    <3> QED BY <1>0, <3>2, <3>4 DEF CountInv
  <2>6. CASE DropPermit(c)
    <3>1. idle' = idle /\ permits' = permits + 1 /\ dropping' = dropping
      BY <2>6 DEF DropPermit
    <3>2. client[c].pc = "release" /\ client'[c].pc = "out"
      BY <2>6 DEF DropPermit, Out, At, TypeOK
    <3>3. Cardinality(Poppers') = Cardinality(Poppers)
          /\ Cardinality(Releasers') = Cardinality(Releasers) - 1
      BY <2>1, <3>2, CountBoth
    <3> QED BY <1>0, <3>1, <3>3 DEF CountInv
  <2> QED BY <1>7, <2>2, <2>3, <2>4, <2>5, <2>6 DEF ClientStep
<1>8. CASE UNCHANGED vars
  BY <1>1, <1>8 DEF vars
<1> QED
  BY <1>2, <1>3, <1>4, <1>5, <1>6, <1>7, <1>8 DEF Next, SlotStep

-----------------------------------------------------------------------------
(***************************************************************************)
(* The flags.                                                              *)
(***************************************************************************)
\* A slot without a login in progress, or about to be pushed, is flagged for
\* what it is.
FlagInv ==
  phase = "up" =>
    \A s \in Slots : login[s].at \in {"off", "push"} =>
      (authenticated[s] <=> conn[s] = "session")

LEMMA FlagStep ==
  TypeOK /\ PhaseInv /\ OwnFacts /\ FlagInv /\ [Next]_vars => FlagInv'
<1> SUFFICES ASSUME TypeOK, PhaseInv, OwnFacts, FlagInv, [Next]_vars PROVE FlagInv'
  OBVIOUS
<1> USE DEF TypeOK
<1>1. ASSUME NEW s \in Slots,
             LoginRetry(s) \/ LoginDegrade(s) \/ LoginHangs(s) \/ GateAcquire(s) \/ BackoffDone(s)
      PROVE  FlagInv'
  <2>1. /\ \A t \in Slots \ {s} : login'[t] = login[t]
        /\ login'[s].at \in {"try", "gate", "sleep", "hung"}
    BY <1>1, LoginGoesOn
  <2>2. UNCHANGED <<phase, authenticated, conn>>
    BY <1>1 DEF LoginRetry, LoginDegrade, LoginHangs, GateAcquire, BackoffDone, poolVars
  <2> QED BY <2>1, <2>2 DEF FlagInv
<1>2. ASSUME NEW s \in Slots, LoginOk(s), phase = "up" PROVE FlagInv'
  <2>1. /\ authenticated' = [authenticated EXCEPT ![s] = (login[s].as = "session")]
        /\ conn' = [conn EXCEPT ![s] = login[s].as]
        /\ \A t \in Slots \ {s} : login'[t] = login[t]
        /\ phase' = phase
    BY <1>2 DEF LoginOk
  <2>2. ASSUME NEW t \in Slots, login'[t].at \in {"off", "push"}
        PROVE  authenticated'[t] <=> conn'[t] = "session"
    <3>1. CASE t = s
      BY <2>1, <3>1
    <3>2. CASE t # s
      BY <1>2, <2>1, <2>2, <3>2 DEF FlagInv
    <3> QED BY <3>1, <3>2
  <2> QED BY <2>2 DEF FlagInv
<1>3. ASSUME NEW s \in Slots, LoginOk(s), phase # "up" PROVE FlagInv'
  BY <1>3 DEF LoginOk, FlagInv
<1>4. ASSUME NEW s \in Slots, LoginFail(s) PROVE FlagInv'
  <2>1. CASE phase = "starting"
    BY <1>4, <2>1 DEF LoginFail, FlagInv
  <2>2. CASE phase = "up"
    <3>1. /\ login' = [login EXCEPT ![s].at = "lost"]
          /\ authenticated' = [authenticated EXCEPT ![s] = FALSE]
          /\ phase' = phase /\ conn' = conn
      BY <1>4, <2>2 DEF LoginFail
    <3>2. login'[s].at = "lost" /\ \A t \in Slots \ {s} : login'[t] = login[t]
      BY <3>1 DEF LoginRecords
    <3>3. \A t \in Slots \ {s} : authenticated'[t] = authenticated[t]
      BY <3>1
    <3> QED BY <2>2, <3>1, <3>2, <3>3 DEF FlagInv
  <2> QED BY <1>4, <2>1, <2>2 DEF LoginFail
<1>5. ASSUME NEW s \in Slots, ReloginPush(s) PROVE FlagInv'
  <2>1. /\ login[s].at = "push" /\ \A t \in Slots \ {s} : login'[t] = login[t]
        /\ UNCHANGED <<phase, conn, authenticated>>
    BY <1>5 DEF ReloginPush
  <2> QED BY <2>1 DEF FlagInv
<1>6. CASE PoolUp
  BY <1>6 DEF PoolUp, FlagInv
<1>7. CASE Restart
  BY <1>7 DEF Restart, FlagInv
<1>8. ASSUME NEW c \in Clients, DropBad(c) PROVE FlagInv'
  <2> DEFINE s == client[c].slot
  <2>1. s \in Slots
    BY <1>8 DEF DropBad, OwnFacts, Holders
  <2>2. /\ login'[s].at = "try" /\ \A t \in Slots \ {s} : login'[t] = login[t]
        /\ \A t \in Slots \ {s} : conn'[t] = conn[t]
        /\ UNCHANGED <<phase, authenticated>>
    BY <1>8, <2>1 DEF DropBad, FreshLogin
  <2> HIDE DEF s
  <2> QED BY <2>2 DEF FlagInv
<1>9. ASSUME NEW c \in Clients, ClientStep(c), ~ DropBad(c) PROVE FlagInv'
  BY <1>9 DEF ClientStep, AcquireStart, AcquirePermit, AcquirePop, OpEnd, OpHangs, DropGood, DropPermit,
              poolVars, FlagInv
<1>10. CASE ReloginDropPermit \/ UNCHANGED vars
  BY <1>10 DEF ReloginDropPermit, vars, FlagInv
<1> QED
  BY <1>1, <1>2, <1>3, <1>4, <1>5, <1>6, <1>7, <1>8, <1>9, <1>10
     DEF Next, SlotStep, LoginStep

-----------------------------------------------------------------------------
PoolInv ==
  TypeOK /\ AttemptsLeft /\ PhaseInv /\ OwnFacts /\ CountInv /\ FlagInv

LEMMA Inductive == Spec => []PoolInv
<1>1. Init => PoolInv
  <2>1. Init => FlagInv
    BY DEF Init, Starting, FlagInv
  <2> QED BY <2>1, TypeInit, PhaseInit, OwnInit, CountInit DEF PoolInv
<1>2. PoolInv /\ [Next]_vars => PoolInv'
  BY TypeStep, AttemptsStep, PhaseStep, OwnStep, CountStep, FlagStep, OwnFactsEquiv DEF PoolInv
<1> QED BY <1>1, <1>2, PTL DEF Spec

(***************************************************************************)
(* Type correctness of the pool (steam.rs, CmPool), slot indices and       *)
(* attempt counters included.                                              *)
(***************************************************************************)
THEOREM TypeCorrect == Spec => []TypeOK
<1>1. PoolInv => TypeOK
  BY DEF PoolInv
<1> QED BY <1>1, Inductive, PTL

(***************************************************************************)
(* acquire's expect never fires: whoever won a permit finds a connection,  *)
(* for every pool size, number of clients and interleaving with drops,     *)
(* relogins and forgotten permits.                                         *)
(***************************************************************************)
THEOREM PermitsBacked == Spec => []PermitBacked
<1>1. PoolInv => PermitBacked
  BY CountType DEF PoolInv, CountInv, PermitBacked, TypeOK
<1> QED BY <1>1, Inductive, PTL

(***************************************************************************)
(* No connection is ever shared by two tasks, handed out while it is being *)
(* replaced, or put on the idle stack twice.                               *)
(***************************************************************************)
THEOREM SingleOwner == Spec => []OneOwner
<1>1. PoolInv => OneOwner
  BY OwnFactsEquiv DEF PoolInv
<1> QED BY <1>1, Inductive, PTL

(***************************************************************************)
(* any_authenticated's flags say what the connections one can get are      *)
(* logged in as.                                                           *)
(***************************************************************************)
THEOREM FlagsTrue == Spec => []FlagsTruthful
<1>1. PoolInv => FlagsTruthful
  <2> SUFFICES ASSUME PoolInv, NEW s \in Slots, s \in IdleSet \/ UsedBy(s) # {}
               PROVE  authenticated[s] <=> conn[s] = "session"
    BY DEF FlagsTruthful
  <2>1. phase = "up"
    BY DEF PoolInv, PhaseInv, IdleSet, UsedBy, Holders
  <2>2. login[s].at = "off"
    BY DEF PoolInv, OwnFacts, UsedBy
  <2> QED BY <2>1, <2>2 DEF PoolInv, FlagInv
<1> QED BY <1>1, Inductive, PTL
-----------------------------------------------------------------------------
(***************************************************************************)
(* The refinement of ConnectionPool.  Owner picks some user of a slot; one *)
(* owner per connection makes that the user.                               *)
(***************************************************************************)
OwnerFacts ==
  /\ Owner = [s \in Slots |-> Owner[s]]
  /\ \A s \in Slots :
       /\ \A c \in Holders : client[c].slot = s => Owner[s] = c
       /\ (\A c \in Holders : client[c].slot # s) =>
            Owner[s] = IF s \in IdleSet THEN "free"
                       ELSE IF login[s].at = "lost" THEN "lost" ELSE "away"

LEMMA OwnerIs == OwnFacts => OwnerFacts
<1> SUFFICES ASSUME OwnFacts PROVE OwnerFacts
  OBVIOUS
<1>1. Owner = [s \in Slots |-> Owner[s]]
  BY DEF Owner
<1>2. ASSUME NEW s \in Slots, NEW c \in Holders, client[c].slot = s PROVE Owner[s] = c
  <2>1. UsedBy(s) = {c}
    BY <1>2 DEF OwnFacts, UsedBy
  <2>2. (CHOOSE d \in {c} : TRUE) = c
    OBVIOUS
  <2> QED BY <2>1, <2>2 DEF Owner
<1>3. ASSUME NEW s \in Slots, \A c \in Holders : client[c].slot # s
      PROVE  Owner[s] = IF s \in IdleSet THEN "free"
                        ELSE IF login[s].at = "lost" THEN "lost" ELSE "away"
  <2>1. UsedBy(s) = {}
    BY <1>3 DEF UsedBy
  <2> QED BY <2>1 DEF Owner
<1> QED BY <1>1, <1>2, <1>3 DEF OwnerFacts

\* No user of a slot is taken for one of the abstract pool's places.
LEMMA OwnerKinds ==
  ASSUME OwnerFacts, NEW s \in Slots
  PROVE  \/ Owner[s] \in {"free", "away", "lost"} /\ \A c \in Holders : client[c].slot # s
         \/ Owner[s] \in Holders /\ client[Owner[s]].slot = s
BY DEF OwnerFacts

\* A step that leaves stack and holders alone and loses no slot.
LEMMA OwnerQuiet ==
  ASSUME TypeOK, OwnerFacts, OwnerFacts', idle' = idle,
         \A s \in Slots : login[s].at = "lost" <=> login'[s].at = "lost",
         \A c \in Clients : /\ client'[c].pc \in {"using", "ended"}
                                 <=> client[c].pc \in {"using", "ended"}
                            /\ client'[c].slot = client[c].slot \/ c \notin Holders
  PROVE  Owner' = Owner
<1>1. Holders' = Holders /\ IdleSet' = IdleSet
  BY DEF Holders, IdleSet
<1>2. \A c \in Holders : client'[c].slot = client[c].slot
  BY DEF Holders
<1>3. ASSUME NEW s \in Slots PROVE Owner'[s] = Owner[s]
  <2>1. CASE \E c \in Holders : client[c].slot = s
    BY <1>1, <1>2, <2>1 DEF OwnerFacts
  <2>2. CASE \A c \in Holders : client[c].slot # s
    BY <1>1, <1>2, <2>2 DEF OwnerFacts
  <2> QED BY <2>1, <2>2
<1> QED BY <1>3 DEF OwnerFacts

\* The steps of a login: only giving up on the pool's side shows.
LEMMA RefineSlot ==
  ASSUME TypeOK, PhaseInv, OwnFacts, OwnerFacts, OwnerFacts',
         NEW s \in Slots, SlotStep(s)
  PROVE  Abstract!Next \/ Owner' = Owner
<1> USE DEF TypeOK
<1>1. CASE LoginRetry(s) \/ LoginDegrade(s) \/ LoginHangs(s) \/ GateAcquire(s) \/ BackoffDone(s) \/ LoginOk(s)
  <2>1. idle' = idle /\ client' = client
    BY <1>1 DEF LoginRetry, LoginDegrade, LoginHangs, GateAcquire, BackoffDone, LoginOk, poolVars
  <2>2. \A t \in Slots : login[t].at = "lost" <=> login'[t].at = "lost"
    <3>1. login[s].at # "lost" /\ login'[s].at # "lost"
      <4>1. CASE LoginRetry(s) \/ LoginHangs(s) \/ GateAcquire(s) \/ LoginOk(s)
        BY <4>1 DEF LoginRetry, LoginHangs, GateAcquire, LoginOk, LoginRecords
      <4>2. CASE LoginDegrade(s)
        BY <4>2 DEF LoginDegrade, FreshLogin
      <4>3. CASE BackoffDone(s)
        BY <4>3 DEF BackoffDone, LoginRecords
      <4> QED BY <1>1, <4>1, <4>2, <4>3
    <3>2. \A t \in Slots \ {s} : login'[t] = login[t]
      BY <1>1 DEF LoginRetry, LoginDegrade, LoginHangs, GateAcquire, BackoffDone, LoginOk
    <3> QED BY <3>1, <3>2
  <2> QED BY <2>1, <2>2, OwnerQuiet
<1>2. CASE LoginFail(s) /\ phase = "starting"
  <2>1. idle' = idle /\ client' = client /\ \A t \in Slots : login'[t].at = "off"
    BY <1>2 DEF LoginFail, NoLogin
  <2>2. \A t \in Slots : login[t].at # "lost"
    BY <1>2 DEF PhaseInv
  <2> QED BY <2>1, <2>2, OwnerQuiet
<1>3. CASE LoginFail(s) /\ phase = "up"
  <2>1. /\ idle' = idle /\ client' = client /\ login[s].at = "try"
        /\ login' = [login EXCEPT ![s].at = "lost"]
    BY <1>3 DEF LoginFail
  <2>2. Holders' = Holders /\ IdleSet' = IdleSet
    BY <2>1 DEF Holders, IdleSet
  <2>3. s \notin IdleSet /\ \A c \in Holders : client[c].slot # s
    BY <2>1 DEF OwnFacts
  <2>4. login'[s].at = "lost" /\ \A t \in Slots \ {s} : login'[t] = login[t]
    BY <2>1 DEF LoginRecords
  <2>5. Owner[s] = "away" /\ Owner'[s] = "lost"
    BY <2>1, <2>2, <2>3, <2>4 DEF OwnerFacts
  <2>6. ASSUME NEW t \in Slots \ {s} PROVE Owner'[t] = Owner[t]
    <3>1. CASE \E c \in Holders : client[c].slot = t
      BY <2>1, <2>2, <3>1 DEF OwnerFacts
    <3>2. CASE \A c \in Holders : client[c].slot # t
      BY <2>1, <2>2, <2>4, <3>2 DEF OwnerFacts
    <3> QED BY <3>1, <3>2
  <2>7. Owner' = [Owner EXCEPT ![s] = "lost"]
    BY <2>5, <2>6 DEF OwnerFacts
  <2>8. Abstract!Lose(s)
    BY <2>5, <2>7 DEF Abstract!Lose
  <2> QED BY <2>8 DEF Abstract!Next
<1>4. CASE ReloginPush(s)
  <2>1. s \notin IdleSet /\ (\A c \in Holders : client[c].slot # s) /\ login[s].at = "push"
    BY <1>4 DEF ReloginPush, OwnFacts
  <2>2. IdleSet' = IdleSet \cup {s}
    BY <1>4, PushFacts DEF ReloginPush
  <2>3. client' = client /\ Holders' = Holders /\ \A t \in Slots \ {s} : login'[t] = login[t]
    BY <1>4 DEF ReloginPush, Holders
  <2>4. Owner[s] = "away" /\ Owner'[s] = "free"
    BY <2>1, <2>2, <2>3 DEF OwnerFacts
  <2>5. ASSUME NEW t \in Slots \ {s} PROVE Owner'[t] = Owner[t]
    <3>1. CASE \E c \in Holders : client[c].slot = t
      BY <2>3, <3>1 DEF OwnerFacts
    <3>2. CASE \A c \in Holders : client[c].slot # t
      BY <2>2, <2>3, <3>2 DEF OwnerFacts
    <3> QED BY <3>1, <3>2
  <2>6. Owner' = [t \in Slots |-> IF t \in {s} THEN "free" ELSE Owner[t]]
    BY <2>4, <2>5 DEF OwnerFacts
  <2>7. Abstract!Arrive({s})
    BY <2>4, <2>6 DEF Abstract!Arrive
  <2> QED BY <2>7 DEF Abstract!Next
<1> QED BY <1>1, <1>2, <1>3, <1>4 DEF SlotStep, LoginStep, LoginFail

\* The steps of a client: popping takes, either drop gives up.
LEMMA RefineClient ==
  ASSUME TypeOK, PhaseInv, OwnFacts, OwnerFacts, OwnerFacts',
         NEW c \in Clients, ClientStep(c)
  PROVE  Abstract!Next \/ Owner' = Owner
<1> USE DEF TypeOK
<1>1. CASE AcquireStart(c) \/ AcquirePermit(c) \/ OpEnd(c) \/ OpHangs(c) \/ DropPermit(c)
  <2>1. idle' = idle /\ login' = login
    BY <1>1 DEF AcquireStart, AcquirePermit, OpEnd, OpHangs, DropPermit, poolVars
  <2>2. ASSUME NEW d \in Clients
        PROVE  /\ client'[d].pc \in {"using", "ended"} <=> client[d].pc \in {"using", "ended"}
               /\ client'[d].slot = client[d].slot \/ d \notin Holders
    <3>1. CASE d # c
      BY <1>1, <3>1 DEF AcquireStart, AcquirePermit, OpEnd, OpHangs, DropPermit
    <3>2. CASE d = c /\ (AcquireStart(c) \/ AcquirePermit(c))
      BY <3>2 DEF AcquireStart, AcquirePermit, ClientRecords
    <3>3. CASE d = c /\ (OpEnd(c) \/ OpHangs(c))
      BY <3>3 DEF OpEnd, OpHangs, ClientRecords
    <3>4. CASE d = c /\ DropPermit(c)
      BY <3>4 DEF DropPermit, Out, At, Holders
    <3> QED BY <1>1, <3>1, <3>2, <3>3, <3>4
  <2> QED BY <2>1, <2>2, OwnerQuiet
<1>2. CASE AcquirePop(c)
  <2> DEFINE top == idle[Len(idle)]
  <2>1. top \in IdleSet /\ IdleSet' = IdleSet \ {top}
    BY <1>2, PopFacts DEF AcquirePop, OwnFacts, Distinct
  <2>2. login' = login /\ top \in Slots
    BY <1>2, <2>1 DEF AcquirePop, IdleSet
  <2>3. client'[c].pc = "using" /\ client'[c].slot = top
    BY <1>2 DEF AcquirePop, At
  <2>4. \A d \in Clients \ {c} : client'[d] = client[d]
    BY <1>2 DEF AcquirePop
  <2>5. c \notin Holders /\ Holders' = Holders \cup {c} /\ Holders \subseteq Clients
    BY <1>2, <2>3, <2>4 DEF AcquirePop, Holders
  <2>6. \A d \in Holders : client[d].slot # top
    BY <2>1 DEF OwnFacts
  <2> HIDE DEF top
  <2>7. Owner[top] = "free" /\ Owner'[top] = c
    BY <2>1, <2>2, <2>3, <2>5, <2>6 DEF OwnerFacts
  <2>8. ASSUME NEW t \in Slots \ {top} PROVE Owner'[t] = Owner[t]
    <3>1. CASE \E d \in Holders : client[d].slot = t
      BY <2>4, <2>5, <3>1 DEF OwnerFacts
    <3>2. CASE \A d \in Holders : client[d].slot # t
      <4>1. \A d \in Holders' : client'[d].slot # t
        BY <2>3, <2>4, <2>5, <3>2
      <4> QED BY <2>1, <2>2, <3>2, <4>1 DEF OwnerFacts
    <3> QED BY <3>1, <3>2
  <2>9. Owner' = [Owner EXCEPT ![top] = c]
    BY <2>2, <2>7, <2>8 DEF OwnerFacts
  <2>10. \A t \in Slots : Owner[t] # c
    BY <2>5, OwnerKinds, OwnersAssumption
  <2>11. Abstract!Take(c, top)
    BY <2>7, <2>9, <2>10 DEF Abstract!Take
  <2> QED BY <2>2, <2>11 DEF Abstract!Next
<1>3. CASE DropBad(c) \/ DropGood(c)
  <2> DEFINE s == client[c].slot
  <2>1. c \in Holders /\ s \in Slots /\ s \notin IdleSet /\ login[s].at = "off"
    BY <1>3 DEF DropBad, DropGood, OwnFacts, Holders
  <2>2. \A d \in Holders \ {c} : client[d].slot # s
    BY <2>1 DEF OwnFacts
  <2>3. client'[c].pc \in {"out", "release"} /\ \A d \in Clients \ {c} : client'[d] = client[d]
    BY <1>3 DEF DropBad, DropGood, Out, At
  <2>4. Holders' = Holders \ {c} /\ Holders \subseteq Clients
    BY <2>3 DEF Holders
  <2>5. \A d \in Holders' : client'[d] = client[d]
    BY <2>3, <2>4
  <2>6. Owner[s] = c
    BY <2>1 DEF OwnerFacts
  <2>7. \A t \in Slots \ {s} : login'[t] = login[t]
    BY <1>3 DEF DropBad, DropGood
  <2>8. ASSUME NEW t \in Slots \ {s}, t \in IdleSet' <=> t \in IdleSet
        PROVE  Owner'[t] = Owner[t]
    <3>1. CASE \E d \in Holders : client[d].slot = t
      <4>1. PICK d \in Holders : client[d].slot = t
        BY <3>1
      <4>2. d \in Holders' /\ client'[d].slot = t
        BY <2>4, <2>5, <4>1
      <4> QED BY <4>1, <4>2 DEF OwnerFacts
    <3>2. CASE \A d \in Holders : client[d].slot # t
      <4>1. \A d \in Holders' : client'[d].slot # t
        BY <2>4, <2>5, <3>2
      <4> QED BY <2>7, <2>8, <3>2, <4>1 DEF OwnerFacts
    <3> QED BY <3>1, <3>2
  <2>9. \A d \in Holders' : client'[d].slot # s
    BY <2>2, <2>4, <2>5
  <2>10. CASE DropBad(c)
    <3>1. IdleSet' = IdleSet /\ login'[s].at = "try"
      BY <2>1, <2>10 DEF DropBad, IdleSet, FreshLogin
    <3> HIDE DEF s
    <3>2. Owner'[s] = "away"
      BY <2>1, <2>9, <3>1 DEF OwnerFacts
    <3>3. Owner' = [Owner EXCEPT ![s] = "away"]
      BY <2>1, <2>8, <3>1, <3>2 DEF OwnerFacts
    <3>4. Abstract!Discard(c, s)
      BY <2>6, <3>3 DEF Abstract!Discard
    <3> QED BY <2>1, <3>4 DEF Abstract!Next
  <2>11. CASE DropGood(c)
    <3>1. IdleSet' = IdleSet \cup {s}
      BY <2>1, <2>11, PushFacts DEF DropGood
    <3> HIDE DEF s
    <3>2. Owner'[s] = "free"
      BY <2>1, <2>9, <3>1 DEF OwnerFacts
    <3>3. Owner' = [Owner EXCEPT ![s] = "free"]
      BY <2>1, <2>8, <3>1, <3>2 DEF OwnerFacts
    <3>4. Abstract!Give(c, s)
      BY <2>6, <3>3 DEF Abstract!Give
    <3> QED BY <2>1, <3>4 DEF Abstract!Next
  <2> QED BY <1>3, <2>10, <2>11
<1> QED BY <1>1, <1>2, <1>3 DEF ClientStep

\* Until the pool is up, every slot is away.
LEMMA AllAway ==
  ASSUME PhaseInv, OwnerFacts, phase = "starting", NEW s \in Slots
  PROVE  Owner[s] = "away"
<1>1. Holders = {} /\ IdleSet = {} /\ login[s].at # "lost"
  BY DEF PhaseInv, Holders, IdleSet
<1> QED BY <1>1 DEF OwnerFacts

LEMMA RefineStep ==
  TypeOK /\ PhaseInv /\ PhaseInv' /\ OwnFacts /\ OwnerFacts /\ OwnerFacts' /\ [Next]_vars
    => [Abstract!Next]_Owner
<1> SUFFICES ASSUME TypeOK, PhaseInv, PhaseInv', OwnFacts, OwnerFacts, OwnerFacts', [Next]_vars
             PROVE  Abstract!Next \/ Owner' = Owner
  OBVIOUS
<1>1. ASSUME NEW s \in Slots, SlotStep(s) PROVE Abstract!Next \/ Owner' = Owner
  BY <1>1, RefineSlot
<1>2. ASSUME NEW c \in Clients, ClientStep(c) PROVE Abstract!Next \/ Owner' = Owner
  BY <1>2, RefineClient
<1>3. CASE PoolUp
  <2>1. \A s \in Slots : Owner[s] = "away"
    BY <1>3, AllAway DEF PoolUp
  <2>2. IdleSet' = Slots
    <3>1. idle' = [i \in 1 .. N |-> i - 1]
      BY <1>3 DEF PoolUp
    <3>2. \A s \in Slots : s + 1 \in 1 .. N /\ idle'[s + 1] = s
      BY <3>1 DEF Slots
    <3>3. \A i \in 1 .. N : idle'[i] \in Slots
      BY <3>1 DEF Slots
    <3>4. IdleSet' = {idle'[i] : i \in 1 .. N}
      BY <3>1 DEF IdleSet
    <3> QED BY <3>2, <3>3, <3>4
  <2>3. Holders' = {}
    BY <1>3 DEF PoolUp, PhaseInv, Holders
  <2>4. \A s \in Slots : Owner'[s] = "free"
    BY <2>2, <2>3 DEF OwnerFacts
  <2>5. Owner' = [s \in Slots |-> IF s \in Slots THEN "free" ELSE Owner[s]]
    BY <2>4 DEF OwnerFacts
  <2>6. Slots # {}
    BY DEF Slots
  <2>7. Abstract!Arrive(Slots)
    BY <2>1, <2>5, <2>6 DEF Abstract!Arrive
  <2> QED BY <2>7 DEF Abstract!Next
<1>4. CASE Restart
  <2>1. Holders' = {} /\ IdleSet' = {} /\ \A s \in Slots : login'[s].at = "try"
    BY <1>4 DEF Restart, Holders, IdleSet, Out, At, FreshLogin
  <2>2. \A s \in Slots : Owner'[s] = "away"
    BY <2>1 DEF OwnerFacts
  <2>3. Abstract!Reset
    BY <2>2 DEF OwnerFacts, Abstract!Reset
  <2> QED BY <2>3 DEF Abstract!Next
<1>5. CASE ReloginDropPermit \/ UNCHANGED vars
  BY <1>5, OwnerQuiet DEF ReloginDropPermit, vars
<1> QED BY <1>1, <1>2, <1>3, <1>4, <1>5 DEF Next

(***************************************************************************)
(* CmPool implements ConnectionPool (steam.rs: acquire, PooledConn::drop,  *)
(* relogin_slot): behind permits, stack, gate and relogin tasks, every     *)
(* connection goes from one owner to the next in single steps, for every   *)
(* pool size and number of clients.                                        *)
(***************************************************************************)
THEOREM ImplementsPool == Spec => PoolRefined
<1>1. Init => Abstract!Init
  <2> SUFFICES ASSUME Init PROVE Abstract!Init
    OBVIOUS
  <2>1. PhaseInv /\ OwnerFacts /\ phase = "starting"
    BY PhaseInit, OwnInit, OwnerIs DEF Init, Starting
  <2> QED BY <2>1, AllAway DEF OwnerFacts, Abstract!Init
<1>2. PoolInv => TypeOK /\ PhaseInv /\ OwnFacts /\ OwnerFacts
  BY OwnerIs DEF PoolInv
<1> QED BY <1>1, <1>2, RefineStep, Inductive, PTL DEF Spec, PoolRefined, Abstract!Spec
=============================================================================
