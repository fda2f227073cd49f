--------------------------- MODULE WorkshopProofs ---------------------------
(***************************************************************************)
(* Proofs about Workshop, for every number of requests, items and faults:  *)
(* however calls time out, are refused, are retried or arrive late, a      *)
(* request leaves no collection behind that it should not, and no title    *)
(* runs ahead of the members.  What a resolve returns plays no part in     *)
(* this, except that an empty result is refused.                           *)
(*                                                                         *)
(* The last part is about ModSources, which keeps the sources a resolve    *)
(* expands: through an instance with variables of its own, what a deleted  *)
(* ModSource leaves in the tables.                                         *)
(***************************************************************************)
EXTENDS Workshop, TLAPS

\* The fields of a request that resolves, and of one that has.
ResolveFields == {"pc", "target", "candidates", "still", "frontier", "depth", "answered",
                  "resolved", "childrenOf"}
WriteFields == {"pc", "then", "target", "mods", "tries"}
WritePcs == {"owned", "publish", "children", "title", "delete", "cleanup"}

Shape(r) ==
  \/ r \in {IdleJob, Done}
  \/ r.pc = "resolve" /\ DOMAIN r = ResolveFields
  \/ r.pc \in WritePcs /\ DOMAIN r = WriteFields

Shaped ==
  /\ DOMAIN job = Jobs /\ \A j \in Jobs : Shape(job[j])
  /\ DOMAIN children = Colls \cup NewIds
  /\ DOMAIN title = Colls \cup NewIds
  /\ maker \in [NewIds -> Jobs \cup {None}]

\* A request that writes has something to write, into a collection of the
\* account's or one that it made itself; only its title comes after its members.
Target(j) ==
  /\ job[j].pc = "owned" => job[j].then \in {"children", "delete"}
  /\ \/ job[j].pc \in {"publish", "children"}
     \/ job[j].pc = "owned" /\ job[j].then = "children"
     => job[j].mods # <<>>
  /\ job[j].pc = "children" =>
       job[j].target = Own \/ (job[j].target \in NewIds /\ maker[job[j].target] = j)
  /\ job[j].pc = "cleanup" => job[j].target \in NewIds /\ maker[job[j].target] = j
  /\ job[j].pc \in {"title", "delete"} => job[j].target = Own
  /\ job[j].pc = "title" => <<j, Own>> \in filled

\* The request that made a collection has nothing else to do, and does not end
\* while the collection is empty, unless it is excused.
Busy(j, n) == job[j].pc \in {"children", "cleanup"} /\ job[j].target = n
Made(n) ==
  /\ n \in visible => maker[n] # None
  /\ maker[n] # None => job[maker[n]].pc = "done" \/ Busy(maker[n], n)
  /\ n \in visible /\ children[n] = <<>> /\ n \notin excused => Busy(maker[n], n)

OneEach == \A n, m \in NewIds : maker[n] # None /\ maker[n] = maker[m] => n = m

\* What is still on its way is not empty, and goes where it was sent.
LateInv == \A m \in late : m.members # <<>> /\ m.id \in {Own} \cup NewIds

WriteInv ==
  /\ Shaped
  /\ \A j \in Jobs : Target(j)
  /\ \A n \in NewIds : Made(n)
  /\ OneEach
  /\ LateInv
  /\ TitleNeverAhead
LEMMA WriteInit == Init => WriteInv
<1> SUFFICES ASSUME Init PROVE WriteInv
  OBVIOUS
<1>1. Shaped
  <2>1. DOMAIN job = Jobs /\ \A j \in Jobs : job[j] = IdleJob
    BY DEF Init
  <2>2. DOMAIN children = Colls \cup NewIds
    BY DEF Init
  <2>3. DOMAIN title = Colls \cup NewIds /\ maker \in [NewIds -> Jobs \cup {None}]
    BY DEF Init
  <2> QED BY <2>1, <2>2, <2>3 DEF Shaped, Shape
<1>2. \A j \in Jobs : Target(j)
  BY DEF Init, Target, IdleJob
<1>3. \A n \in NewIds : Made(n)
  BY IdsAssumption DEF Init, Made
<1>4. OneEach /\ LateInv /\ TitleNeverAhead
  BY DEF Init, OneEach, LateInv, TitleNeverAhead, Colls
<1> QED BY <1>1, <1>2, <1>3, <1>4 DEF WriteInv

-----------------------------------------------------------------------------
\* What a step may do to a request that it is not about.
Kept(k) ==
  /\ job'[k].pc = job[k].pc /\ Shape(job'[k])
  /\ job[k].pc # "resolve" => job'[k] = job[k]

LEMMA DisturbedKept ==
  ASSUME Shaped, NEW k \in Jobs
  PROVE  /\ DOMAIN Disturbed = Jobs
         /\ Disturbed[k].pc = job[k].pc /\ Shape(Disturbed[k])
         /\ job[k].pc # "resolve" => Disturbed[k] = job[k]
<1>1. DOMAIN Disturbed = Jobs
  BY DEF Disturbed
<1>2. CASE job[k].pc # "resolve"
  <2>1. Disturbed[k] = job[k]
    BY <1>2 DEF Disturbed
  <2> QED BY <1>1, <2>1 DEF Shaped
<1>3. CASE job[k].pc = "resolve"
  <2>1. DOMAIN job[k] = ResolveFields
    BY <1>3 DEF Shaped, Shape, IdleJob, Done, WritePcs
  <2>2. Disturbed[k] = [job[k] EXCEPT !.still = FALSE]
    BY <1>3 DEF Disturbed
  <2>3. Disturbed[k].pc = "resolve" /\ DOMAIN Disturbed[k] = ResolveFields
    BY <1>3, <2>1, <2>2 DEF ResolveFields
  <2> QED BY <1>1, <1>3, <2>3 DEF Shape
<1> QED BY <1>2, <1>3

LEMMA OneMoves ==
  ASSUME Shaped, NEW j \in Jobs, NEW r,
         job' = [job EXCEPT ![j] = r] \/ job' = [Disturbed EXCEPT ![j] = r]
  PROVE  DOMAIN job' = Jobs /\ job'[j] = r /\ \A k \in Jobs \ {j} : Kept(k)
<1>1. CASE job' = [job EXCEPT ![j] = r]
  <2>1. DOMAIN job' = Jobs /\ job'[j] = r /\ \A k \in Jobs \ {j} : job'[k] = job[k]
    BY <1>1 DEF Shaped
  <2> QED BY <2>1 DEF Kept, Shaped
<1>2. CASE job' = [Disturbed EXCEPT ![j] = r]
  <2>1. DOMAIN Disturbed = Jobs
    BY DEF Disturbed
  <2>2. DOMAIN job' = Jobs /\ job'[j] = r /\ \A k \in Jobs \ {j} : job'[k] = Disturbed[k]
    BY <1>2, <2>1
  <2> QED BY <2>2, DisturbedKept DEF Kept
<1> QED BY <1>1, <1>2

\* Giving up is the end, except for a new collection, which is cleaned up.
LEMMA GivenUp ==
  ASSUME NEW j \in Jobs, Shape(job[j]), job[j].pc \in WritePcs
  PROVE  /\ Shape(GiveUp(j))
         /\ IF job[j].pc = "children" /\ Id(j) \in NewIds
              THEN GiveUp(j).pc = "cleanup" /\ GiveUp(j).target = Id(j)
              ELSE GiveUp(j) = Done
<1>1. DOMAIN job[j] = WriteFields
  BY DEF Shape, IdleJob, Done, WritePcs
<1>2. CASE job[j].pc = "children" /\ Id(j) \in NewIds
  <2>1. GiveUp(j) = [job[j] EXCEPT !.pc = "cleanup", !.tries = 0]
    BY <1>2 DEF GiveUp
  <2>2. /\ DOMAIN GiveUp(j) = WriteFields /\ GiveUp(j).pc = "cleanup"
        /\ GiveUp(j).target = job[j].target
    BY <1>1, <2>1 DEF WriteFields
  <2> QED BY <1>2, <2>2 DEF Shape, WritePcs, Id
<1>3. CASE ~ (job[j].pc = "children" /\ Id(j) \in NewIds)
  <2>1. GiveUp(j) = Done
    BY <1>3 DEF GiveUp
  <2> QED BY <1>3, <2>1 DEF Shape
<1> QED BY <1>2, <1>3

LEMMA Retried ==
  ASSUME NEW j \in Jobs, Shape(job[j]), job[j].pc \in WritePcs
  PROVE  /\ Shape(Retry(j))
         /\ \/ Retry(j) = GiveUp(j)
            \/ /\ Retry(j).pc = job[j].pc /\ Retry(j).target = job[j].target
               /\ Retry(j).mods = job[j].mods /\ Retry(j).then = job[j].then
<1>1. DOMAIN job[j] = WriteFields
  BY DEF Shape, IdleJob, Done, WritePcs
<1>2. CASE Retry(j) = GiveUp(j)
  BY <1>2, GivenUp
<1>3. CASE Retry(j) = [job[j] EXCEPT !.tries = @ + 1]
  <2>1. /\ DOMAIN Retry(j) = WriteFields
        /\ Retry(j).pc = job[j].pc /\ Retry(j).target = job[j].target
        /\ Retry(j).mods = job[j].mods /\ Retry(j).then = job[j].then
    BY <1>1, <1>3 DEF WriteFields
  <2> QED BY <2>1 DEF Shape
<1> QED BY <1>2, <1>3 DEF Retry

LEMMA TargetKept ==
  ASSUME NEW k \in Jobs, Target(k), Kept(k), filled \subseteq filled',
         \A n \in NewIds : maker[n] = k => maker'[n] = k
  PROVE  Target(k)'
<1>1. CASE job[k].pc = "resolve"
  BY <1>1 DEF Target, Kept
<1>2. CASE job'[k] = job[k]
  BY <1>2 DEF Target
<1> QED BY <1>1, <1>2 DEF Kept

\* A collection whose maker is not concerned.
LEMMA MadeKept ==
  ASSUME WriteInv, NEW n \in NewIds, maker'[n] = maker[n],
         maker[n] # None => Kept(maker[n]),
         n \in visible' => n \in visible,
         n \notin visible' \/ children'[n] = children[n] \/ children'[n] # <<>>,
         excused \subseteq excused'
  PROVE  Made(n)'
<1>1. Made(n)
  BY DEF WriteInv
<1>2. maker[n] # None => (Busy(maker[n], n) => Busy(maker[n], n)')
  BY DEF Busy, Kept
<1> QED BY <1>1, <1>2 DEF Made, Kept

\* A request takes a step that makes no collection.
LEMMA Moved ==
  ASSUME WriteInv, NEW j \in Jobs, NEW r,
         job' = [job EXCEPT ![j] = r] \/ job' = [Disturbed EXCEPT ![j] = r],
         Shape(r), Target(j)', maker' = maker, filled \subseteq filled',
         excused \subseteq excused',
         \A n \in NewIds :
           /\ n \in visible' => n \in visible
           /\ n \notin visible' \/ children'[n] = children[n] \/ children'[n] # <<>>
           /\ maker[n] = j =>
                \/ Busy(j, n)'
                \/ r.pc = "done" /\ (n \notin visible' \/ children'[n] # <<>> \/ n \in excused')
  PROVE  /\ DOMAIN job' = Jobs /\ \A k \in Jobs : Shape(job[k])'
         /\ \A k \in Jobs : Target(k)'
         /\ \A n \in NewIds : Made(n)'
         /\ OneEach'
<1>1. DOMAIN job' = Jobs /\ job'[j] = r /\ \A k \in Jobs \ {j} : Kept(k)
  BY OneMoves DEF WriteInv
<1>2. \A k \in Jobs : Shape(job[k])'
  <2>1. \A k \in Jobs : Shape(job'[k])
    BY <1>1 DEF Kept
  <2> QED BY <2>1 DEF Shape, IdleJob, Done, ResolveFields, WritePcs, WriteFields
<1>3. ASSUME NEW k \in Jobs PROVE Target(k)'
  <2>1. CASE k = j
    BY <2>1
  <2>2. CASE k # j
    BY <1>1, <2>2, TargetKept DEF WriteInv
  <2> QED BY <2>1, <2>2
<1>4. ASSUME NEW n \in NewIds PROVE Made(n)'
  <2>1. CASE maker[n] = j
    <3>1. j # None /\ (n \in visible' => n \in visible)
      BY JobsAssumption
    <3> QED BY <1>1, <2>1, <3>1 DEF Made
  <2>2. CASE maker[n] # j
    <3>1. maker[n] # None => Kept(maker[n])
      BY <1>1, <2>2 DEF WriteInv, Shaped
    <3> QED BY <3>1, MadeKept
  <2> QED BY <2>1, <2>2
<1>5. OneEach'
  BY DEF WriteInv, OneEach
<1> QED BY <1>1, <1>2, <1>3, <1>4, <1>5
LEMMA NotMaker ==
  ASSUME WriteInv, NEW j \in Jobs, job[j].pc \notin {"done", "children", "cleanup"}
  PROVE  \A n \in NewIds : maker[n] # j
BY JobsAssumption DEF WriteInv, Made, Busy

-----------------------------------------------------------------------------
\* A step that leaves Steam alone, of a request that has made nothing.
LEMMA Reading ==
  ASSUME WriteInv, NEW j \in Jobs, NEW r, job' = [job EXCEPT ![j] = r],
         UNCHANGED <<steam, history>>,
         job[j].pc \notin {"done", "children", "cleanup"}, Shape(r), Target(j)'
  PROVE  WriteInv'
<1>1. UNCHANGED <<children, visible, title, late, filled, maker, excused>>
  BY DEF steam, history
<1>2. /\ DOMAIN job' = Jobs /\ \A k \in Jobs : Shape(job[k])'
      /\ (\A k \in Jobs : Target(k)') /\ (\A n \in NewIds : Made(n)') /\ OneEach'
  BY <1>1, Moved, NotMaker
<1>3. Shaped'
  BY <1>1, <1>2 DEF WriteInv, Shaped
<1>4. LateInv' /\ TitleNeverAhead'
  BY <1>1 DEF WriteInv, LateInv, TitleNeverAhead
<1> QED BY <1>2, <1>3, <1>4 DEF WriteInv

\* Requests begin, resolve, look their target up, or fail on a read.
LEMMA ReadSteps ==
  ASSUME WriteInv, NEW j \in Jobs,
         \/ \E target \in Colls \cup {New}, c \in Candidates : BeginPublish(j, target, c)
         \/ \E target \in Colls : BeginDelete(j, target)
         \/ ResolveRound(j) \/ ResolveDone(j) \/ EnsureOwned(j) \/ ReadFails(j)
  PROVE  WriteInv'
<1>0. DOMAIN job = Jobs /\ Shape(job[j]) /\ Target(j)
  BY DEF WriteInv, Shaped
<1>1. ASSUME NEW target, NEW c, BeginPublish(j, target, c) PROVE WriteInv'
  <2> DEFINE r == [pc |-> "resolve", target |-> target, candidates |-> c, still |-> TRUE,
                   frontier |-> c, depth |-> 0, answered |-> {}, resolved |-> {},
                   childrenOf |-> [d \in {} |-> <<>>]]
  <2>1. /\ job' = [job EXCEPT ![j] = r] /\ job[j].pc = "idle"
        /\ UNCHANGED <<steam, history>>
    BY <1>1 DEF BeginPublish, Set
  <2>2. r.pc = "resolve" /\ DOMAIN r = ResolveFields
    BY DEF ResolveFields
  <2> HIDE DEF r
  <2>3. Shape(r) /\ Target(j)'
    BY <1>0, <2>1, <2>2 DEF Shape, Target
  <2> QED BY <2>1, <2>3, Reading
<1>2. ASSUME NEW target, BeginDelete(j, target) PROVE WriteInv'
  <2> DEFINE r == [pc |-> "owned", then |-> "delete", target |-> target, mods |-> <<>>,
                   tries |-> 0]
  <2>1. /\ job' = [job EXCEPT ![j] = r] /\ job[j].pc = "idle"
        /\ UNCHANGED <<steam, history>>
    BY <1>2 DEF BeginDelete, Set
  <2>2. r.pc = "owned" /\ r.then = "delete" /\ DOMAIN r = WriteFields
    BY DEF WriteFields
  <2> HIDE DEF r
  <2>3. Shape(r) /\ Target(j)'
    BY <1>0, <2>1, <2>2 DEF Shape, Target, WritePcs
  <2> QED BY <2>1, <2>3, Reading
<1>3. CASE ResolveRound(j)
  <2>1. PICK backwards \in BOOLEAN :
          job' = [job EXCEPT ![j] =
                    [job[j] EXCEPT !.answered = Round(j, backwards).answered,
                                   !.resolved = Round(j, backwards).resolved,
                                   !.childrenOf = Round(j, backwards).childrenOf,
                                   !.frontier = Round(j, backwards).next,
                                   !.depth = @ + 1]]
    BY <1>3 DEF ResolveRound, Set
  <2> DEFINE r == [job[j] EXCEPT !.answered = Round(j, backwards).answered,
                                 !.resolved = Round(j, backwards).resolved,
                                 !.childrenOf = Round(j, backwards).childrenOf,
                                 !.frontier = Round(j, backwards).next,
                                 !.depth = @ + 1]
  <2>2. job[j].pc = "resolve" /\ UNCHANGED <<steam, history>>
    BY <1>3 DEF ResolveRound
  <2>3. DOMAIN job[j] = ResolveFields
    BY <1>0, <2>2 DEF Shape, IdleJob, Done, WritePcs
  <2>4. r.pc = "resolve" /\ DOMAIN r = ResolveFields
    BY <2>2, <2>3 DEF ResolveFields
  <2>5. job' = [job EXCEPT ![j] = r]
    BY <2>1
  <2> HIDE DEF r
  <2>6. Shape(r) /\ Target(j)'
    BY <1>0, <2>4, <2>5 DEF Shape, Target
  <2> QED BY <2>2, <2>5, <2>6, Reading
<1>4. CASE ResolveDone(j) /\ Outcome(j).mods # <<>>
  <2> DEFINE r == [pc |-> IF job[j].target = New THEN "publish" ELSE "owned",
                   then |-> "children", target |-> job[j].target, mods |-> Outcome(j).mods,
                   tries |-> 0]
  <2>1. /\ job' = [job EXCEPT ![j] = r] /\ job[j].pc = "resolve"
        /\ UNCHANGED <<steam, history>>
    BY <1>4 DEF ResolveDone, Set
  <2>2. /\ r.pc \in {"publish", "owned"} /\ r.then = "children" /\ r.mods # <<>>
        /\ DOMAIN r = WriteFields
    BY <1>4 DEF WriteFields
  <2> HIDE DEF r
  <2>3. Shape(r) /\ Target(j)'
    BY <1>0, <2>1, <2>2 DEF Shape, Target, WritePcs
  <2> QED BY <2>1, <2>3, Reading
<1>5. CASE \/ ReadFails(j)
           \/ ResolveDone(j) /\ Outcome(j).mods = <<>>
           \/ EnsureOwned(j) /\ ~ (job[j].target = Own /\ Own \in visible)
  <2>1. /\ job' = [job EXCEPT ![j] = Done] /\ job[j].pc \in {"resolve", "owned"}
        /\ UNCHANGED <<steam, history>>
    BY <1>5 DEF ReadFails, ResolveDone, EnsureOwned, Set
  <2>2. Shape(Done) /\ Target(j)'
    BY <1>0, <2>1 DEF Shape, Target, Done
  <2> QED BY <2>1, <2>2, Reading
<1>6. CASE EnsureOwned(j) /\ job[j].target = Own /\ Own \in visible
  <2> DEFINE r == [job[j] EXCEPT !.pc = job[j].then]
  <2>1. /\ job' = [job EXCEPT ![j] = r] /\ job[j].pc = "owned"
        /\ UNCHANGED <<steam, history>>
    BY <1>6 DEF EnsureOwned, Set
  <2>2. DOMAIN job[j] = WriteFields /\ job[j].then \in {"children", "delete"}
    BY <1>0, <2>1 DEF Shape, IdleJob, Done, WritePcs, Target
  <2>3. /\ r.pc = job[j].then /\ r.target = job[j].target /\ r.mods = job[j].mods
        /\ DOMAIN r = WriteFields
    BY <2>2 DEF WriteFields
  <2> HIDE DEF r
  <2>4. Shape(r) /\ Target(j)'
    BY <1>0, <1>6, <2>1, <2>2, <2>3 DEF Shape, Target, WritePcs
  <2> QED BY <2>1, <2>4, Reading
<1> QED BY <1>1, <1>2, <1>3, <1>4, <1>5, <1>6

-----------------------------------------------------------------------------
\* A collection of the account's, or one of the request's own making.
LEMMA TargetIds ==
  ASSUME WriteInv, NEW j \in Jobs, job[j].pc \in {"children", "title", "delete", "cleanup"}
  PROVE  /\ Id(j) \in {Own} \cup NewIds /\ Id(j) \in Colls \cup NewIds
         /\ Own \notin NewIds
         /\ DOMAIN children = Colls \cup NewIds /\ DOMAIN title = Colls \cup NewIds
         /\ Shape(job[j]) /\ DOMAIN job[j] = WriteFields /\ Target(j) /\ DOMAIN job = Jobs
<1>1. Shape(job[j]) /\ Target(j)
  BY DEF WriteInv, Shaped
<1>2. DOMAIN job[j] = WriteFields
  BY <1>1 DEF Shape, IdleJob, Done, WritePcs
<1>3. Id(j) \in {Own} \cup NewIds
  BY <1>1 DEF Target, Id
<1> QED BY <1>1, <1>2, <1>3, IdsAssumption DEF WriteInv, Shaped, Colls, Items

\* The membership is applied at once: never with nothing in it.
LEMMA SetChildrenStep ==
  ASSUME WriteInv, NEW j \in Jobs, SetChildren(j)
  PROVE  WriteInv'
<1> DEFINE r == IF Id(j) \in NewIds THEN Done ELSE [job[j] EXCEPT !.pc = "title", !.tries = 0]
<1>1. /\ job[j].pc = "children"
      /\ children' = [children EXCEPT ![Id(j)] = job[j].mods]
      /\ filled' = filled \cup {<<j, Id(j)>>}
      /\ job' = [Disturbed EXCEPT ![j] = r]
      /\ UNCHANGED <<visible, title, late, maker, excused>>
  BY DEF SetChildren, Apply
<1>2. /\ Id(j) \in {Own} \cup NewIds /\ Id(j) \in Colls \cup NewIds /\ Own \notin NewIds
      /\ DOMAIN children = Colls \cup NewIds
      /\ DOMAIN job[j] = WriteFields /\ Target(j) /\ DOMAIN job = Jobs
  BY <1>1, TargetIds
<1>3. job[j].mods # <<>> /\ job[j].target = Id(j)
  BY <1>1, <1>2 DEF Target, Id
<1>4. /\ DOMAIN children' = Colls \cup NewIds /\ children'[Id(j)] = job[j].mods
      /\ \A n \in NewIds \ {Id(j)} : children'[n] = children[n]
  BY <1>1, <1>2
<1>5. IF Id(j) \in NewIds THEN r = Done
      ELSE r.pc = "title" /\ r.target = Own /\ DOMAIN r = WriteFields
  BY <1>2, <1>3 DEF WriteFields
<1> HIDE DEF r
<1>6. Shape(r)
  BY <1>5 DEF Shape, WritePcs
<1>7. job'[j] = r
  BY <1>1, OneMoves DEF WriteInv
<1>8. Target(j)'
  BY <1>1, <1>2, <1>5, <1>7 DEF Target, Done
<1>9. \A n \in NewIds : maker[n] = j => n = Id(j)
  BY <1>1, <1>3, JobsAssumption DEF WriteInv, Made, Busy
<1>10. /\ DOMAIN job' = Jobs /\ \A k \in Jobs : Shape(job[k])'
       /\ (\A k \in Jobs : Target(k)') /\ (\A n \in NewIds : Made(n)') /\ OneEach'
  <2>1. \A n \in NewIds : children'[n] = children[n] \/ children'[n] # <<>>
    BY <1>3, <1>4
  <2>2. \A n \in NewIds : maker[n] = j => r.pc = "done" /\ children'[n] # <<>>
    BY <1>3, <1>4, <1>5, <1>9 DEF Done
  <2> QED BY <1>1, <1>6, <1>8, <2>1, <2>2, Moved
<1>11. Shaped'
  BY <1>1, <1>4, <1>10 DEF WriteInv, Shaped
<1>12. LateInv' /\ TitleNeverAhead'
  BY <1>1 DEF WriteInv, LateInv, TitleNeverAhead
<1> QED BY <1>10, <1>11, <1>12 DEF WriteInv
\* The call is refused or gets no answer; in the end a new collection is
\* cleaned up, which keeps its maker busy.
LEMMA SetChildrenFailStep ==
  ASSUME WriteInv, NEW j \in Jobs, SetChildrenRefused(j) \/ SetChildrenTimesOut(j)
  PROVE  WriteInv'
<1>1. /\ job[j].pc = "children"
      /\ UNCHANGED <<children, visible, title, filled, maker, excused>>
      /\ late' \in {late, late \cup {[by |-> j, id |-> Id(j), members |-> job[j].mods]}}
  BY DEF SetChildrenRefused, SetChildrenTimesOut, steam, history
<1>2. /\ Id(j) \in {Own} \cup NewIds /\ Shape(job[j]) /\ Target(j) /\ DOMAIN job = Jobs
  BY <1>1, TargetIds
<1>3. job[j].mods # <<>> /\ Id(j) = job[j].target /\ job[j].pc \in WritePcs
  BY <1>1, <1>2 DEF Target, Id, WritePcs
<1>4. PICK r : /\ job' = [job EXCEPT ![j] = r] /\ Shape(r)
               /\ \/ r = Done /\ Id(j) \notin NewIds
                  \/ r.pc = "cleanup" /\ r.target = Id(j) /\ Id(j) \in NewIds
                  \/ r.pc = "children" /\ r.target = Id(j) /\ r.mods = job[j].mods
  <2>1. CASE SetChildrenRefused(j)
    <3>1. job' = [job EXCEPT ![j] = GiveUp(j)]
      BY <2>1 DEF SetChildrenRefused, Set
    <3> QED BY <1>1, <1>2, <1>3, <3>1, GivenUp
  <2>2. CASE SetChildrenTimesOut(j)
    <3>1. job' = [job EXCEPT ![j] = Retry(j)]
      BY <2>2 DEF SetChildrenTimesOut, Set
    <3>2. Shape(Retry(j))
      BY <1>2, <1>3, Retried
    <3>3. \/ Retry(j) = Done /\ Id(j) \notin NewIds
          \/ Retry(j).pc = "cleanup" /\ Retry(j).target = Id(j) /\ Id(j) \in NewIds
          \/ Retry(j).pc = "children" /\ Retry(j).target = Id(j) /\ Retry(j).mods = job[j].mods
      BY <1>1, <1>2, <1>3, Retried, GivenUp
    <3> QED BY <3>1, <3>2, <3>3
  <2> QED BY <2>1, <2>2
<1>5. job'[j] = r
  BY <1>2, <1>4
<1>6. Target(j)'
  <2>1. Id(j) = Own \/ (Id(j) \in NewIds /\ maker'[Id(j)] = j)
    BY <1>1, <1>2, <1>3 DEF Target
  <2>2. Id(j) \in NewIds => maker'[Id(j)] = j
    BY <1>1, <2>1, TargetIds
  <2>3. CASE r = Done
    BY <1>5, <2>3 DEF Target, Done
  <2>4. CASE r.pc = "cleanup" /\ r.target = Id(j) /\ Id(j) \in NewIds
    BY <1>5, <2>2, <2>4 DEF Target
  <2>5. CASE r.pc = "children" /\ r.target = Id(j) /\ r.mods = job[j].mods
    BY <1>3, <1>5, <2>1, <2>5 DEF Target
  <2> QED BY <1>4, <2>3, <2>4, <2>5
<1>7. \A n \in NewIds : maker[n] = j => Busy(j, n)'
  <2>1. \A n \in NewIds : maker[n] = j => n = Id(j)
    BY <1>1, <1>3, JobsAssumption DEF WriteInv, Made, Busy
  <2> QED BY <1>4, <1>5, <2>1 DEF Busy
<1>8. /\ DOMAIN job' = Jobs /\ \A k \in Jobs : Shape(job[k])'
      /\ (\A k \in Jobs : Target(k)') /\ (\A n \in NewIds : Made(n)') /\ OneEach'
  BY <1>1, <1>4, <1>6, <1>7, Moved
<1>9. Shaped'
  BY <1>1, <1>8 DEF WriteInv, Shaped
<1>10. LateInv'
  BY <1>1, <1>2, <1>3 DEF WriteInv, LateInv
<1>11. TitleNeverAhead'
  BY <1>1 DEF WriteInv, TitleNeverAhead
<1> QED BY <1>8, <1>9, <1>10, <1>11 DEF WriteInv

\* The title follows the members.
LEMMA TitleStep ==
  ASSUME WriteInv, NEW j \in Jobs, UpdateTitle(j) \/ UpdateTitleFails(j)
  PROVE  WriteInv'
<1>1. /\ job[j].pc = "title"
      /\ UNCHANGED <<children, visible, late, filled, maker, excused>>
      /\ title' \in {title, [title EXCEPT ![Id(j)] = j]}
  BY DEF UpdateTitle, UpdateTitleFails, history
<1>2. /\ Shape(job[j]) /\ Target(j) /\ DOMAIN job = Jobs
      /\ DOMAIN title = Colls \cup NewIds /\ Own \notin NewIds
  BY <1>1, TargetIds
<1>3. Id(j) = Own /\ <<j, Own>> \in filled /\ job[j].pc \in WritePcs /\ job[j].target = Own
  BY <1>1, <1>2 DEF Target, Id, WritePcs
<1>4. PICK r : /\ job' = [job EXCEPT ![j] = r] /\ Shape(r)
               /\ r = Done \/ (r.pc = "title" /\ r.target = Own)
  <2>1. CASE UpdateTitle(j)
    BY <2>1 DEF UpdateTitle, Set, Shape
  <2>2. CASE UpdateTitleFails(j)
    <3>1. job' = [job EXCEPT ![j] = Retry(j)]
      BY <2>2 DEF UpdateTitleFails, Set
    <3>2. Shape(Retry(j)) /\ (Retry(j) = Done \/ (Retry(j).pc = "title" /\ Retry(j).target = Own))
      BY <1>1, <1>2, <1>3, Retried, GivenUp
    <3> QED BY <3>1, <3>2
  <2> QED BY <2>1, <2>2
<1>5. job'[j] = r
  BY <1>2, <1>4
<1>6. Target(j)'
  BY <1>1, <1>3, <1>4, <1>5 DEF Target, Done
<1>7. /\ DOMAIN job' = Jobs /\ \A k \in Jobs : Shape(job[k])'
      /\ (\A k \in Jobs : Target(k)') /\ (\A n \in NewIds : Made(n)') /\ OneEach'
  BY <1>1, <1>4, <1>6, Moved, NotMaker
<1>8. Shaped'
  BY <1>1, <1>2, <1>7 DEF WriteInv, Shaped
<1>9. LateInv'
  BY <1>1 DEF WriteInv, LateInv
<1>10. TitleNeverAhead'
  <2>1. title'[Own] \in {title[Own], j}
    BY <1>1, <1>2, <1>3 DEF Colls
  <2> QED BY <1>1, <1>3, <2>1 DEF WriteInv, TitleNeverAhead
<1> QED BY <1>7, <1>8, <1>9, <1>10 DEF WriteInv

\* A collection appears: its maker is busy with it, or nobody knows of it.
LEMMA CreateStep ==
  ASSUME WriteInv, NEW j \in Jobs, NEW n \in NewIds, NEW r,
         job[j].pc = "publish", Create(j, n), job' = [job EXCEPT ![j] = r],
         UNCHANGED <<children, late, filled>>, excused \subseteq excused',
         Shape(r), Target(j)',
         Busy(j, n)' \/ (r = Done /\ n \in excused')
  PROVE  WriteInv'
<1>1. /\ maker[n] = None /\ maker' = [maker EXCEPT ![n] = j]
      /\ visible' = visible \cup {n} /\ title' = [title EXCEPT ![n] = j]
  BY DEF Create
<1>2. DOMAIN job' = Jobs /\ job'[j] = r /\ \A k \in Jobs \ {j} : Kept(k)
  BY OneMoves DEF WriteInv
<1>3. /\ maker \in [NewIds -> Jobs \cup {None}] /\ DOMAIN title = Colls \cup NewIds
      /\ DOMAIN children = Colls \cup NewIds
  BY DEF WriteInv, Shaped
<1>4. maker'[n] = j /\ \A m \in NewIds \ {n} : maker'[m] = maker[m]
  BY <1>1, <1>3
<1>5. Shaped'
  <2>1. \A k \in Jobs : Shape(job'[k])
    BY <1>2 DEF Kept
  <2>2. \A k \in Jobs : Shape(job[k])'
    BY <2>1 DEF Shape, IdleJob, Done, ResolveFields, WritePcs, WriteFields
  <2>3. maker' \in [NewIds -> Jobs \cup {None}] /\ DOMAIN title' = Colls \cup NewIds
    BY <1>1, <1>3
  <2> QED BY <1>2, <1>3, <2>2, <2>3 DEF Shaped
<1>6. ASSUME NEW k \in Jobs PROVE Target(k)'
  <2>1. CASE k = j
    BY <2>1
  <2>2. CASE k # j
    <3>1. \A m \in NewIds : maker[m] = k => maker'[m] = k
      BY <1>1, <1>4, JobsAssumption
    <3> QED BY <1>2, <2>2, <3>1, TargetKept DEF WriteInv
  <2> QED BY <2>1, <2>2
<1>7. ASSUME NEW m \in NewIds PROVE Made(m)'
  <2>1. CASE m = n
    <3>1. j # None
      BY JobsAssumption
    <3> QED BY <1>2, <1>4, <2>1, <3>1 DEF Made, Done
  <2>2. CASE m # n
    <3>1. maker[m] # j /\ maker'[m] = maker[m]
      BY <1>4, <2>2, NotMaker
    <3>2. maker[m] # None => Kept(maker[m])
      BY <1>2, <1>3, <3>1
    <3> QED BY <1>1, <2>2, <3>1, <3>2, MadeKept
  <2> QED BY <2>1, <2>2
<1>8. OneEach'
  <2>1. \A m \in NewIds : maker[m] # j
    BY NotMaker
  <2> QED BY <1>4, <2>1 DEF WriteInv, OneEach
<1>9. LateInv'
  BY DEF WriteInv, LateInv
<1>10. TitleNeverAhead'
  <2>1. n # Own
    BY IdsAssumption DEF Items, Colls
  <2> QED BY <1>1, <1>3, <2>1 DEF WriteInv, TitleNeverAhead, Colls
<1> QED BY <1>5, <1>6, <1>7, <1>8, <1>9, <1>10 DEF WriteInv

\* Publish, answered or not: it is never sent twice.
LEMMA PublishStep ==
  ASSUME WriteInv, NEW j \in Jobs, PublishCollection(j) \/ PublishTimesOut(j)
  PROVE  WriteInv'
<1>1. job[j].pc = "publish" /\ Shape(job[j]) /\ Target(j) /\ DOMAIN job = Jobs
  BY DEF PublishCollection, PublishTimesOut, WriteInv, Shaped
<1>2. DOMAIN job[j] = WriteFields /\ job[j].mods # <<>>
  BY <1>1 DEF Shape, IdleJob, Done, WritePcs, Target
<1>3. CASE PublishCollection(j)
  <2>1. PICK n \in NewIds :
          Create(j, n) /\ job' = [job EXCEPT ![j] = [job[j] EXCEPT !.pc = "children", !.target = n]]
    BY <1>3 DEF PublishCollection, Set
  <2> DEFINE r == [job[j] EXCEPT !.pc = "children", !.target = n]
  <2>2. /\ r.pc = "children" /\ r.target = n /\ r.mods = job[j].mods
        /\ DOMAIN r = WriteFields
    BY <1>2 DEF WriteFields
  <2>3. job' = [job EXCEPT ![j] = r]
    BY <2>1
  <2> HIDE DEF r
  <2>4. job'[j] = r
    BY <1>1, <2>3
  <2>5. maker'[n] = j
    BY <2>1 DEF Create, WriteInv, Shaped
  <2>6. Shape(r) /\ Target(j)' /\ Busy(j, n)'
    BY <1>2, <2>2, <2>4, <2>5 DEF Shape, WritePcs, Target, Busy
  <2>7. UNCHANGED <<children, late, filled, excused>>
    BY <1>3 DEF PublishCollection
  <2> QED BY <1>1, <2>1, <2>3, <2>6, <2>7, CreateStep
<1>4. CASE PublishTimesOut(j)
  <2>1. job' = [job EXCEPT ![j] = Done] /\ UNCHANGED <<children, late, filled>>
    BY <1>4 DEF PublishTimesOut, Set, AfterPublishTimeout
  <2>2. Shape(Done) /\ Target(j)'
    BY <1>1, <2>1 DEF Shape, Target, Done
  <2>3. CASE UNCHANGED <<maker, visible, title, excused>>
    BY <1>1, <2>1, <2>2, <2>3, Reading DEF steam, history
  <2>4. ASSUME NEW n \in NewIds, Create(j, n), excused' = excused \cup {n} PROVE WriteInv'
    BY <1>1, <2>1, <2>2, <2>4, CreateStep
  <2> QED BY <1>4, <2>3, <2>4 DEF PublishTimesOut
<1> QED BY <1>3, <1>4
\* The collection goes: by request, or as the cleanup of a failed publish.
LEMMA DeleteStep ==
  ASSUME WriteInv, NEW j \in Jobs, DeleteCollection(j) \/ DeleteFails(j)
  PROVE  WriteInv'
<1>1. /\ job[j].pc \in {"delete", "cleanup"}
      /\ UNCHANGED <<title, late, filled, maker>>
      /\ \/ UNCHANGED <<children, visible>>
         \/ visible' = visible \ {Id(j)} /\ children' = [children EXCEPT ![Id(j)] = <<>>]
  BY DEF DeleteCollection, DeleteFails, RemoveItem, history
<1>2. /\ Shape(job[j]) /\ Target(j) /\ DOMAIN job = Jobs /\ Own \notin NewIds
      /\ Id(j) \in Colls \cup NewIds /\ DOMAIN children = Colls \cup NewIds
  BY <1>1, TargetIds
<1>3. Id(j) = job[j].target /\ job[j].pc \in WritePcs
  BY <1>1 DEF Id, WritePcs
<1>4. PICK r :
        /\ job' = [Disturbed EXCEPT ![j] = r] /\ Shape(r)
        /\ \/ r = Done
           \/ r.pc = job[j].pc /\ r.target = job[j].target
        /\ r = Done => Id(j) \notin NewIds \/ Id(j) \notin visible' \/ Id(j) \in excused'
        /\ excused \subseteq excused'
  <2>1. CASE DeleteCollection(j)
    BY <2>1 DEF DeleteCollection, RemoveItem, history, Shape
  <2>2. CASE DeleteFails(j)
    <3>1. job' = [Disturbed EXCEPT ![j] = Retry(j)]
      BY <2>2 DEF DeleteFails
    <3>2. job'[j] = Retry(j)
      BY <3>1, OneMoves DEF WriteInv
    <3>3. /\ excused \subseteq excused'
          /\ Retry(j) = Done => Id(j) \notin NewIds \/ Id(j) \in excused'
      BY <2>2, <3>2 DEF DeleteFails
    <3>4. /\ Shape(Retry(j))
          /\ Retry(j) = Done \/ (Retry(j).pc = job[j].pc /\ Retry(j).target = job[j].target)
      BY <1>1, <1>2, <1>3, Retried, GivenUp
    <3> QED BY <3>1, <3>3, <3>4
  <2> QED BY <2>1, <2>2
<1>5. job'[j] = r
  BY <1>4, OneMoves DEF WriteInv
<1>6. Target(j)'
  <2>1. CASE r = Done
    BY <1>5, <2>1 DEF Target, Done
  <2>2. CASE r.pc = job[j].pc /\ r.target = job[j].target
    BY <1>1, <1>2, <1>5, <2>2 DEF Target
  <2> QED BY <1>4, <2>1, <2>2
<1>7. \A n \in NewIds : maker[n] = j => n = Id(j) /\ job[j].pc = "cleanup"
  BY <1>1, <1>3, JobsAssumption DEF WriteInv, Made, Busy
<1>8. /\ DOMAIN children' = Colls \cup NewIds
      /\ \A n \in NewIds : /\ n \in visible' => n \in visible
                           /\ n \notin visible' \/ children'[n] = children[n]
  BY <1>1, <1>2
<1>9. \A n \in NewIds : maker[n] = j =>
        \/ Busy(j, n)'
        \/ r.pc = "done" /\ (n \notin visible' \/ n \in excused')
  <2>1. CASE r = Done
    BY <1>4, <1>7, <2>1 DEF Done
  <2>2. CASE r.pc = job[j].pc /\ r.target = job[j].target
    BY <1>3, <1>5, <1>7, <2>2 DEF Busy
  <2> QED BY <1>4, <2>1, <2>2
<1>10. /\ DOMAIN job' = Jobs /\ \A k \in Jobs : Shape(job[k])'
       /\ (\A k \in Jobs : Target(k)') /\ (\A n \in NewIds : Made(n)') /\ OneEach'
  BY <1>1, <1>4, <1>6, <1>8, <1>9, Moved
<1>11. Shaped'
  BY <1>1, <1>8, <1>10 DEF WriteInv, Shaped
<1>12. LateInv' /\ TitleNeverAhead'
  BY <1>1 DEF WriteInv, LateInv, TitleNeverAhead
<1> QED BY <1>10, <1>11, <1>12 DEF WriteInv

\* A step of nobody's: Steam applies a late call, or others edit.
LEMMA OutsideStep ==
  ASSUME WriteInv, LateChildren \/ OthersEdit
  PROVE  WriteInv'
<1>1. UNCHANGED <<title, maker, excused>> /\ late' \subseteq late /\ filled \subseteq filled'
  BY DEF LateChildren, OthersEdit, Apply, history
<1>2. DOMAIN job' = Jobs /\ \A k \in Jobs : Kept(k)
  <2>1. job' = Disturbed \/ job' = job
    BY DEF LateChildren, OthersEdit
  <2>2. DOMAIN Disturbed = Jobs
    BY DEF Disturbed
  <2>3. CASE job' = Disturbed
    BY <2>2, <2>3, DisturbedKept DEF Kept, WriteInv
  <2>4. CASE job' = job
    BY <2>4 DEF Kept, WriteInv, Shaped
  <2> QED BY <2>1, <2>3, <2>4
<1>3. /\ DOMAIN children' = Colls \cup NewIds
      /\ \A n \in NewIds : /\ n \in visible' => n \in visible
                           /\ children'[n] = children[n] \/ children'[n] # <<>>
  <2>1. DOMAIN children = Colls \cup NewIds
    BY DEF WriteInv, Shaped
  <2>2. CASE LateChildren
    <3>1. PICK m \in late :
            \/ children' = [children EXCEPT ![m.id] = m.members]
            \/ children' = children
      BY <2>2 DEF LateChildren, Apply
    <3>2. m.members # <<>> /\ visible' = visible
      BY <2>2 DEF WriteInv, LateInv, LateChildren
    <3> QED BY <2>1, <3>1, <3>2
  <2>3. CASE OthersEdit
    <3>1. \A n \in NewIds : n \notin Mods /\ n # Own /\ n # Other
      BY IdsAssumption DEF Items, Colls
    <3>2. \/ /\ \E m \in Items : children' = [children EXCEPT ![Other] = <<m>>]
             /\ visible' = visible
          \/ /\ \E i \in Mods \cup {Other} : visible' \in {visible \ {i}, visible \cup {i}}
             /\ children' = children
      BY <2>3 DEF OthersEdit
    <3> QED BY <2>1, <3>1, <3>2
  <2> QED BY <2>2, <2>3
<1>4. Shaped'
  <2>1. \A k \in Jobs : Shape(job[k])'
    BY <1>2 DEF Kept, Shape, IdleJob, Done, ResolveFields, WritePcs, WriteFields
  <2> QED BY <1>1, <1>2, <1>3, <2>1 DEF WriteInv, Shaped
<1>5. \A k \in Jobs : Target(k)'
  BY <1>1, <1>2, TargetKept DEF WriteInv
<1>6. ASSUME NEW n \in NewIds PROVE Made(n)'
  <2>1. maker[n] # None => Kept(maker[n])
    BY <1>2 DEF WriteInv, Shaped
  <2> QED BY <1>1, <1>3, <2>1, MadeKept
<1>7. OneEach' /\ LateInv' /\ TitleNeverAhead'
  BY <1>1 DEF WriteInv, OneEach, LateInv, TitleNeverAhead
<1> QED BY <1>4, <1>5, <1>6, <1>7 DEF WriteInv

\* The daemon dies: what it was busy with is excused.
LEMMA CrashStep ==
  ASSUME WriteInv, Crash
  PROVE  WriteInv'
<1>1. /\ UNCHANGED <<children, visible, title, late, filled, maker>>
      /\ job' = [j \in Jobs |-> IF job[j].pc = "idle" THEN job[j] ELSE Done]
      /\ excused \subseteq excused'
  BY DEF Crash, steam
<1>2. \A j \in Jobs, n \in NewIds : Busy(j, n) => n \in excused'
  <2> SUFFICES ASSUME NEW j \in Jobs, NEW n \in NewIds, Busy(j, n) PROVE n \in excused'
    OBVIOUS
  <2>1. j \in {k \in Jobs : job[k].pc \in {"children", "cleanup"} /\ job[k].target \in NewIds}
    BY DEF Busy
  <2>2. job[j].target = n
    BY DEF Busy
  <2> QED BY <2>1, <2>2 DEF Crash
<1>3. /\ DOMAIN job' = Jobs
      /\ \A j \in Jobs : job'[j] = IF job[j].pc = "idle" THEN job[j] ELSE Done
  BY <1>1
<1>4. Shaped'
  <2>1. \A j \in Jobs : Shape(job'[j])
    BY <1>3 DEF WriteInv, Shaped, Shape
  <2>2. \A j \in Jobs : Shape(job[j])'
    BY <2>1 DEF Shape, IdleJob, Done, ResolveFields, WritePcs, WriteFields
  <2> QED BY <1>1, <1>3, <2>2 DEF WriteInv, Shaped
<1>5. \A j \in Jobs : Target(j)'
  BY <1>3 DEF Target, Done
<1>6. ASSUME NEW n \in NewIds PROVE Made(n)'
  <2>1. Made(n) /\ maker[n] \in Jobs \cup {None}
    BY DEF WriteInv, Shaped
  <2>2. maker[n] # None => job'[maker[n]] = Done
    BY <1>3, <2>1 DEF Made, Busy
  <2> QED BY <1>1, <1>2, <2>1, <2>2 DEF Made, Done
<1>7. OneEach' /\ LateInv' /\ TitleNeverAhead'
  BY <1>1 DEF WriteInv, OneEach, LateInv, TitleNeverAhead
<1> QED BY <1>4, <1>5, <1>6, <1>7 DEF WriteInv

LEMMA WriteStep == WriteInv /\ [Next]_vars => WriteInv'
<1> SUFFICES ASSUME WriteInv, [Next]_vars PROVE WriteInv'
  OBVIOUS
<1>1. CASE UNCHANGED vars
  <2>1. UNCHANGED <<children, visible, title, job, late, filled, maker, excused>>
    BY <1>1 DEF vars
  <2>2. Shaped'
    BY <2>1 DEF WriteInv, Shaped, Shape
  <2>3. (\A j \in Jobs : Target(j)') /\ \A n \in NewIds : Made(n)'
    BY <2>1 DEF WriteInv, Target, Made, Busy
  <2>4. OneEach' /\ LateInv' /\ TitleNeverAhead'
    BY <2>1 DEF WriteInv, OneEach, LateInv, TitleNeverAhead
  <2> QED BY <2>2, <2>3, <2>4 DEF WriteInv
<1>2. ASSUME NEW j \in Jobs, Writes(j) PROVE WriteInv'
  BY <1>2, SetChildrenStep, SetChildrenFailStep, TitleStep, PublishStep, DeleteStep DEF Writes
<1> QED BY <1>1, <1>2, ReadSteps, OutsideStep, CrashStep DEF Next

LEMMA Inductive == Spec => []WriteInv
BY WriteInit, WriteStep, PTL DEF Spec

(***************************************************************************)
(* publish_collection_impl (service.rs) makes at most one collection per   *)
(* request and leaves an empty one behind only where nobody could know of  *)
(* it or delete it, for any number of requests, time-outs, late calls and  *)
(* crashes.                                                                *)
(***************************************************************************)
THEOREM NothingStray == Spec => []NoStrayCollection
<1>1. WriteInv => NoStrayCollection
  BY DEF WriteInv, OneEach, Made, Busy, NoStrayCollection
<1> QED BY <1>1, Inductive, PTL

(***************************************************************************)
(* An existing collection never carries the title of a request whose mods  *)
(* it never held (publish_collection_impl: membership first), whatever is  *)
(* retried, refused or applied late.                                       *)
(***************************************************************************)
THEOREM MembershipFirst == Spec => []TitleNeverAhead
<1>1. WriteInv => TitleNeverAhead
  BY DEF WriteInv
<1> QED BY <1>1, Inductive, PTL
-----------------------------------------------------------------------------
(***************************************************************************)
(* The sources these requests name, as ModSources models them: an instance *)
(* with constants and variables of its own.                                *)
(***************************************************************************)
CONSTANTS Refreshers, Passes
VARIABLES members, obj, cache, event, rec, reg, known, rows, tree, pass, sourceEdits, sourceFaults

Sources == INSTANCE ModSources
  WITH steam <- members, edits <- sourceEdits, faults <- sourceFaults

RegType == [Sources!Registrars -> [pc : Sources!RegPcs, got : SUBSET Mods]]
RecType == [pc : Sources!RecPcs, was : Sources!Statuses, status : Sources!Statuses]

SourceTyped ==
  /\ members \in SUBSET Mods
  /\ obj \in Sources!Objects /\ cache \in Sources!Objects
  /\ rec \in RecType /\ reg \in RegType
  /\ rec.pc = "register" <=> reg[Sources!Reconciler].pc # "idle"

CleanupPcs == {"deleteSource", "deleteRows", "removeFinalizer"}

\* The API server keeps a deleted object only for its finalizer.
ObjectInv ==
  /\ obj.live \in {"none", "gone"} => ~ obj.fin
  /\ obj.live = "deleting" => obj.fin

\* How far behind the object the cache and the reconcile on it may be.
CopyInv ==
  /\ cache.live = "present" /\ cache.fin => obj.fin
  /\ cache.live = "deleting" => obj.live \in {"deleting", "gone"}
  /\ rec.pc = "register" => obj.fin
  /\ rec.pc \in CleanupPcs =>
       obj.live \in {"deleting", "gone"} /\ cache.live \in {"deleting", "gone"}

\* Only a source with the finalizer has rows, and cleanup takes them in order.
RowsInv ==
  /\ ~ obj.fin => ~ known /\ rows = {}
  /\ rec.pc \in {"deleteRows", "removeFinalizer"} => ~ known
  /\ rec.pc = "removeFinalizer" => rows = {}

SourceInv == SourceTyped /\ ObjectInv /\ CopyInv /\ RowsInv

NoRefresh == \A r \in Refreshers : reg[r].pc = "idle"

LEMMA SourceFacts ==
  /\ Sources!NoStatus \in Sources!Statuses
  /\ [Sources!NoStatus EXCEPT !.phase = "Failed"] \in Sources!Statuses
  /\ Sources!IdleReg \in [pc : Sources!RegPcs, got : SUBSET Mods]
  /\ Sources!IdleReg.pc = "idle"
  /\ Sources!IdleRec \in RecType /\ Sources!IdleRec.pc = "idle"
  /\ Sources!Unmade \in Sources!Objects
  /\ Sources!Reconciler \in Sources!Registrars
<1>1. Sources!NoStatus \in Sources!Statuses
  BY DEF Sources!NoStatus, Sources!Statuses
<1>2. [Sources!NoStatus EXCEPT !.phase = "Failed"] \in Sources!Statuses
  BY DEF Sources!NoStatus, Sources!Statuses
<1>3. Sources!IdleReg \in [pc : Sources!RegPcs, got : SUBSET Mods] /\ Sources!IdleReg.pc = "idle"
  BY DEF Sources!IdleReg, Sources!RegPcs
<1>4. Sources!IdleRec \in RecType /\ Sources!IdleRec.pc = "idle"
  BY <1>1 DEF Sources!IdleRec, RecType, Sources!RecPcs
<1>5. Sources!Unmade \in Sources!Objects
  BY <1>1 DEF Sources!Unmade, Sources!Objects
<1> QED BY <1>1, <1>2, <1>3, <1>4, <1>5 DEF Sources!Registrars

LEMMA SourceFirstStep ==
  ASSUME NEW o \in Sources!Objects
  PROVE  /\ Sources!FirstStep(o) \in {"idle", "addFinalizer", "register", "deleteSource"}
         /\ Sources!FirstStep(o) = "register" => o.live = "present" /\ o.fin
         /\ Sources!FirstStep(o) = "deleteSource" => o.live = "deleting" /\ o.fin
BY DEF Sources!FirstStep, Sources!Objects

LEMMA SourceInit == Sources!Init => SourceInv
<1> SUFFICES ASSUME Sources!Init PROVE SourceInv
  OBVIOUS
<1>1. SourceTyped
  <2>1. reg \in RegType /\ reg[Sources!Reconciler].pc = "idle"
    BY SourceFacts DEF Sources!Init, RegType
  <2> QED BY <2>1, SourceFacts DEF Sources!Init, SourceTyped
<1>2. /\ obj.live = "none" /\ obj.fin = FALSE /\ cache.live = "none" /\ rec.pc = "idle"
      /\ known = FALSE /\ rows = {}
  BY SourceFacts DEF Sources!Init, Sources!Unmade
<1> QED BY <1>1, <1>2 DEF SourceInv, ObjectInv, CopyInv, RowsInv, CleanupPcs

\* A step that leaves the objects, the reconcile and the tables alone.
LEMMA SourceIdle ==
  ASSUME SourceInv, members' \in SUBSET Mods, UNCHANGED <<obj, cache, rec, reg, known, rows>>
  PROVE  SourceInv'
BY DEF SourceInv, SourceTyped, ObjectInv, CopyInv, RowsInv

\* Steps on the object.
LEMMA SourceObject ==
  ASSUME SourceInv, Sources!AddModSource \/ Sources!DeleteModSource \/ Sources!Watch
  PROVE  SourceInv'
<1> USE DEF SourceInv, ObjectInv, CopyInv, RowsInv, CleanupPcs
<1>1. UNCHANGED <<members, rec, reg, known, rows>>
  BY DEF Sources!AddModSource, Sources!DeleteModSource, Sources!Watch, Sources!tables
<1>t. obj \in Sources!Objects
  BY DEF SourceTyped
<1>2. CASE Sources!AddModSource
  <2>1. obj.live = "none" /\ obj'.live = "present" /\ obj'.fin = obj.fin /\ cache' = cache
    BY <1>2, <1>t DEF Sources!AddModSource, Sources!Objects
  <2>2. obj' \in Sources!Objects
    BY <1>2, <1>t DEF Sources!AddModSource, Sources!Objects
  <2> QED BY <1>1, <2>1, <2>2 DEF SourceTyped
<1>3. CASE Sources!DeleteModSource
  <2>1. /\ obj.live = "present" /\ obj'.fin = obj.fin /\ cache' = cache
        /\ obj'.live = IF obj.fin THEN "deleting" ELSE "gone"
    BY <1>3, <1>t DEF Sources!DeleteModSource, Sources!Objects
  <2>2. obj' \in Sources!Objects
    BY <1>3, <1>t DEF Sources!DeleteModSource, Sources!Objects
  <2> QED BY <1>1, <2>1, <2>2 DEF SourceTyped
<1>4. CASE Sources!Watch
  BY <1>1, <1>4 DEF Sources!Watch, SourceTyped
<1> QED BY <1>2, <1>3, <1>4

\* register_source_impl, by the reconciler: no other registrar is at work.
LEMMA SourceRegister ==
  ASSUME SourceInv, NoRefresh, NEW r \in Sources!Registrars,
         Sources!Registration(r) \/ Sources!RegisterFails(r)
  PROVE  SourceInv'
<1> USE DEF SourceInv, ObjectInv, CopyInv, RowsInv, CleanupPcs
<1>1. r = Sources!Reconciler
  BY DEF NoRefresh, Sources!Registrars, Sources!Registration, Sources!Resolve, Sources!UpsertSource,
         Sources!RegStep, Sources!SetSourceMods, Sources!RegisterFails
<1>2. /\ reg \in RegType /\ rec \in RecType /\ members \in SUBSET Mods
      /\ obj \in Sources!Objects /\ cache \in Sources!Objects
      /\ reg[r].got \in SUBSET Mods
  BY DEF SourceTyped, RegType
<1>3. UNCHANGED <<members, obj, cache>>
  BY DEF Sources!Registration, Sources!Resolve, Sources!UpsertSource, Sources!SetSourceMods,
         Sources!RegisterFails, Sources!objects
<1>4. rec.pc = "register" /\ obj.fin
  BY <1>1 DEF SourceTyped, Sources!Registration, Sources!Resolve, Sources!UpsertSource,
              Sources!RegStep, Sources!SetSourceMods, Sources!RegisterFails
<1>5. CASE Sources!Resolve(r) \/ Sources!UpsertSource(r)
  <2>1. rec' = rec /\ rows' = rows
    BY <1>5 DEF Sources!Resolve, Sources!UpsertSource, Sources!tables
  <2>2. reg' \in RegType /\ reg'[r].pc # "idle"
    BY <1>2, <1>5 DEF Sources!Resolve, Sources!UpsertSource, Sources!RegStep, RegType, Sources!RegPcs
  <2> QED BY <1>1, <1>2, <1>3, <1>4, <2>1, <2>2 DEF SourceTyped
<1>6. CASE Sources!SetSourceMods(r) \/ Sources!RegisterFails(r)
  <2>1. reg' = [reg EXCEPT ![r] = Sources!IdleReg]
    BY <1>6 DEF Sources!SetSourceMods, Sources!RegisterFails
  <2>2. reg' \in RegType /\ reg'[r].pc = "idle"
    BY <1>2, <2>1, SourceFacts DEF RegType
  <2>3. [phase |-> "Synced", mods |-> reg[r].got, size |-> reg[r].got \cap tree] \in Sources!Statuses
    BY <1>2 DEF Sources!Statuses
  <2>4. rec' \in RecType /\ rec'.pc = "setStatus"
    <3>1. CASE Sources!SetSourceMods(r)
      BY <1>1, <1>2, <2>3, <3>1 DEF Sources!SetSourceMods, RecType, Sources!RecPcs
    <3>2. CASE Sources!RegisterFails(r)
      BY <1>1, <1>2, <3>2, SourceFacts DEF Sources!RegisterFails, RecType, Sources!RecPcs
    <3> QED BY <1>6, <3>1, <3>2
  <2> QED BY <1>1, <1>2, <1>3, <1>4, <2>2, <2>4 DEF SourceTyped
<1> QED BY <1>5, <1>6 DEF Sources!Registration

\* The reconciler's own calls.
LEMMA SourceReconcile ==
  ASSUME SourceInv, Sources!Reconciling \/ Sources!ReconcileError \/ Sources!Restart
  PROVE  SourceInv'
<1> USE DEF SourceInv, ObjectInv, CopyInv, RowsInv, CleanupPcs
<1>t. /\ reg \in RegType /\ rec \in RecType /\ members \in SUBSET Mods
      /\ obj \in Sources!Objects /\ cache \in Sources!Objects
  BY DEF SourceTyped
<1>1. CASE Sources!ReconcileStart
  <2>1. UNCHANGED <<members, obj, cache, known, rows>> /\ rec.pc = "idle"
    BY <1>1 DEF Sources!ReconcileStart, Sources!objects, Sources!tables
  <2>2. rec'.pc = Sources!FirstStep(cache) /\ rec' \in RecType
    BY <1>1, <1>t, SourceFacts, SourceFirstStep
       DEF Sources!ReconcileStart, RecType, Sources!RecPcs, Sources!Objects
  <2>3. /\ reg' \in RegType
        /\ reg'[Sources!Reconciler].pc # "idle" <=> Sources!FirstStep(cache) = "register"
    BY <1>1, <1>t, <2>1, SourceFacts DEF Sources!ReconcileStart, RegType, Sources!RegPcs, SourceTyped
  <2> QED BY <1>t, <2>1, <2>2, <2>3, SourceFirstStep DEF SourceTyped
<1>2. CASE Sources!AddFinalizer
  <2>1. /\ UNCHANGED <<members, cache, reg, known, rows>> /\ rec.pc = "addFinalizer"
        /\ rec' = Sources!IdleRec
    BY <1>2 DEF Sources!AddFinalizer, Sources!RecEnd, Sources!tables
  <2>2. /\ obj' \in Sources!Objects /\ obj'.live = obj.live
        /\ obj'.fin = (obj.fin \/ obj.live = "present")
    BY <1>2, <1>t DEF Sources!AddFinalizer, Sources!Objects
  <2> QED BY <1>t, <2>1, <2>2, SourceFacts DEF SourceTyped
<1>3. CASE Sources!SetStatus
  <2>1. /\ UNCHANGED <<members, cache, reg, known, rows>> /\ rec.pc = "setStatus"
        /\ rec' = Sources!IdleRec
    BY <1>3 DEF Sources!SetStatus, Sources!RecEnd, Sources!tables
  <2>2. obj' \in Sources!Objects /\ obj'.live = obj.live /\ obj'.fin = obj.fin
    BY <1>3, <1>t DEF Sources!SetStatus, Sources!Objects, RecType
  <2> QED BY <1>t, <2>1, <2>2, SourceFacts DEF SourceTyped
<1>4. CASE Sources!DeleteSource \/ Sources!DeleteRows
  <2>1. UNCHANGED <<members, obj, cache, reg>>
    BY <1>4 DEF Sources!DeleteSource, Sources!DeleteRows, Sources!objects
  <2>2. \/ /\ rec.pc = "deleteSource" /\ rec'.pc = "deleteRows" /\ known' = FALSE /\ rows' = rows
        \/ /\ rec.pc = "deleteRows" /\ rec'.pc = "removeFinalizer" /\ known' = known /\ rows' = {}
    BY <1>4, <1>t DEF Sources!DeleteSource, Sources!DeleteRows, Sources!RecStep, RecType
  <2>3. rec' \in RecType
    BY <1>4, <1>t DEF Sources!DeleteSource, Sources!DeleteRows, Sources!RecStep, RecType,
                      Sources!RecPcs
  <2> QED BY <1>t, <2>1, <2>2, <2>3 DEF SourceTyped
<1>5. CASE Sources!RemoveFinalizer
  <2>1. /\ UNCHANGED <<members, cache, reg, known, rows>> /\ rec.pc = "removeFinalizer"
        /\ rec' = Sources!IdleRec
    BY <1>5 DEF Sources!RemoveFinalizer, Sources!RecEnd, Sources!tables
  <2>2. /\ obj' \in Sources!Objects
        /\ \/ obj.live = "deleting" /\ obj'.live = "gone" /\ obj'.fin = FALSE
           \/ obj.live # "deleting" /\ obj' = obj
    BY <1>5, <1>t DEF Sources!RemoveFinalizer, Sources!Objects
  <2>3. ~ known /\ rows = {} /\ cache.live \in {"deleting", "gone"}
    BY <2>1
  <2> QED BY <1>t, <2>1, <2>2, <2>3, SourceFacts DEF SourceTyped
<1>6. CASE Sources!ReconcileError \/ Sources!Restart
  <2>1. /\ UNCHANGED <<members, obj, known, rows>> /\ cache' \in {cache, obj}
        /\ rec' = Sources!IdleRec
    BY <1>6 DEF Sources!ReconcileError, Sources!Restart, Sources!objects, Sources!tables
  <2>2. reg' \in RegType /\ reg'[Sources!Reconciler].pc = "idle"
    BY <1>6, <1>t, SourceFacts DEF Sources!ReconcileError, Sources!Restart, RegType
  <2> QED BY <1>t, <2>1, <2>2, SourceFacts DEF SourceTyped
<1> QED BY <1>1, <1>2, <1>3, <1>4, <1>5, <1>6 DEF Sources!Reconciling

LEMMA SourceStep ==
  SourceInv /\ NoRefresh /\ NoRefresh' /\ [Sources!Next]_(Sources!vars) => SourceInv'
<1> SUFFICES ASSUME SourceInv, NoRefresh, NoRefresh', [Sources!Next]_(Sources!vars)
             PROVE  SourceInv'
  OBVIOUS
<1>t. members \in SUBSET Mods /\ reg \in RegType
  BY DEF SourceInv, SourceTyped
<1>1. CASE Sources!Edit
  <2>1. members' \in SUBSET Mods /\ UNCHANGED <<obj, cache, rec, reg, known, rows>>
    BY <1>1 DEF Sources!Edit, Sources!objects, Sources!tables
  <2> QED BY <2>1, SourceIdle
<1>2. ASSUME NEW r \in Refreshers, Sources!RefreshSource(r) PROVE FALSE
  <2>1. reg'[r].pc = "resolve"
    BY <1>2, <1>t DEF Sources!RefreshSource, RegType, Sources!Registrars
  <2> QED BY <2>1 DEF NoRefresh
<1>3. ASSUME NEW p \in Passes, Sources!PassSpawn(p) \/ Sources!Passing(p) \/ Sources!PassFails(p)
      PROVE  SourceInv'
  <2>1. UNCHANGED <<members, obj, cache, rec, reg, known, rows>>
    BY <1>3 DEF Sources!PassSpawn, Sources!Passing, Sources!PassFails, Sources!PassEnter,
                Sources!PassDesired, Sources!PassDownload, Sources!PassEnd, Sources!objects,
                Sources!tables
  <2> QED BY <1>t, <2>1, SourceIdle
<1>4. CASE UNCHANGED Sources!vars
  BY <1>4, <1>t, SourceIdle DEF Sources!vars
<1> QED
  BY <1>1, <1>2, <1>3, <1>4, SourceObject, SourceRegister, SourceReconcile DEF Sources!Next

(***************************************************************************)
(* What ModSources!DeletedForgotten says of sync-daemon's reconciler, for  *)
(* any mods, passes, edits and faults: while no RefreshSource is in        *)
(* flight, a source that is gone has neither its row nor its membership,   *)
(* wherever delete_source's two DELETEs were cut off and however stale the *)
(* copy they were started from.                                            *)
(***************************************************************************)
THEOREM SourcesForgotten == Sources!Spec => Sources!DeletedForgotten
<1>1. SourceInv => (obj.live = "gone" => ~ known /\ rows = {})
  BY DEF SourceInv, ObjectInv, RowsInv
<1> QED
  BY <1>1, SourceInit, SourceStep, PTL DEF Sources!Spec, Sources!DeletedForgotten, NoRefresh
=============================================================================
