------------------------------ MODULE Workshop ------------------------------
(***************************************************************************)
(* Resolving Workshop ids into mods (steam.rs, resolve_source_ids) and     *)
(* publishing, editing and deleting the account's collections from them    *)
(* (collection.rs and sync-daemon's service.rs).                           *)
(*                                                                         *)
(* Steam is external: it holds the items, their members and who may see    *)
(* them, and answers in no documented order.  Every write is one call; a   *)
(* call that times out may have been applied, may never be, or may be      *)
(* applied later.  Requests run side by side on connections of their own.  *)
(***************************************************************************)
EXTENDS Integers, Sequences, FiniteSets, SequencesExt

CONSTANTS Mods,           \* items that are mods
          Own,            \* a collection of the cluster's account
          Other,          \* a collection of somebody else's
          NewIds,         \* ids of collections yet to be published
          Jobs,           \* requests
          Candidates,     \* lists of ids that a request may name
          Workshops,      \* what Own and Other may hold at the start
          HiddenSets,     \* what the account may be unable to see at the start
          MAX_COLLECTION_DEPTH,
          DEFAULT_RETRY_ATTEMPTS,
          MAX_CHILDREN,
          MaxEdits,       \* bound: edits of the Workshop by others
          MaxFaults       \* bound: calls that time out, daemon crashes

Colls == {Own, Other}
Items == Mods \cup Colls
None == "none"

ASSUME IdsAssumption == NewIds \cap Items = {}
ASSUME JobsAssumption == None \notin Jobs

VARIABLES
  children,   \* collection -> its members, in display order
  visible,    \* the items that the account can see
  title,      \* collection -> the request that named it last
  job,        \* request -> what it is doing
  late,       \* SetCollectionChildren calls still on their way
  filled,     \* history: <<request, collection>>, its membership was applied
  maker,      \* history: new collection -> the request that made it
  excused,    \* history: new collections nobody could know of or delete
  edits, faults

steam   == <<children, visible, title, late>>
history == <<filled, maker, excused>>
vars    == <<children, visible, title, job, late, filled, maker, excused, edits, faults>>

New  == "new"      \* the target of a request before its collection has an id

IdleJob == [pc |-> "idle"]
Done    == [pc |-> "done"]

Init ==
  /\ \E w \in Workshops :
       children = [c \in Colls \cup NewIds |-> IF c \in Colls THEN w[c] ELSE <<>>]
  /\ \E hidden \in HiddenSets : visible = Items \ hidden
  /\ title = [c \in Colls \cup NewIds |-> None]
  /\ job = [j \in Jobs |-> IdleJob]
  /\ late = {} /\ filled = {} /\ excused = {}
  /\ maker = [n \in NewIds |-> None]
  /\ edits = 0 /\ faults = 0

Set(j, r)  == job' = [job EXCEPT ![j] = r]
Fault      == faults < MaxFaults /\ faults' = faults + 1

\* Requests that are resolving no longer see one state of the Workshop.
Disturbed == [k \in Jobs |-> IF job[k].pc = "resolve" THEN [job[k] EXCEPT !.still = FALSE] ELSE job[k]]

----------------------------------------------------------------------------
\* Mutant of ordered_children: the answer's own order is taken.
AsAnswered(answer) == [i \in DOMAIN answer |-> answer[i].id]

(* ordered_children: a stable sort of an answer's members by sortorder.    *)
ordered_children(answer) ==
  LET sorted == SortSeq(answer, LAMBDA m, n : m.sortorder < n.sortorder)
  IN [i \in DOMAIN sorted |-> sorted[i].id]

\* Steam numbers the members as displayed; the order of the answer itself is
\* undocumented: here as displayed, or backwards.
Answer(c, backwards) ==
  LET shown == [i \in DOMAIN children[c] |-> [sortorder |-> i, id |-> children[c][i]]]
  IN IF backwards THEN Reverse(shown) ELSE shown

Push(seq, x) == IF Contains(seq, x) THEN seq ELSE Append(seq, x)

(* One answered item: the loop body of resolve_source_ids.                 *)
TakeDetails(st, id, members) ==
  IF id \notin visible THEN st
  ELSE IF id \in Mods
  THEN [st EXCEPT !.answered = @ \cup {id}, !.resolved = @ \cup {id}]
  ELSE LET known == st.answered \cup {id}
           ask   == SelectSeq(members, LAMBDA m : m \notin known)
       IN [st EXCEPT !.answered = known,
                     !.next = FoldLeft(Push, @, ask),
                     !.childrenOf = [c \in DOMAIN @ \cup {id} |-> IF c = id THEN members ELSE @[c]]]

(* flatten_in_order: candidates walked depth-first, collections replaced   *)
(* by their members, each id taken at its first appearance.                *)
Walks == [seen : SUBSET Items, mods : Seq(Items), unresolved : Seq(Items)]

flatten_in_order(candidates, childrenOf, resolved) ==
  LET walk[acc \in Walks, ids \in Seq(Items)] ==
        IF ids = <<>> THEN acc
        ELSE LET id   == Head(ids)
                 seen == [acc EXCEPT !.seen = @ \cup {id}]
                 one  == IF id \in acc.seen THEN acc
                         ELSE IF id \in DOMAIN childrenOf THEN walk[seen, childrenOf[id]]
                         ELSE IF id \in resolved THEN [seen EXCEPT !.mods = Append(@, id)]
                         ELSE [seen EXCEPT !.unresolved = Append(@, id)]
             IN walk[one, Tail(ids)]
  IN walk[[seen |-> {}, mods |-> <<>>, unresolved |-> <<>>], candidates]

----------------------------------------------------------------------------
(* A request: publish_collection_impl for a new collection or an existing  *)
(* one, or delete_collection_impl.                                         *)
BeginPublish(j, target, candidates) ==
  /\ job[j].pc = "idle"
  /\ Set(j, [pc |-> "resolve", target |-> target, candidates |-> candidates, still |-> TRUE,
             frontier |-> candidates, depth |-> 0, answered |-> {}, resolved |-> {},
             childrenOf |-> [c \in {} |-> <<>>]])
  /\ UNCHANGED <<steam, history, edits, faults>>

BeginDelete(j, target) ==
  /\ job[j].pc = "idle"
  /\ Set(j, [pc |-> "owned", then |-> "delete", target |-> target, mods |-> <<>>, tries |-> 0])
  /\ UNCHANGED <<steam, history, edits, faults>>

\* What a request knows after one GetDetails round over its frontier.
Round(j, backwards) ==
  LET asked == IF backwards THEN Reverse(job[j].frontier) ELSE job[j].frontier
      st0   == [answered |-> job[j].answered, resolved |-> job[j].resolved,
                childrenOf |-> job[j].childrenOf, next |-> <<>>]
  IN FoldLeft(LAMBDA x, id : TakeDetails(x, id,
                IF id \in Colls THEN ordered_children(Answer(id, backwards)) ELSE <<>>),
              st0, asked)

ResolveRound(j) ==
  /\ job[j].pc = "resolve"
  /\ job[j].frontier # <<>> /\ job[j].depth < MAX_COLLECTION_DEPTH
  /\ \E backwards \in BOOLEAN :
       LET st == Round(j, backwards)
       IN Set(j, [job[j] EXCEPT !.answered = st.answered, !.resolved = st.resolved,
                                !.childrenOf = st.childrenOf, !.frontier = st.next,
                                !.depth = @ + 1])
  /\ UNCHANGED <<steam, history, edits, faults>>

Outcome(j) == flatten_in_order(job[j].candidates, job[j].childrenOf, job[j].resolved)

\* Nothing resolved is refused: a collection is never emptied.
ResolveDone(j) ==
  /\ job[j].pc = "resolve"
  /\ job[j].frontier = <<>> \/ job[j].depth >= MAX_COLLECTION_DEPTH
  /\ LET mods == Outcome(j).mods
     IN Set(j, IF mods = <<>> THEN Done
               ELSE [pc |-> IF job[j].target = New THEN "publish" ELSE "owned",
                     then |-> "children", target |-> job[j].target, mods |-> mods, tries |-> 0])
  /\ UNCHANGED <<steam, history, edits, faults>>

\* Mutant of EnsureOwned: the title is changed before the membership.
EnsureOwnedTitleFirst(j) ==
  /\ job[j].pc = "owned"
  /\ Set(j, IF job[j].target = Own /\ Own \in visible
            THEN [job[j] EXCEPT !.pc = IF job[j].then = "children" THEN "title" ELSE job[j].then] ELSE Done)
  /\ UNCHANGED <<steam, history, edits, faults>>

\* The target is looked up first; only a visible collection of the account's
\* own is touched.
EnsureOwned(j) ==
  /\ job[j].pc = "owned"
  /\ Set(j, IF job[j].target = Own /\ Own \in visible
            THEN [job[j] EXCEPT !.pc = job[j].then] ELSE Done)
  /\ UNCHANGED <<steam, history, edits, faults>>

\* A read fails for good: the request ends, having changed nothing.
ReadFails(j) ==
  /\ job[j].pc \in {"resolve", "owned"}
  /\ Set(j, Done)
  /\ UNCHANGED <<steam, history, edits, faults>>

----------------------------------------------------------------------------
(* The writes.  Each either works, is refused, or times out; a time-out is *)
(* retried where the call may be repeated.                                 *)
Id(j) == job[j].target

\* A collection that is gone accepts nothing.
Apply(j, c, members) ==
  /\ children' = [children EXCEPT ![c] = members]
  /\ filled' = filled \cup {<<j, c>>}

GiveUp(j) == IF job[j].pc = "children" /\ Id(j) \in NewIds
             THEN [job[j] EXCEPT !.pc = "cleanup", !.tries = 0]
             ELSE Done

Retry(j) == IF job[j].tries + 1 < DEFAULT_RETRY_ATTEMPTS
            THEN [job[j] EXCEPT !.tries = @ + 1]
            ELSE GiveUp(j)

SetChildren(j) ==
  /\ job[j].pc = "children" /\ Len(job[j].mods) <= MAX_CHILDREN /\ Id(j) \in visible
  /\ Apply(j, Id(j), job[j].mods)
  /\ job' = [Disturbed EXCEPT ![j] = IF Id(j) \in NewIds THEN Done
                                     ELSE [job[j] EXCEPT !.pc = "title", !.tries = 0]]
  /\ UNCHANGED <<visible, title, late, maker, excused, edits, faults>>

\* Refused by validate_children or by Steam.
SetChildrenRefused(j) ==
  /\ job[j].pc = "children"
  /\ Set(j, GiveUp(j))
  /\ UNCHANGED <<steam, history, edits, faults>>

\* No answer: it was lost, or it is on its way and will be applied later.
SetChildrenTimesOut(j) ==
  /\ job[j].pc = "children" /\ Len(job[j].mods) <= MAX_CHILDREN
  /\ Fault
  /\ late' \in {late, late \cup {[by |-> j, id |-> Id(j), members |-> job[j].mods]}}
  /\ Set(j, Retry(j))
  /\ UNCHANGED <<children, visible, title, history, edits>>

LateChildren ==
  \E m \in late :
    /\ late' = late \ {m}
    /\ IF m.id \in visible
       THEN Apply(m.by, m.id, m.members) /\ job' = Disturbed
       ELSE UNCHANGED <<children, filled, job>>
    /\ UNCHANGED <<visible, title, maker, excused, edits, faults>>

UpdateTitle(j) ==
  /\ job[j].pc = "title"
  /\ IF Id(j) \in visible THEN title' = [title EXCEPT ![Id(j)] = j] ELSE UNCHANGED title
  /\ Set(j, Done)
  /\ UNCHANGED <<children, visible, late, history, edits, faults>>

UpdateTitleFails(j) ==
  /\ job[j].pc = "title"
  /\ Fault
  /\ title' \in {title, [title EXCEPT ![Id(j)] = j]}
  /\ Set(j, Retry(j))
  /\ UNCHANGED <<children, visible, late, history, edits>>

\* A new, empty collection appears.
Create(j, n) ==
  /\ maker[n] = None
  /\ maker' = [maker EXCEPT ![n] = j]
  /\ visible' = visible \cup {n}
  /\ title' = [title EXCEPT ![n] = j]

PublishCollection(j) ==
  /\ job[j].pc = "publish"
  /\ \E n \in NewIds :
       Create(j, n) /\ Set(j, [job[j] EXCEPT !.pc = "children", !.target = n])
  /\ UNCHANGED <<children, late, filled, excused, edits, faults>>

\* Mutant of AfterPublishTimeout: Publish is retried like the other calls.
AfterPublishRetried(j) == Retry(j)

\* Not repeated: the collection may be there although no answer came.
AfterPublishTimeout(j) == Done

PublishTimesOut(j) ==
  /\ job[j].pc = "publish"
  /\ Fault
  /\ \/ UNCHANGED <<maker, visible, title, excused>>
     \/ \E n \in NewIds : Create(j, n) /\ excused' = excused \cup {n}
  /\ Set(j, AfterPublishTimeout(j))
  /\ UNCHANGED <<children, late, filled, edits>>

RemoveItem(c) == visible' = visible \ {c} /\ children' = [children EXCEPT ![c] = <<>>]

\* delete_collection, asked for or as the cleanup of a publish.
DeleteCollection(j) ==
  /\ job[j].pc \in {"delete", "cleanup"}
  /\ RemoveItem(Id(j))
  /\ job' = [Disturbed EXCEPT ![j] = Done]
  /\ UNCHANGED <<title, late, history, edits, faults>>

\* The answer is lost, or the delete is; in the end only a warning is left.
DeleteFails(j) ==
  /\ job[j].pc \in {"delete", "cleanup"}
  /\ Fault
  /\ \/ UNCHANGED <<children, visible>>
     \/ RemoveItem(Id(j))
  /\ job' = [Disturbed EXCEPT ![j] = Retry(j)]
  /\ excused' = IF job'[j] = Done /\ Id(j) \in NewIds THEN excused \cup {Id(j)} ELSE excused
  /\ UNCHANGED <<title, late, filled, maker, edits>>

\* The daemon dies; nothing of a request survives it.
Crash ==
  /\ Fault
  /\ excused' = excused \cup {job[j].target : j \in {k \in Jobs : job[k].pc \in {"children", "cleanup"}
                                                                   /\ job[k].target \in NewIds}}
  /\ job' = [j \in Jobs |-> IF job[j].pc = "idle" THEN job[j] ELSE Done]
  /\ UNCHANGED <<steam, filled, maker, edits>>

\* Others edit their collection, or hide and show an item.
OthersEdit ==
  /\ edits < MaxEdits /\ edits' = edits + 1
  /\ \/ \E m \in Items : children' = [children EXCEPT ![Other] = <<m>>] /\ UNCHANGED visible
     \/ \E i \in Mods \cup {Other} :
          /\ visible' = IF i \in visible THEN visible \ {i} ELSE visible \cup {i}
          /\ UNCHANGED children
  /\ job' = Disturbed
  /\ UNCHANGED <<title, late, history, faults>>

----------------------------------------------------------------------------
Writes(j) ==
  \/ SetChildren(j) \/ SetChildrenRefused(j) \/ SetChildrenTimesOut(j)
  \/ UpdateTitle(j) \/ UpdateTitleFails(j)
  \/ PublishCollection(j) \/ PublishTimesOut(j)
  \/ DeleteCollection(j) \/ DeleteFails(j)

Next ==
  \/ \E j \in Jobs :
       \/ \E target \in Colls \cup {New}, c \in Candidates : BeginPublish(j, target, c)
       \/ \E target \in Colls : BeginDelete(j, target)
       \/ ResolveRound(j) \/ ResolveDone(j) \/ EnsureOwned(j) \/ ReadFails(j)
       \/ Writes(j)
  \/ LateChildren \/ Crash \/ OthersEdit

Spec == Init /\ [][Next]_vars

----------------------------------------------------------------------------
(* What resolving means, said without rounds, frontiers or recursion on    *)
(* the code's data.                                                        *)

\* What is asked for: everything fewer than MAX_COLLECTION_DEPTH steps away.
Members(c) == IF c \in visible \cap Colls THEN Range(children[c]) ELSE {}

Reached(candidates) ==
  LET within[d \in 0 .. MAX_COLLECTION_DEPTH - 1] ==
        IF d = 0 THEN Range(candidates)
        ELSE within[d - 1] \cup UNION {Members(c) : c \in within[d - 1]}
  IN within[MAX_COLLECTION_DEPTH - 1]

\* Paths are sequences of positions through distinct collections that were
\* asked for; At says where they lead.
MaxLen == 2
Positions == UNION {[1 .. n -> 1 .. MaxLen] : n \in 1 .. Cardinality(Colls) + 1}

At(candidates, path) ==
  LET open == Reached(candidates) \cap visible \cap Colls
      at[n \in 1 .. Len(path)] ==
        LET list == IF n = 1 THEN candidates
                    ELSE IF at[n - 1] \in open THEN children[at[n - 1]] ELSE <<>>
        IN IF path[n] \in DOMAIN list THEN list[path[n]] ELSE None
  IN at

PathsTo(candidates, m) ==
  {p \in Positions : LET at == At(candidates, p) IN
                       /\ at[Len(p)] = m
                       /\ \A i, k \in DOMAIN p : i # k => at[i] # at[k]}

Precedes(p, q) ==
  \/ IsStrictPrefix(p, q)
  \/ \E i \in DOMAIN p \cap DOMAIN q : p[i] < q[i] /\ \A k \in 1 .. i - 1 : p[k] = q[k]

(* resolve_source_ids: if the Workshop stood still, the result lists every *)
(* visible mod within reach, exactly once, in the order in which a reader  *)
(* going through the lists from the top meets it; everything else that was *)
(* met and is not a collection that was opened is reported as unresolved.  *)
ResolutionFaithful ==
  \A j \in Jobs :
    /\ job[j].pc = "resolve" /\ job[j].still
    /\ job[j].frontier = <<>> \/ job[j].depth >= MAX_COLLECTION_DEPTH
    => LET c    == job[j].candidates
           out  == Outcome(j)
           best == [m \in Range(out.mods) |->
                      CHOOSE p \in PathsTo(c, m) : \A q \in PathsTo(c, m) : q = p \/ Precedes(p, q)]
           met  == {i \in Items : PathsTo(c, i) # {}}
       IN /\ Range(out.mods) = Reached(c) \cap visible \cap Mods
          /\ Range(out.unresolved) = met \ (Reached(c) \cap visible)
          /\ \A i, k \in DOMAIN out.mods : i < k => Precedes(best[out.mods[i]], best[out.mods[k]])

(* publish_collection_impl: however its calls time out or are refused, one *)
(* request makes at most one collection, and an empty one is left behind   *)
(* only by an answer that never came, a failed cleanup or a crash.         *)
NoStrayCollection ==
  /\ \A n, m \in NewIds : maker[n] # None /\ maker[n] = maker[m] => n = m
  /\ \A n \in NewIds :
       n \in visible /\ children[n] = <<>> /\ n \notin excused
         => job[maker[n]].pc \in {"children", "cleanup"} /\ job[maker[n]].target = n

(* "Membership first": an existing collection never carries the title of a *)
(* request whose mods it never held.                                       *)
TitleNeverAhead == title[Own] # None => <<title[Own], Own>> \in filled
=============================================================================
