--------------------------- MODULE DocrootProofs ---------------------------
(***************************************************************************)
(* What commands make of the docroot, for every set of deployments, paths, *)
(* commits and releases: proofs about Promotion.  First where deployments  *)
(* put links, and what of the site they leave alone while they overlap,    *)
(* fail and are killed; then where a command has its links, which of them  *)
(* are in place and what it has cleaned up, and the properties of links    *)
(* that follow; last those for which commands must run one at a time.      *)
(***************************************************************************)
EXTENDS PromotionProofs

\* A file system with links of a deployment at such paths only.
Lawful(fs) == \A q \in PublicPaths : fs[q] \in Deployments => q \in Territory(fs[q])

LinkInv == Lawful(node) /\ \A p \in PublicPaths : Lawful(tmp[p])

\* From the computation of the claims on, the claims have been accepted.
Late     == AfterSwitch \cup {"shed", "check", "place", "swap", "record", "drop"}
Visiting == {"tidy", "settle", "shed", "check", "place", "swap", "record", "drop", "retire"}

\* The release of a command past that point is not one that is refused, and the
\* paths it visits are claims of accepted commits of its deployment.
Accepts(d, l, j) ==
  /\ l \in Late => stored[d][j.run] \notin Rejected
  /\ j.kind = "deploy" => j.commit \in Repo[d]
  /\ j.links \subseteq Territory(d) /\ j.removed \subseteq Territory(d)
  /\ l \in Visiting => j.todo \subseteq Territory(d)
  /\ j.ours => l \in {"shed", "retire"} /\ j.todo # {}

Own(d) == Repo[d] \cup {Installed[d], NoCommit}

AcceptedOf(d) ==
  /\ Active(d) \notin Rejected
  /\ log[d] \subseteq Territory(d)
  /\ \A r \in Ids : stored[d][r] \in Own(d)
  /\ pc[d] # "idle" => Accepts(d, pc[d], job[d])

AcceptedInv == \A d \in Deployments : AcceptedOf(d)
-----------------------------------------------------------------------------
LEMMA AcceptedClaims ==
  ASSUME NEW d, NEW c \in Own(d), c \notin Rejected
  PROVE  ClaimsIn(c) \subseteq Territory(d)
BY PromotionAssumption DEF ClaimsIn, Territory, Own

LEMMA ActiveIsOwn ==
  ASSUME TypeInv, NEW d \in Deployments, AcceptedOf(d) PROVE Active(d) \in Own(d)
<1>1. current[d] = 0 \/ current[d] \in Ids
  BY PromotionAssumption DEF TypeInv, StoreOK, Ids
<1> QED BY <1>1 DEF Active, AcceptedOf, Own

LEMMA NoCommitAccepted == NoCommit \notin Rejected
BY PromotionAssumption

\* A path that an accepted commit claims is not a container.
LEMMA Apart ==
  ASSUME NEW d, NEW p \in Territory(d), NEW s \in PublicPaths,
         \A c \in Commits \ Rejected : \A q \in ClaimsOf[c] : ~ AtOrBelow(q, s)
  PROVE  ~ AtOrBelow(p, s) /\ p # s
BY DEF Territory, AtOrBelow

\* Links are lawful, and containers survive, where nothing changes but what
\* is beside the paths.
LEMMA LinksKeep ==
  ASSUME LinkInv, ContainersSurvive, node' = node,
         \A p \in PublicPaths : tmp'[p] = tmp[p] \/ tmp'[p] = Nothing
  PROVE  LinkInv' /\ ContainersSurvive'
<1>1. Lawful(Nothing)
  BY DocrootAssumption DEF Lawful, Nothing, Plain
<1>2. ContainersSurvive'
  BY DEF ContainersSurvive
<1>3. LinkInv'
  <2>1. Lawful(node)'
    BY DEF LinkInv, Lawful
  <2>2. ASSUME NEW p \in PublicPaths PROVE Lawful(tmp[p])'
    BY <1>1 DEF LinkInv, Lawful
  <2> QED BY <2>1, <2>2 DEF LinkInv
<1> QED BY <1>2, <1>3

LEMMA MkdirKeeps ==
  ASSUME TypeInv, LinkInv, ContainersSurvive, NEW p \in PublicPaths,
         node' = MkdirParents(node, p)
  PROVE  Lawful(node)' /\ ContainersSurvive'
<1>1. \A q \in PublicPaths : \/ node'[q] = node[q]
                             \/ node[q] = "none" /\ node'[q] = "bare"
  BY DEF MkdirParents
<1>2. Lawful(node)'
  BY <1>1, DocrootAssumption DEF Lawful, LinkInv, Plain
<1>3. ContainersSurvive'
  BY <1>1 DEF ContainersSurvive, Dirs
<1> QED BY <1>2, <1>3

LEMMA DisplacedLawful ==
  ASSUME LinkInv, NEW p \in PublicPaths PROVE Lawful(Displaced(p))
<1>1. \A q \in PublicPaths : Displaced(p)[q] \in {"none", "full", node[q]}
  BY DEF Displaced
<1> QED BY <1>1, DocrootAssumption DEF Lawful, LinkInv, Plain

LEMMA LinkStep ==
  ASSUME TypeInv, LinkInv, ContainersSurvive, NEW d \in Deployments,
         AcceptedOf(d), CommandStep(d)
  PROVE  LinkInv' /\ ContainersSurvive'
<1> DEFINE p == First(job[d].todo)
<1>1. /\ DocrootOK /\ pc[d] # "idle" /\ Accepts(d, pc[d], job[d])
      /\ pc[d] \in AtPath => job[d].todo # {}
      /\ job[d].todo \in SUBSET PublicPaths
  BY StepRuns DEF AcceptedOf, TypeInv, HasWork, ControlOK, Job
<1>2. job[d].todo # {} => p \in job[d].todo /\ p \in PublicPaths
  BY <1>1, FirstInSet
<1>3. CASE TidyOne(d) \/ Drop(d)
  <2>1. node' = node /\ \E q : tmp' = [tmp EXCEPT ![q] = Nothing]
    BY <1>3 DEF TidyOne, Drop
  <2>2. \A q \in PublicPaths : tmp'[q] = tmp[q] \/ tmp'[q] = Nothing
    BY <1>1, <2>1 DEF DocrootOK
  <2> QED BY <2>1, <2>2, LinksKeep
<1>4. CASE Unlink(d)
  <2>1. p \in Territory(d) /\ p \in PublicPaths /\ tmp' = tmp
    BY <1>1, <1>2, <1>4 DEF Unlink, Accepts, Visiting
  <2>2. node' = node \/ node' = [node EXCEPT ![p] = "none"]
    BY <1>4 DEF Unlink
  <2>3. \A q \in PublicPaths : node'[q] = node[q] \/ (q = p /\ node'[q] = "none")
    BY <1>1, <2>2 DEF DocrootOK
  <2>4. LinkInv'
    BY <2>1, <2>3, DocrootAssumption DEF LinkInv, Lawful, Plain
  <2>5. ContainersSurvive'
    BY <2>1, <2>3, Apart DEF ContainersSurvive
  <2> QED BY <2>4, <2>5
<1>5. CASE Place(d)
  <2>1. p \in Territory(d) /\ p \in PublicPaths
    BY <1>1, <1>2, <1>5 DEF Place, Accepts, Visiting, AtPath
  <2>2. node' = MkdirParents(node, p) /\ tmp' = [tmp EXCEPT ![p] = LinkAt(p, d)]
    BY <1>5 DEF Place
  <2>3. Lawful(LinkAt(p, d))
    BY <2>1, DocrootAssumption DEF Lawful, LinkAt, Nothing, Plain
  <2>4. ASSUME NEW q \in PublicPaths PROVE Lawful(tmp'[q])
    <3>1. tmp'[q] = tmp[q] \/ tmp'[q] = LinkAt(p, d)
      BY <1>1, <2>2 DEF DocrootOK
    <3> QED BY <2>3, <3>1 DEF LinkInv
  <2>5. Lawful(node)' /\ ContainersSurvive'
    BY <2>1, <2>2, MkdirKeeps
  <2> QED BY <2>4, <2>5 DEF LinkInv, Lawful
<1>6. CASE CannotPlace(d)
  <2>1. p \in PublicPaths
    BY <1>1, <1>2, <1>6 DEF CannotPlace, AtPath
  <2>2. tmp' = tmp /\ (node' = MkdirParents(node, p) \/ node' = node)
    BY <1>6 DEF CannotPlace
  <2>3. CASE node' = node
    BY <2>2, <2>3, LinksKeep
  <2>4. CASE node' = MkdirParents(node, p)
    <3>1. Lawful(node)' /\ ContainersSurvive'
      BY <2>1, <2>4, MkdirKeeps
    <3> QED BY <2>2, <3>1 DEF LinkInv, Lawful
  <2> QED BY <2>2, <2>3, <2>4
<1>7. CASE Swap(d)
  <2>1. p \in Territory(d) /\ p \in PublicPaths
    BY <1>1, <1>2, <1>7 DEF Swap, Accepts, Visiting, AtPath
  <2>2. node' = Graft(node, p, tmp[p]) /\ tmp' = Exchanged(p)
    BY <1>7 DEF Swap
  <2>3. Lawful(node)'
    BY <2>1, <2>2 DEF Graft, Lawful, LinkInv
  <2>4. ContainersSurvive'
    BY <2>1, <2>2, Apart DEF Graft, ContainersSurvive
  <2>5. ASSUME NEW q \in PublicPaths PROVE Lawful(tmp'[q])
    <3>1. tmp'[q] \in {Nothing, Displaced(p), tmp[q]}
      BY <2>2 DEF Exchanged
    <3>2. Lawful(Nothing)
      BY DocrootAssumption DEF Lawful, Nothing, Plain
    <3> QED BY <2>1, <3>1, <3>2, DisplacedLawful DEF LinkInv
  <2> QED BY <2>3, <2>4, <2>5 DEF LinkInv, Lawful
<1>8. ASSUME UNCHANGED <<node, tmp>> PROVE LinkInv' /\ ContainersSurvive'
  BY <1>8, LinksKeep
<1> QED
  BY <1>3, <1>4, <1>5, <1>6, <1>7, <1>8
  DEF CommandStep, TidyDone, Probe, NoSuchRelease, Mark, Scan, Adopt, Compute,
      Refuse, Inspect, StartReconcile, Check, Reject, Stray, CannotSwap, Record,
      SwitchCurrent, DoneRetiring, Verify, CannotVerify, RunHook, Unmark, Prune,
      DonePruning, Document, Fail, docroot
-----------------------------------------------------------------------------
LEMMA GotoAccepts ==
  ASSUME TypeInv, NEW d \in Deployments, AcceptedOf(d), NEW l, NEW j, Goto(d, l, j),
         UNCHANGED <<stored, current>>, log'[d] \subseteq Territory(d), Accepts(d, l, j)
  PROVE  AcceptedOf(d)'
<1>1. pc'[d] = l /\ job'[d] = j
  BY DEF Goto, TypeInv, ControlOK
<1>2. Active(d)' = Active(d)
  BY DEF Active
<1> QED BY <1>1, <1>2 DEF AcceptedOf, Accepts

\* A step that removes releases, at most, and ends the command.
LEMMA EndAccepts ==
  ASSUME NEW d \in Deployments, AcceptedOf(d), pc'[d] = "idle", current' = current,
         log' = log,
         \A r \in Ids : stored'[d][r] = stored[d][r] \/ stored'[d][r] = NoCommit,
         TypeInv
  PROVE  AcceptedOf(d)'
<1>1. current[d] = 0 \/ current[d] \in Ids
  BY PromotionAssumption DEF TypeInv, StoreOK, Ids
<1>2. Active(d)' \in {Active(d), NoCommit}
  BY <1>1 DEF Active
<1> QED BY <1>2, NoCommitAccepted DEF AcceptedOf, Own

LEMMA UnwindAccepts ==
  ASSUME TypeInv, NEW d \in Deployments, AcceptedOf(d), Unwind(d)
  PROVE  AcceptedOf(d)'
<1>1. pc'[d] = "idle" /\ current' = current /\ log' = log
  BY DEF Unwind, Exit, TypeInv, ControlOK
<1>2. \A r \in Ids : stored'[d][r] = stored[d][r] \/ stored'[d][r] = NoCommit
  BY DEF Unwind, TypeInv, StoreOK
<1> QED BY <1>1, <1>2, EndAccepts

LEMMA AcceptedStep ==
  ASSUME TypeInv, StoreInv, LinkInv, NEW d \in Deployments, AcceptedOf(d),
         CommandStep(d)
  PROVE  AcceptedOf(d)'
<1> DEFINE j == job[d]
           p == First(j.todo)
<1>j. /\ j \in RunningJob /\ j \in Job /\ j.run \in Ids /\ j.run # 0
      /\ pc[d] # "idle" /\ Accepts(d, pc[d], j) /\ Phase(d, pc[d], j)
  BY StepRuns DEF AcceptedOf, TypeInv, HasWork, RunningJob, StoreInv, Ids
<1>a. /\ Active(d) \notin Rejected /\ Active(d) \in Own(d)
      /\ log[d] \subseteq Territory(d) /\ \A r \in Ids : stored[d][r] \in Own(d)
  BY ActiveIsOwn DEF AcceptedOf
<1> USE DEF Late, AfterSwitch, BeforeSwitch, Labels, Visiting
<1>1. ASSUME NEW l, NEW k, Goto(d, l, k), UNCHANGED <<stored, current>>,
             log'[d] \subseteq Territory(d), Accepts(d, l, k)
      PROVE  AcceptedOf(d)'
  BY <1>1, GotoAccepts
<1>2. CASE TidyOne(d)
  <2> DEFINE k == [j EXCEPT !.todo = @ \ {p}]
  <2>1. Accepts(d, pc[d], k)
    BY <1>2, <1>j DEF TidyOne, Accepts, Job
  <2>2. Goto(d, pc[d], k) /\ UNCHANGED <<stored, current, log>>
    BY <1>2 DEF TidyOne, store
  <2> HIDE DEF k
  <2> QED BY <2>1, <2>2, <1>1, <1>a
<1>3. CASE TidyDone(d)
  <2>1. UNCHANGED <<stored, current>> /\ log'[d] \subseteq Territory(d)
    BY <1>3 DEF TidyDone, TypeInv, StoreOK
  <2>2. CASE pc[d] = "tidy"
    <3>1. Goto(d, "probe", j) /\ Accepts(d, "probe", j)
      BY <1>3, <1>j, <2>2 DEF TidyDone, Accepts
    <3> QED BY <2>1, <3>1, <1>1, <1>a
  <2>3. CASE pc[d] # "tidy"
    <3> DEFINE k == [j EXCEPT !.todo = j.removed]
    <3>1. Goto(d, "retire", k) /\ pc[d] = "settle"
      BY <1>3, <2>3 DEF TidyDone
    <3>2. Accepts(d, "retire", k)
      BY <1>j, <3>1 DEF Accepts, Job
    <3> HIDE DEF k
    <3> QED BY <2>1, <3>1, <3>2, <1>1, <1>a
  <2> QED BY <2>2, <2>3
<1>4. CASE Probe(d)
  <2>1. PICK l \in {"mark", "scan"} : Goto(d, l, j) /\ UNCHANGED <<stored, current, log>>
    BY <1>4 DEF Probe, store
  <2>2. Accepts(d, l, j)
    BY <1>4, <1>j, <2>1 DEF Probe, Accepts
  <2> QED BY <2>1, <2>2, <1>1, <1>a
<1>5. CASE Mark(d)
  <2>1. Goto(d, "scan", [j EXCEPT !.owned = TRUE]) /\ UNCHANGED <<stored, current, log>>
    BY <1>5 DEF Mark, store
  <2>2. Accepts(d, "scan", [j EXCEPT !.owned = TRUE])
    BY <1>5, <1>j DEF Mark, Accepts, Job
  <2> QED BY <2>1, <2>2, <1>1, <1>a
<1>6. CASE Scan(d)
  <2> DEFINE k == [j EXCEPT !.links = Links(d)]
  <2>1. PICK l \in {"adopt", "compute"} : Goto(d, l, k) /\ UNCHANGED <<stored, current, log>>
    BY <1>6 DEF Scan, store
  <2>2. Links(d) \subseteq Territory(d)
    BY DEF Links, LinkInv, Lawful
  <2>3. Accepts(d, l, k)
    BY <1>6, <1>j, <2>1, <2>2 DEF Scan, Accepts, Job
  <2> HIDE DEF k
  <2> QED BY <2>1, <2>3, <1>1, <1>a
<1>7. CASE Adopt(d)
  <2>1. /\ pc'[d] = "compute" /\ job'[d] = [j EXCEPT !.fresh = TRUE]
        /\ UNCHANGED <<current, log>>
    BY <1>7 DEF Adopt, Adopted, Goto, TypeInv, ControlOK
  <2>2. \A r \in Ids \ {j.run} : stored'[d][r] = stored[d][r]
    BY <1>7 DEF Adopt, TypeInv, StoreOK
  <2>3. current[d] # j.run /\ (current[d] = 0 \/ current[d] \in Ids)
    BY <1>7, <1>j, PromotionAssumption DEF Adopt, Phase, TypeInv, StoreOK, Ids
  <2>4. Active(d)' = Active(d)
    BY <2>1, <2>2, <2>3 DEF Active
  <2>5. /\ job'[d].links = j.links /\ job'[d].removed = j.removed
        /\ job'[d].ours = j.ours /\ job'[d].commit = j.commit
        /\ job'[d].kind = j.kind /\ pc[d] = "adopt"
    BY <1>7, <1>j, <2>1 DEF Adopt, Job
  <2>6. Accepts(d, pc[d], job[d])'
    BY <1>j, <2>1, <2>5 DEF Accepts
  <2>7. stored'[d][j.run] = j.commit /\ j.commit \in Repo[d]
    BY <1>7, <1>j DEF Adopt, TypeInv, StoreOK, Phase, Accepts
  <2> QED BY <1>a, <2>1, <2>2, <2>4, <2>6, <2>7 DEF AcceptedOf, Own
<1>8. CASE Compute(d)
  <2> DEFINE k == [Validated(j) EXCEPT !.links = {}, !.removed = Removals(d),
                                       !.todo = Blocking(d, Removals(d))]
  <2>1. Goto(d, "shed", k) /\ UNCHANGED <<stored, current, log>> /\ pc[d] = "compute"
    BY <1>8 DEF Compute, store
  <2>2. stored[d][j.run] \notin Rejected
    BY <1>8, <1>j DEF Compute, Acceptable, Coming
  <2>3. Removals(d) \subseteq Territory(d)
    BY <1>a, <1>j, AcceptedClaims DEF Removals, OldClaims, Accepts
  <2>4. Blocking(d, Removals(d)) \subseteq Territory(d)
    BY <2>3 DEF Blocking
  <2>5. /\ k.run = j.run /\ k.links = {} /\ k.removed = Removals(d)
        /\ k.todo = Blocking(d, Removals(d)) /\ k.ours = j.ours
        /\ k.kind = j.kind /\ k.commit = j.commit
    BY <1>j DEF Validated, Job
  <2>6. Accepts(d, "shed", k)
    BY <1>j, <2>1, <2>2, <2>3, <2>4, <2>5 DEF Accepts
  <2> HIDE DEF k
  <2> QED BY <2>1, <2>6, <1>1, <1>a
<1>9. CASE Inspect(d)
  <2> DEFINE k == IF node[p] = d THEN [j EXCEPT !.ours = TRUE]
                                 ELSE [j EXCEPT !.todo = @ \ {p}]
  <2>1. Goto(d, pc[d], k) /\ UNCHANGED <<stored, current, log>>
    BY <1>9 DEF Inspect, store
  <2>2. Accepts(d, pc[d], k)
    BY <1>9, <1>j DEF Inspect, Accepts, Job
  <2> HIDE DEF k
  <2> QED BY <2>1, <2>2, <1>1, <1>a
<1>10. CASE Unlink(d)
  <2> DEFINE k == [j EXCEPT !.todo = @ \ {p}, !.ours = FALSE]
  <2>1. Goto(d, pc[d], k) /\ UNCHANGED <<stored, current, log>>
    BY <1>10 DEF Unlink, store
  <2>2. /\ k.run = j.run /\ k.links = j.links /\ k.removed = j.removed
        /\ k.todo \subseteq j.todo /\ k.ours = FALSE
        /\ k.kind = j.kind /\ k.commit = j.commit
    BY <1>j DEF Job
  <2>3. Accepts(d, pc[d], k)
    BY <1>j, <2>2 DEF Accepts
  <2> HIDE DEF k
  <2> QED BY <2>1, <2>3, <1>1, <1>a
<1>11. CASE StartReconcile(d)
  <2> DEFINE k == [j EXCEPT !.todo = NewClaims(d)]
  <2>1. Goto(d, "check", k) /\ UNCHANGED <<stored, current>> /\ log'[d] = {}
    BY <1>11 DEF StartReconcile, TypeInv, StoreOK
  <2>2. NewClaims(d) \subseteq Territory(d)
    BY <1>11, <1>a, <1>j, AcceptedClaims DEF StartReconcile, NewClaims, Coming, Accepts
  <2>3. Accepts(d, "check", k)
    BY <1>11, <1>j, <2>2 DEF StartReconcile, Accepts, Job
  <2> HIDE DEF k
  <2> QED BY <2>1, <2>3, <1>1, <1>a
<1>12. CASE Check(d) \/ Place(d) \/ Record(d)
  <2>1. PICK l \in {"place", "swap", "drop"} :
               Goto(d, l, j) /\ UNCHANGED <<stored, current>>
    BY <1>12 DEF Check, Place, Record, store
  <2>2. Accepts(d, l, j)
    BY <1>12, <1>j, <2>1 DEF Check, Place, Record, Accepts
  <2>3. log'[d] \subseteq log[d] \cup j.todo
    <3>1. Record(d) => p \in j.todo
      BY <1>j, FirstInSet DEF Record, TypeInv, HasWork, AtPath, Job
    <3> QED BY <1>12, <3>1 DEF Check, Place, Record, store, TypeInv, StoreOK
  <2>4. pc[d] \in Visiting
    BY <1>12 DEF Check, Place, Record
  <2> QED BY <1>j, <2>1, <2>2, <2>3, <2>4, <1>1, <1>a DEF Accepts
<1>13. CASE Stray(d) \/ Swap(d) \/ Drop(d)
  <2>1. PICK l \in {"check", "record"}, k \in {j, NextClaim(j),
                     [NextClaim(j) EXCEPT !.strayed = @ \cup {p}]} :
          Goto(d, l, k) /\ UNCHANGED <<stored, current, log>>
    BY <1>13 DEF Stray, Swap, Drop, store
  <2>2. /\ k.run = j.run /\ k.links = j.links /\ k.removed = j.removed
        /\ k.todo \subseteq j.todo /\ k.ours = j.ours
        /\ k.kind = j.kind /\ k.commit = j.commit
    BY <1>j, <2>1 DEF NextClaim, Job
  <2>3. pc[d] \in {"place", "swap", "drop"}
    BY <1>13 DEF Stray, Swap, Drop
  <2>4. Accepts(d, l, k)
    BY <1>j, <2>1, <2>2, <2>3 DEF Accepts
  <2> QED BY <2>1, <2>4, <1>1, <1>a
<1>14. CASE SwitchCurrent(d)
  <2>1. /\ pc'[d] = "settle" /\ job'[d] = [j EXCEPT !.todo = log[d]]
        /\ UNCHANGED <<stored, log>> /\ current'[d] = j.run
    BY <1>14 DEF SwitchCurrent, Goto, TypeInv, ControlOK, StoreOK
  <2>2. stored[d][j.run] \notin Rejected
    BY <1>14, <1>j DEF SwitchCurrent, Accepts
  <2>3. Active(d)' \notin Rejected
    BY <1>j, <2>1, <2>2 DEF Active
  <2>4. Accepts(d, "settle", job'[d])
    BY <1>14, <1>a, <1>j, <2>1, <2>2 DEF SwitchCurrent, Accepts, Job
  <2> QED BY <1>a, <2>1, <2>3, <2>4 DEF AcceptedOf, Accepts
<1>15. CASE DoneRetiring(d) \/ Verify(d) \/ RunHook(d) \/ DonePruning(d)
  <2>1. PICK l \in {"verify", "hook", "unmark", "document"} :
               Goto(d, l, j) /\ UNCHANGED <<stored, current, log>>
    BY <1>15 DEF DoneRetiring, Verify, RunHook, DonePruning, store
  <2>2. pc[d] \in {"retire", "verify", "hook", "prune"} /\ ~ j.ours
    BY <1>15, <1>j DEF DoneRetiring, Verify, RunHook, DonePruning, Accepts, Job
  <2>3. Accepts(d, l, j)
    BY <1>j, <2>1, <2>2 DEF Accepts
  <2> QED BY <2>1, <2>3, <1>1, <1>a
<1>16. CASE Unmark(d)
  <2>1. UNCHANGED <<stored, current, log>>
    BY <1>16 DEF Unmark, store
  <2>2. CASE j.kind = "deploy"
    <3>1. Goto(d, "prune", [j EXCEPT !.owned = FALSE])
      BY <1>16, <2>2 DEF Unmark
    <3>2. Accepts(d, "prune", [j EXCEPT !.owned = FALSE])
      BY <1>16, <1>j DEF Unmark, Accepts, Job
    <3> QED BY <2>1, <3>1, <3>2, <1>1, <1>a
  <2>3. CASE j.kind # "deploy"
    <3>1. pc'[d] = "idle"
      BY <1>16, <2>3 DEF Unmark, Exit, TypeInv, ControlOK
    <3> QED BY <2>1, <3>1, EndAccepts
  <2> QED BY <2>2, <2>3
<1>17. CASE Prune(d)
  <2>1. /\ UNCHANGED <<current, pc, job, log>>
        /\ \A r \in Ids : stored'[d][r] = stored[d][r] \/ stored'[d][r] = NoCommit
    BY <1>17 DEF Prune, TypeInv, StoreOK
  <2>2. current[d] = 0 \/ current[d] \in Ids
    BY PromotionAssumption DEF TypeInv, StoreOK, Ids
  <2>3. Active(d)' \in {Active(d), NoCommit}
    BY <2>1, <2>2 DEF Active
  <2>4. Accepts(d, pc[d], j)'
    BY <1>j, <2>1, NoCommitAccepted DEF Accepts
  <2> QED BY <1>a, <2>1, <2>3, <2>4, NoCommitAccepted DEF AcceptedOf, Accepts, Own
<1>18. CASE NoSuchRelease(d) \/ Document(d)
  <2>1. pc'[d] = "idle" /\ UNCHANGED <<stored, current, log>>
    BY <1>18 DEF NoSuchRelease, Document, Exit, store, TypeInv, ControlOK
  <2> QED BY <2>1, EndAccepts
<1>19. CASE Unwind(d)
  BY <1>19, UnwindAccepts
<1> QED
  BY <1>2, <1>3, <1>4, <1>5, <1>6, <1>7, <1>8, <1>9, <1>10, <1>11, <1>12, <1>13,
     <1>14, <1>15, <1>16, <1>17, <1>18, <1>19
  DEF CommandStep, Refuse, Reject, CannotPlace, CannotSwap, CannotVerify, Fail
-----------------------------------------------------------------------------
\* The steps of one deployment leave what the store of the others holds.
LEMMA OthersStore ==
  ASSUME TypeInv, NEW d \in Deployments, NEW e \in Deployments \ {d},
         Start(e) \/ CommandStep(e) \/ Fault(e) \/ Crash(e)
  PROVE  current'[d] = current[d] /\ incoming'[d] = incoming[d] /\ log'[d] = log[d]
<1> USE DEF TypeInv, StoreOK, store
<1>1. ASSUME \/ UNCHANGED <<current, incoming, log>>
             \/ \E S : log' = [log EXCEPT ![e] = S] /\ UNCHANGED <<current, incoming>>
             \/ \E S : incoming' = [incoming EXCEPT ![e] = S] /\ UNCHANGED <<current, log>>
             \/ \E r : current' = [current EXCEPT ![e] = r] /\ UNCHANGED <<incoming, log>>
      PROVE  /\ current'[d] = current[d] /\ incoming'[d] = incoming[d]
             /\ log'[d] = log[d]
  BY <1>1
<1>2. Unwind(e) => \/ UNCHANGED <<current, incoming, log>>
                  \/ \E S : /\ incoming' = [incoming EXCEPT ![e] = S]
                            /\ UNCHANGED <<current, log>>
  BY DEF Unwind
<1>3. CASE Start(e)
  BY <1>1, <1>3 DEF Start, NoOp, StartDeploy, StartRollback, SweepStaging
<1>4. CASE Fault(e) \/ Crash(e)
  BY <1>1, <1>2, <1>4 DEF Fault, Crash
<1>5. CASE TidyDone(e) \/ StartReconcile(e) \/ Record(e)
  BY <1>1, <1>5 DEF TidyDone, StartReconcile, Record
<1>6. CASE Adopt(e) \/ SwitchCurrent(e)
  BY <1>1, <1>6 DEF Adopt, SwitchCurrent
<1>7. CASE CommandStep(e) /\ UNCHANGED <<current, incoming, log>>
  BY <1>1, <1>7
<1>8. CASE Unwind(e)
  BY <1>1, <1>2, <1>8
<1> QED
  BY <1>3, <1>4, <1>5, <1>6, <1>7, <1>8
  DEF CommandStep, TidyOne, Probe, NoSuchRelease, Mark, Scan, Compute, Refuse, Inspect,
      Unlink, Check, Reject, Place, CannotPlace, Stray, Swap, CannotSwap, Drop,
      DoneRetiring, Verify, CannotVerify, RunHook, Unmark, Prune, DonePruning,
      Document, Fail

LEMMA OthersActive ==
  ASSUME TypeInv, NEW d \in Deployments, NEW e \in Deployments \ {d},
         Start(e) \/ CommandStep(e) \/ Fault(e) \/ Crash(e), AcceptedOf(d)
  PROVE  AcceptedOf(d)'
<1>1. pc'[d] = pc[d] /\ job'[d] = job[d] /\ stored'[d] = stored[d]
  BY OthersUntouched
<1>2. current'[d] = current[d] /\ log'[d] = log[d]
  BY OthersStore
<1> QED BY <1>1, <1>2 DEF AcceptedOf, Accepts, Active

LEMMA StartAccepts ==
  ASSUME TypeInv, NEW d \in Deployments, AcceptedOf(d), Start(d)
  PROVE  AcceptedOf(d)'
<1>1. CASE \E c \in Repo[d] : NoOp(d, c)
  BY <1>1 DEF NoOp, Begin, AcceptedOf, Accepts, Active
<1>2. ASSUME NEW k, Goto(d, "tidy", k), UNCHANGED <<stored, current, log>>,
             k.kind = "deploy" => k.commit \in Repo[d], k.todo = log[d],
             k.links = {}, k.removed = {}, k.ours = FALSE
      PROVE  AcceptedOf(d)'
  <2>1. Accepts(d, "tidy", k)
    BY <1>2 DEF AcceptedOf, Accepts, Late, Visiting, AfterSwitch, BeforeSwitch
  <2> QED BY <1>2, <2>1, GotoAccepts DEF AcceptedOf
<1>3. CASE \E c \in Repo[d], force \in ForceModes : StartDeploy(d, c, force)
  BY <1>2, <1>3 DEF StartDeploy, NoJob
<1>4. CASE \E r \in RollbackIds : StartRollback(d, r)
  BY <1>2, <1>4 DEF StartRollback, NoJob, store
<1> QED BY <1>1, <1>3, <1>4 DEF Start

\* The inductive invariant.
SiteInv == LinkInv /\ AcceptedInv /\ ContainersSurvive

LEMMA SiteInit == Init => SiteInv
<1> SUFFICES ASSUME Init PROVE SiteInv
  OBVIOUS
<1>1. \A d \in Deployments : Installed[d] \notin Rejected
  BY PromotionAssumption
<1>2. ASSUME NEW p \in PublicPaths
      PROVE  \/ node[p] = SiteNode[p]
             \/ node[p] \in Deployments /\ p \in ClaimsIn(Installed[node[p]])
  BY DEF Init, InitialNode
<1>3. \A d \in Deployments : ClaimsIn(Installed[d]) \subseteq Territory(d)
  BY <1>1, AcceptedClaims DEF Own
<1>4. \A p \in PublicPaths :
        \/ node[p] = SiteNode[p]
        \/ node[p] \in Deployments /\ p \in Territory(node[p])
  BY <1>2, <1>3
<1>5. ContainersSurvive
  BY <1>4, Apart DEF ContainersSurvive
<1>6. LinkInv
  <2>1. Lawful(node)
    BY <1>4, PromotionAssumption, DocrootAssumption DEF Lawful
  <2>2. \A p \in PublicPaths : Lawful(tmp[p])
    BY DocrootAssumption DEF Init, Lawful, Nothing, Plain
  <2> QED BY <2>1, <2>2 DEF LinkInv
<1>7. AcceptedInv
  <2> SUFFICES ASSUME NEW d \in Deployments PROVE Active(d) \notin Rejected
    BY DEF Init, AcceptedInv, AcceptedOf, Own
  <2>1. 1 \in Ids
    BY PromotionAssumption DEF Ids
  <2>2. stored[d][1] = Installed[d] /\ current[d] \in {0, 1}
    BY <2>1 DEF Init
  <2> QED BY <1>1, <2>2, NoCommitAccepted DEF Active
<1> QED BY <1>5, <1>6, <1>7 DEF SiteInv

LEMMA SiteNext == TypeInv /\ StoreInv /\ SiteInv /\ [Next]_vars => SiteInv'
<1> SUFFICES ASSUME TypeInv, StoreInv, SiteInv, [Next]_vars PROVE SiteInv'
  OBVIOUS
<1> USE DEF SiteInv
<1>1. ASSUME NEW d \in Deployments, CommandStep(d) PROVE SiteInv'
  <2>1. LinkInv' /\ ContainersSurvive'
    BY <1>1, LinkStep DEF AcceptedInv
  <2>2. AcceptedInv'
    BY <1>1, AcceptedStep, OthersActive DEF AcceptedInv
  <2> QED BY <2>1, <2>2
<1>2. ASSUME NEW d \in Deployments, Start(d) PROVE SiteInv'
  <2>1. node' = node /\ tmp' = tmp
    BY <1>2 DEF Start, NoOp, StartDeploy, StartRollback, docroot
  <2>2. AcceptedInv'
    BY <1>2, StartAccepts, OthersActive DEF AcceptedInv
  <2> QED BY <2>1, <2>2, LinksKeep
<1>3. ASSUME NEW d \in Deployments, Fault(d) PROVE SiteInv'
  <2>1. node' = node /\ Unwind(d)
    BY <1>3 DEF Fault
  <2>2. \A q \in PublicPaths : tmp'[q] = tmp[q] \/ tmp'[q] = Nothing
    BY <1>3 DEF Fault, TypeInv, DocrootOK
  <2>3. AcceptedInv'
    BY <1>3, <2>1, UnwindAccepts, OthersActive DEF AcceptedInv
  <2> QED BY <2>1, <2>2, <2>3, LinksKeep
<1>4. ASSUME NEW d \in Deployments, Crash(d) PROVE SiteInv'
  <2>1. /\ node' = node /\ tmp' = tmp /\ pc'[d] = "idle"
        /\ UNCHANGED <<stored, current, log>>
    BY <1>4 DEF Crash, Exit, docroot, store, TypeInv, ControlOK
  <2>2. AcceptedOf(d)'
    BY <2>1, EndAccepts DEF AcceptedInv
  <2>3. AcceptedInv'
    BY <1>4, <2>2, OthersActive DEF AcceptedInv
  <2> QED BY <2>1, <2>3, LinksKeep
<1>5. CASE CoreUpdate \/ UNCHANGED vars
  <2>1. UNCHANGED <<node, tmp, stored, current, log, pc, job>>
    BY <1>5 DEF CoreUpdate, vars, docroot, store
  <2>2. AcceptedInv'
    BY <2>1 DEF AcceptedInv, AcceptedOf, Accepts, Active
  <2> QED BY <2>1, <2>2, LinksKeep
<1> QED BY <1>1, <1>2, <1>3, <1>4, <1>5 DEF Next

\* What the site has at a path that no accepted commit claims stays there, whoever
\* publishes below it, fails or is killed.
THEOREM ContainersStay == Spec => []ContainersSurvive
<1>1. Inv /\ SiteInv /\ [Next]_vars => SiteInv'
  BY SiteNext DEF Inv
<1>2. SiteInv => ContainersSurvive
  BY DEF SiteInv
<1> QED BY <1>1, <1>2, InvHolds, SiteInit, PTL DEF Spec
-----------------------------------------------------------------------------
\* At most MaxActive commands run; stated for one, where no other interferes.
RunInv ==
  /\ IsFiniteSet(Running)
  /\ MaxActive = 1 => \A d, e \in Running : d = e

LEMMA RunInit == Init => RunInv
<1> SUFFICES ASSUME Init PROVE RunInv
  OBVIOUS
<1>1. Running = {}
  BY DEF Init, Running
<1> QED BY <1>1, FS_EmptySet DEF RunInv

LEMMA RunNext == TypeInv /\ RunInv /\ [Next]_vars => RunInv'
<1> SUFFICES ASSUME TypeInv, RunInv, [Next]_vars PROVE RunInv'
  OBVIOUS
<1>1. CASE \E d \in Deployments : Start(d)
  <2>1. PICK d \in Deployments : Start(d)
    BY <1>1
  <2>2. Running' \subseteq Running \cup {d}
    BY <2>1 DEF Start, NoOp, StartDeploy, StartRollback, Goto, Running, TypeInv, ControlOK
  <2>3. Cardinality(Running) < MaxActive
    BY <2>1 DEF Start, NoOp, StartDeploy, StartRollback, Begin
  <2>4. IsFiniteSet(Running \cup {d})
    BY FS_AddElement DEF RunInv
  <2>5. MaxActive = 1 => Running = {}
    BY <2>3, FS_CardinalityType, FS_EmptySet DEF RunInv
  <2> QED BY <2>2, <2>4, <2>5, FS_Subset DEF RunInv
<1>2. CASE ~ \E d \in Deployments : Start(d)
  <2>1. Running' \subseteq Running
    <3> SUFFICES ASSUME NEW d \in Deployments, pc[d] = "idle" PROVE pc'[d] = "idle"
      BY DEF Running
    <3>1. ASSUME NEW e \in Deployments, CommandStep(e) \/ Fault(e) \/ Crash(e)
          PROVE  pc'[d] = pc[d]
      <4>1. e # d
        BY <3>1, StepRuns DEF Fault, Crash, Fallible
      <4> QED BY <3>1, <4>1, OthersUntouched
    <3> QED BY <1>2, <3>1 DEF Next, CoreUpdate, vars
  <2> QED BY <2>1, FS_Subset DEF RunInv
<1> QED BY <1>1, <1>2
-----------------------------------------------------------------------------
\* What a command leaves alone: the paths that are neither claims of its
\* deployment nor below one.  They can at most become directories.
Left(a) == /\ tmp'[a] = tmp[a]
           /\ node'[a] = node[a] \/ (node[a] = "none" /\ node'[a] = "bare")

\* A directory is made on the way to a claim only.
Passed(e, a) == node'[a] # node[a] => \E q \in Territory(e) : Ancestor(a, q)

LEMMA Reach ==
  ASSUME TypeInv, NEW e \in Deployments, AcceptedOf(e),
         Start(e) \/ CommandStep(e) \/ Fault(e) \/ Crash(e),
         NEW a \in PublicPaths, \A q \in Territory(e) : ~ AtOrBelow(q, a)
  PROVE  Left(a) /\ Passed(e, a)
<1> DEFINE p == First(job[e].todo)
<1>1. /\ DocrootOK /\ (pc[e] \in AtPath => job[e].todo # {})
      /\ job[e].todo \in SUBSET PublicPaths
      /\ pc[e] # "idle" => Accepts(e, pc[e], job[e])
  BY DEF AcceptedOf, TypeInv, HasWork, ControlOK, Job
<1>2. pc[e] \in Visiting /\ job[e].todo # {} => ~ AtOrBelow(p, a)
  <2>1. job[e].todo # {} => p \in job[e].todo
    BY <1>1, FirstInSet
  <2> QED BY <1>1, <2>1 DEF Accepts, Visiting
<1>3. \A q \in PublicPaths : ~ AtOrBelow(q, a) => q # a
  BY DEF AtOrBelow
<1>4. CASE UNCHANGED <<node, tmp>>
  BY <1>4 DEF Left, Passed
<1>5. CASE TidyOne(e) \/ Drop(e)
  <2>1. node' = node /\ tmp' = [tmp EXCEPT ![p] = Nothing] /\ p # a
    BY <1>1, <1>2, <1>5 DEF TidyOne, Drop, Visiting, AtPath, AtOrBelow
  <2> QED BY <1>1, <2>1 DEF Left, Passed, DocrootOK
<1>6. CASE Unlink(e)
  <2>1. tmp' = tmp /\ (node' = node \/ node' = [node EXCEPT ![p] = "none"]) /\ p # a
    BY <1>1, <1>2, <1>6 DEF Unlink, Visiting, AtOrBelow, Accepts
  <2> QED BY <1>1, <2>1 DEF Left, Passed, DocrootOK
<1>7. CASE Place(e)
  <2>1. /\ node' = MkdirParents(node, p) /\ tmp' = [tmp EXCEPT ![p] = LinkAt(p, e)]
        /\ p # a /\ p \in Territory(e)
    BY <1>1, <1>2, <1>7, FirstInSet DEF Place, Accepts, Visiting, AtPath, AtOrBelow
  <2> QED BY <1>1, <2>1 DEF Left, Passed, DocrootOK, MkdirParents
<1>8. CASE CannotPlace(e)
  <2>1. /\ node' = MkdirParents(node, p) \/ node' = node
        /\ tmp' = tmp /\ p \in Territory(e)
    BY <1>1, <1>8, FirstInSet DEF CannotPlace, Accepts, Visiting, AtPath
  <2> QED BY <2>1 DEF Left, Passed, MkdirParents
<1>9. CASE Swap(e)
  <2>1. node' = Graft(node, p, tmp[p]) /\ tmp' = Exchanged(p) /\ ~ AtOrBelow(p, a)
    BY <1>1, <1>2, <1>9 DEF Swap, Visiting, AtPath
  <2> QED BY <2>1 DEF Left, Passed, Graft, Exchanged, AtOrBelow
<1>10. CASE Fault(e)
  <2>1. node' = node /\ (tmp' = tmp \/ (pc[e] = "swap" /\ tmp' = [tmp EXCEPT ![p] = Nothing]))
    BY <1>10 DEF Fault
  <2>2. pc[e] = "swap" => p # a
    BY <1>1, <1>2 DEF Visiting, AtPath, AtOrBelow
  <2> QED BY <1>1, <2>1, <2>2 DEF Left, Passed, DocrootOK
<1> QED
  BY <1>4, <1>5, <1>6, <1>7, <1>8, <1>9, <1>10
  DEF CommandStep, Start, NoOp, StartDeploy, StartRollback, Crash, TidyDone, Probe,
      NoSuchRelease, Mark, Scan, Adopt, Compute, Refuse, Inspect, StartReconcile, Check,
      Reject, Stray, CannotSwap, Record, SwitchCurrent, DoneRetiring, Verify,
      CannotVerify, RunHook, Unmark, Prune, DonePruning, Document, Fail, docroot

\* At or above a path that no other deployment works at.
Above(d, a) == \E p \in PublicPaths : Undisputed(d, p) /\ AtOrBelow(a, p)

LEMMA UndisputedAbove ==
  ASSUME NEW d, NEW p \in PublicPaths, Undisputed(d, p)
  PROVE  Above(d, p) /\ \A a \in Ancestors(p) : Above(d, a)
BY DEF Above, AtOrBelow, Ancestors

\* What a command publishes, replaces or removes is in its Territory, so it
\* leaves every undisputed path of a running deployment, and what is above it.
LEMMA OthersApart ==
  ASSUME TypeInv, RunInv, NEW d \in Running, NEW e \in Deployments \ {d}, AcceptedOf(e),
         Start(e) \/ CommandStep(e) \/ Fault(e) \/ Crash(e),
         NEW a \in PublicPaths, Above(d, a)
  PROVE  Left(a)
<1>1. CASE Start(e)
  BY <1>1 DEF Start, NoOp, StartDeploy, StartRollback, docroot, Left
<1>2. CASE ~ Start(e)
  <2>1. MaxActive # 1
    <3>1. e \in Running
      BY <1>2, StepRuns DEF Fault, Crash, Fallible, Running
    <3> QED BY <3>1 DEF RunInv
  <2>2. PICK p \in PublicPaths : Undisputed(d, p) /\ AtOrBelow(a, p)
    BY DEF Above
  <2>3. ASSUME NEW q \in Territory(e), AtOrBelow(q, a) PROVE FALSE
    <3>1. PICK c \in (Repo[e] \cup {Installed[e]}) \cap Commits : q \in ClaimsOf[c]
      BY DEF Territory
    <3>2. q \in PublicPaths
      BY <3>1, PromotionAssumption
    <3>3. p \in Seq(STRING) /\ q \in Seq(STRING) /\ a \in Seq(STRING)
      BY <3>2, DocrootAssumption
    <3>4. AtOrBelow(q, p)
      BY <2>2, <2>3, <3>3, BelowTransitive
    <3>5. e \in Foreign(d)
      BY DEF Foreign
    <3>6. OverlapsAny(ClaimsIn(c), p)
      BY <3>1, <3>4 DEF OverlapsAny, Overlap, AtOrBelow, ClaimsIn
    <3> QED BY <2>1, <2>2, <3>1, <3>5, <3>6 DEF Undisputed
  <2> QED BY <2>3, Reach
<1> QED BY <1>1, <1>2
-----------------------------------------------------------------------------
Replacing == {"check", "place", "swap", "record", "drop"}
Claimed   == Replacing \cup AfterSwitch
Done      == {"hook", "unmark", "prune", "document"}

\* The removed claims that wait for the switch.
Unblocked(d, j) == {r \in j.removed : ~ OverlapsAny(NewClaims(d), r)}

\* Where the links of d can be, as far as no other deployment works there.
Whereabouts(d, l, j) ==
  \A a \in PublicPaths : Above(d, a) /\ node[a] = d =>
    /\ l \in {"adopt", "compute"} => a \in j.links
    /\ l = "shed" => a \in NewClaims(d) \cup Unblocked(d, j) \cup j.todo
    /\ l \in Replacing \cup {"settle"} => a \in NewClaims(d) \cup Unblocked(d, j)
    /\ l = "retire" => a \in NewClaims(d) \cup j.todo
    /\ l \in {"verify"} \cup Done => a \in NewClaims(d)

\* What stands at the claims that are done, and at the one being made.
AtHand(d, l, p) ==
  /\ l = "place" /\ Undisputed(d, p) => \A a \in Ancestors(p) : node[a] \notin Deployments
  /\ l = "swap" /\ Above(d, p) => tmp[p] = LinkAt(p, d)
  /\ l \in {"record", "drop"} /\ Undisputed(d, p) => node[p] = d

InPlace(d, l, j) ==
  /\ \A p \in j.strayed : ~ Undisputed(d, p)
  /\ l \in Claimed => \A p \in NewClaims(d) :
       Undisputed(d, p) /\ (l \in Replacing => p \notin j.todo)
         => node[p] = d /\ tmp[p] = Nothing
  /\ AtHand(d, l, First(j.todo))

\* The paths that the loops of a command visit.
Visits(d, l, j) ==
  /\ l \in {"shed", "settle", "retire"} \cup Replacing => j.removed \cap NewClaims(d) = {}
  /\ l = "shed" => j.todo \subseteq Blocking(d, j.removed)
  /\ l \in Replacing => j.todo \subseteq NewClaims(d)
  /\ l = "retire" => j.todo \subseteq j.removed
  /\ l \in Done =>
       \A p \in NewClaims(d) : Undisputed(d, p) => p \in Resolves[Coming(d)]

\* What a command has cleaned up.
Residue(d, l, j) ==
  /\ l \in AfterSwitch \ {"settle"} => log[d] = {}
  /\ j.kind = "deploy" => incoming[d] \subseteq IF l \in Early THEN {j.run} ELSE {}
  /\ l \notin {"tidy", "probe"} /\ d \in Maintained /\ ~ j.owned => marker # d
  /\ l \in {"prune", "document"} => ~ j.owned

WorkOf(d) == /\ Whereabouts(d, pc[d], job[d]) /\ InPlace(d, pc[d], job[d])
             /\ Visits(d, pc[d], job[d]) /\ Residue(d, pc[d], job[d])

WorkInv == \A d \in Running : WorkOf(d)
-----------------------------------------------------------------------------
\* A marker of d is written by d only.
LEMMA OthersMarker ==
  ASSUME NEW d \in Deployments, NEW e \in Deployments \ {d}, marker # d,
         Start(e) \/ CommandStep(e) \/ Fault(e) \/ Crash(e)
  PROVE  marker' # d
<1>1. Cleared(e) \in {NoMarker, marker}
  BY DEF Cleared
<1>2. NoMarker \notin Deployments
  BY PromotionAssumption
<1>3. Unwind(e) => marker' # d
  BY <1>1, <1>2 DEF Unwind
<1>4. CASE Start(e) \/ Crash(e)
  BY <1>4 DEF Start, NoOp, StartDeploy, StartRollback, Crash, docroot
<1>5. CASE Fault(e)
  BY <1>3, <1>5 DEF Fault
<1>6. CASE Probe(e) \/ NoSuchRelease(e) \/ Unmark(e) \/ Mark(e)
  BY <1>1, <1>2, <1>6 DEF Probe, NoSuchRelease, Unmark, Mark
<1>7. CASE Unwind(e) \/ marker' = marker
  BY <1>3, <1>7
<1> QED
  BY <1>4, <1>5, <1>6, <1>7
  DEF CommandStep, TidyOne, TidyDone, Scan, Adopt, Compute, Refuse, Inspect, Unlink,
      StartReconcile, Check, Reject, Place, CannotPlace, Stray, Swap, CannotSwap,
      Record, Drop, SwitchCurrent, DoneRetiring, Verify, CannotVerify, RunHook,
      Prune, DonePruning, Document, Fail, docroot

\* What holds of a running command survives the steps of every other one.
LEMMA OthersWork ==
  ASSUME TypeInv, RunInv, NEW d \in Running, NEW e \in Deployments \ {d}, AcceptedOf(e),
         Start(e) \/ CommandStep(e) \/ Fault(e) \/ Crash(e), WorkOf(d)
  PROVE  WorkOf(d)'
<1> DEFINE l == pc[d]
           j == job[d]
           p == First(j.todo)
<1>d. d \in Deployments
  BY DEF Running
<1>1. /\ pc'[d] = l /\ job'[d] = j /\ stored'[d] = stored[d]
      /\ log'[d] = log[d] /\ incoming'[d] = incoming[d]
  BY <1>d, OthersUntouched, OthersStore
<1>2. Coming(d)' = Coming(d) /\ NewClaims(d)' = NewClaims(d)
  BY <1>1 DEF Coming, NewClaims
<1>3. Unblocked(d, j)' = Unblocked(d, j)
  BY <1>1, <1>2 DEF Unblocked
<1>4. \A a \in PublicPaths : Above(d, a) => Left(a)
  BY OthersApart
<1>5. d \notin Plain
  BY <1>d, DocrootAssumption
<1>6. Whereabouts(d, l, j)'
  <2>1. \A a \in PublicPaths : Above(d, a) /\ node'[a] = d => node[a] = d
    BY <1>4, <1>5 DEF Left, Plain
  <2> QED BY <1>1, <1>2, <1>3, <2>1 DEF Whereabouts, WorkOf
<1>7. InPlace(d, l, j)'
  <2>1. NewClaims(d) \subseteq PublicPaths
    BY ClaimsType DEF NewClaims
  <2>2. \A q \in PublicPaths : Undisputed(d, q) /\ node[q] = d => node'[q] = d
    BY <1>4, <1>5, UndisputedAbove DEF Left, Plain
  <2>3. \A q \in PublicPaths : Above(d, q) => tmp'[q] = tmp[q]
    BY <1>4 DEF Left
  <2>4. l \in AtPath => p \in PublicPaths
    BY <1>d, NextPath DEF TypeInv, HasWork
  <2>5. AtHand(d, l, p)'
    <3>1. CASE l = "place" /\ Undisputed(d, p)
      <4>1. ASSUME NEW a \in Ancestors(p) PROVE node'[a] \notin Deployments
        <5>1. Above(d, a) /\ a \in PublicPaths /\ node[a] \notin Deployments
          BY <2>4, <3>1, UndisputedAbove DEF Ancestors, AtPath, WorkOf, InPlace, AtHand
        <5> QED BY <1>4, <5>1, DocrootAssumption DEF Left, Plain
      <4> QED BY <1>1, <3>1, <4>1 DEF AtHand
    <3>2. CASE l = "swap" /\ Above(d, p)
      BY <1>1, <2>3, <2>4, <3>2 DEF AtHand, AtPath, WorkOf, InPlace
    <3>3. CASE l \in {"record", "drop"} /\ Undisputed(d, p)
      BY <1>1, <2>2, <2>4, <3>3 DEF AtHand, AtPath, WorkOf, InPlace
    <3> QED BY <1>1, <3>1, <3>2, <3>3 DEF AtHand
  <2>6. ASSUME NEW q \in NewClaims(d), Undisputed(d, q), node[q] = d, tmp[q] = Nothing
        PROVE  node'[q] = d /\ tmp'[q] = Nothing
    BY <2>1, <2>2, <2>3, <2>6, UndisputedAbove
  <2> QED BY <1>1, <1>2, <2>5, <2>6 DEF InPlace, WorkOf
<1>8. Visits(d, l, j)'
  BY <1>1, <1>2 DEF Visits, WorkOf, Blocking
<1>9. Residue(d, l, j)'
  BY <1>d, <1>1, OthersMarker DEF Residue, WorkOf
<1> QED BY <1>1, <1>6, <1>7, <1>8, <1>9 DEF WorkOf
-----------------------------------------------------------------------------
\* A command that goes on keeps its release, and so the claims it makes, except
\* where the release is adopted.
LEMMA SameClaims ==
  ASSUME TypeInv, StoreInv, StoreInv', NEW d \in Deployments, CommandStep(d),
         pc'[d] # "idle", ~ Adopt(d)
  PROVE  /\ job'[d].run = job[d].run /\ job'[d].kind = job[d].kind
         /\ Coming(d)' = Coming(d) /\ NewClaims(d)' = NewClaims(d)
<1>1. ~ Ends(d) /\ ~ Fails(d) /\ ~ Document(d)
  BY DEF Ends, Fails, Unwind, Document, Exit, TypeInv, ControlOK
<1>2. job[d] \in Job
  BY DEF TypeInv, ControlOK
<1>3. job'[d].run = job[d].run /\ job'[d].kind = job[d].kind
  <2>1. CASE Proceeds(d)
    BY <2>1 DEF Proceeds
  <2>2. CASE Compute(d)
    BY <1>2, <2>2 DEF Compute, Validated, Goto, Job, TypeInv, ControlOK
  <2>3. CASE SwitchCurrent(d)
    BY <1>2, <2>3 DEF SwitchCurrent, Goto, Job, TypeInv, ControlOK
  <2>4. CASE Prune(d)
    BY <2>4 DEF Prune
  <2> QED BY <1>1, <2>1, <2>2, <2>3, <2>4, StepKinds
<1>4. stored'[d][job[d].run] = stored[d][job[d].run]
  <2>1. stored' = stored \/ Prune(d)
    BY <1>1, StepKinds DEF Proceeds, Compute, SwitchCurrent, store
  <2>2. CASE Prune(d)
    <3>1. stored'[d][job[d].run] \in Commits
      <4>1. pc'[d] = "prune" /\ job'[d] = job[d]
        BY <2>2 DEF Prune
      <4>2. Phase(d, pc[d], job[d])'
        BY <4>1 DEF StoreInv
      <4> QED BY <4>1, <4>2 DEF Phase, Known
    <3>2. PICK r \in Prunable(d) : stored' = [stored EXCEPT ![d][r] = NoCommit]
      BY <2>2 DEF Prune
    <3>3. job[d].run \in Ids /\ stored \in [Deployments -> [Ids -> Commits \cup {NoCommit}]]
      BY <2>2 DEF Prune, TypeInv, StoreOK, HasWork, RunningJob
    <3>4. r # job[d].run
      BY <3>1, <3>2, <3>3, PromotionAssumption
    <3> QED BY <3>2, <3>3, <3>4
  <2> QED BY <2>1, <2>2
<1>5. Coming(d)' = Coming(d)
  BY <1>3, <1>4 DEF Coming
<1> QED BY <1>3, <1>5 DEF NewClaims

LEMMA GotoAt ==
  ASSUME TypeInv, NEW d \in Deployments, NEW l, NEW j, Goto(d, l, j)
  PROVE  pc'[d] = l /\ job'[d] = j
BY DEF Goto, TypeInv, ControlOK

\* Where the links of d are after a step of its command.
LEMMA WhereStep ==
  ASSUME TypeInv, StoreInv, StoreInv', NEW d \in Deployments, CommandStep(d),
         pc'[d] # "idle", WorkOf(d)
  PROVE  Whereabouts(d, pc[d], job[d])'
<1> DEFINE j == job[d]
           p == First(j.todo)
<1>j. /\ j \in Job /\ j.todo \in SUBSET PublicPaths /\ DocrootOK
      /\ (pc[d] \in AtPath => j.todo # {})
      /\ d \notin Plain
  BY DocrootAssumption DEF TypeInv, ControlOK, HasWork, Job
<1>p. j.todo # {} => p \in j.todo /\ p \in PublicPaths
  BY <1>j, FirstInSet
<1>w. Whereabouts(d, pc[d], j) /\ Visits(d, pc[d], j) /\ InPlace(d, pc[d], j)
  BY DEF WorkOf
<1> USE DEF Replacing, Done
<1>0. CASE Adopt(d)
  <2>1. pc'[d] = "compute" /\ job'[d].links = j.links /\ node' = node /\ pc[d] = "adopt"
    BY <1>0, <1>j, GotoAt DEF Adopt, Adopted, Job, docroot
  <2> QED BY <1>w, <2>1 DEF Whereabouts
<1>n. ~ Adopt(d) => NewClaims(d)' = NewClaims(d)
  BY SameClaims
<1>1. CASE TidyOne(d) \/ TidyDone(d)
  <2>1. /\ node' = node
        /\ \/ pc'[d] = pc[d] /\ job'[d].removed = j.removed /\ pc[d] \in {"tidy", "settle"}
           \/ pc'[d] = "probe"
           \/ pc[d] = "settle" /\ pc'[d] = "retire" /\ job'[d].todo = j.removed
    BY <1>1, <1>j, GotoAt DEF TidyOne, TidyDone, Job, docroot
  <2>2. ~ Adopt(d)
    BY <1>1 DEF TidyOne, TidyDone, Adopt
  <2> QED BY <1>w, <1>n, <2>1, <2>2 DEF Whereabouts, Unblocked
<1>2. CASE Probe(d) \/ Mark(d)
  <2>1. pc'[d] \in {"mark", "scan"}
    BY <1>2, GotoAt DEF Probe, Mark
  <2> QED BY <2>1 DEF Whereabouts
<1>3. CASE Scan(d)
  <2>1. pc'[d] \in {"adopt", "compute"} /\ job'[d].links = Links(d) /\ node' = node
    BY <1>3, <1>j, GotoAt DEF Scan, Job, docroot
  <2> QED BY <2>1 DEF Whereabouts, Links
<1>4. CASE Compute(d)
  <2>1. /\ pc'[d] = "shed" /\ node' = node /\ pc[d] = "compute"
        /\ job'[d].removed = Removals(d) /\ job'[d].todo = Blocking(d, Removals(d))
    <3> DEFINE k == [Validated(j) EXCEPT !.links = {}, !.removed = Removals(d),
                                         !.todo = Blocking(d, Removals(d))]
    <3>1. Goto(d, "shed", k) /\ pc[d] = "compute" /\ node' = node
      BY <1>4 DEF Compute, docroot
    <3>2. k.removed = Removals(d) /\ k.todo = Blocking(d, Removals(d))
      BY <1>j DEF Validated, Job
    <3> HIDE DEF k
    <3> QED BY <3>1, <3>2, GotoAt
  <2>2. NewClaims(d)' = NewClaims(d)
    BY <1>4, <1>n DEF Compute, Adopt
  <2>3. ASSUME NEW a \in j.links
        PROVE  a \in NewClaims(d)' \cup Unblocked(d, job[d])' \cup job'[d].todo
    <3>1. a \in NewClaims(d) \/ a \in Removals(d)
      BY DEF Removals
    <3> QED BY <2>1, <2>2, <3>1 DEF Unblocked, Blocking
  <2> QED BY <1>w, <2>1, <2>3 DEF Whereabouts
<1>5. CASE Inspect(d) \/ Unlink(d)
  <2>1. /\ pc'[d] = pc[d] /\ pc[d] \in {"shed", "retire"} /\ job'[d].removed = j.removed
        /\ job'[d].todo \in {j.todo, j.todo \ {p}}
    <3>1. CASE Inspect(d)
      BY <1>j, <3>1, GotoAt DEF Inspect, Job
    <3>2. CASE Unlink(d)
      <4> DEFINE k == [j EXCEPT !.todo = @ \ {p}, !.ours = FALSE]
      <4>1. k.removed = j.removed /\ k.todo = j.todo \ {p}
        BY <1>j DEF Job
      <4>2. Goto(d, pc[d], k) /\ pc[d] \in {"shed", "retire"}
        BY <3>2 DEF Unlink
      <4> HIDE DEF k
      <4> QED BY <4>1, <4>2, GotoAt
    <3> QED BY <1>5, <3>1, <3>2
  <2>2. \A a \in PublicPaths : node'[a] = d => node[a] = d
    <3>1. node' = node \/ node' = [node EXCEPT ![p] = "none"]
      BY <1>5 DEF Inspect, Unlink, docroot
    <3> QED BY <1>j, <3>1 DEF DocrootOK, Plain
  <2>3. job'[d].todo # j.todo => node'[p] # d
    <3>1. CASE Inspect(d)
      BY <1>j, <3>1, GotoAt DEF Inspect, docroot, Job
    <3>2. CASE Unlink(d)
      <4>1. node' = IF Removable(Displaced(p), p) THEN [node EXCEPT ![p] = "none"]
                                                  ELSE node
        BY <3>2 DEF Unlink
      <4>2. CASE p \notin PublicPaths
        BY <1>p, <2>1, <4>2
      <4>3. CASE p \in PublicPaths
        <5>1. node[p] = d => Displaced(p)[p] = d
          BY <1>j, <4>3 DEF Displaced, AtOrBelow, Plain
        <5>2. node[p] = d => Removable(Displaced(p), p)
          BY <1>j, <5>1 DEF Removable, Dirs, Plain
        <5> QED BY <1>j, <4>1, <4>3, <5>2 DEF DocrootOK, Plain
      <4> QED BY <4>2, <4>3
    <3> QED BY <1>5, <3>1, <3>2
  <2>4. NewClaims(d)' = NewClaims(d)
    BY <1>5, <1>n DEF Inspect, Unlink, Adopt
  <2> QED BY <1>w, <2>1, <2>2, <2>3, <2>4 DEF Whereabouts, Unblocked
<1>6. CASE StartReconcile(d)
  <2>1. /\ pc[d] = "shed" /\ pc'[d] = "check" /\ j.todo = {} /\ job'[d].removed = j.removed
        /\ node' = node
    BY <1>6, <1>j, GotoAt DEF StartReconcile, Job, docroot
  <2>2. NewClaims(d)' = NewClaims(d)
    BY <1>6, <1>n DEF StartReconcile, Adopt
  <2> QED BY <1>w, <2>1, <2>2 DEF Whereabouts, Unblocked
<1>7. CASE Check(d) \/ Place(d) \/ Stray(d) \/ Record(d) \/ Drop(d) \/ SwitchCurrent(d)
  <2>1. /\ pc[d] \in Replacing /\ pc'[d] \in Replacing \cup {"settle"}
        /\ job'[d].removed = j.removed
    <3>1. PICK l \in Replacing \cup {"settle"},
               k \in {j, NextClaim(j), [NextClaim(j) EXCEPT !.strayed = @ \cup {p}],
                       [j EXCEPT !.todo = log[d]]} :
             Goto(d, l, k)
      BY <1>7 DEF Check, Place, Stray, Record, Drop, SwitchCurrent
    <3>2. k.removed = j.removed
      BY <1>j, <3>1 DEF NextClaim, Job
    <3>3. pc[d] \in Replacing
      BY <1>7 DEF Check, Place, Stray, Record, Drop, SwitchCurrent
    <3> QED BY <3>1, <3>2, <3>3, GotoAt
  <2>2. \A a \in PublicPaths : node'[a] = d => node[a] = d
    BY <1>7, <1>j DEF Check, Place, Stray, Record, Drop, SwitchCurrent, docroot,
       MkdirParents, Plain
  <2>3. NewClaims(d)' = NewClaims(d)
    BY <1>7, <1>n DEF Check, Place, Stray, Record, Drop, SwitchCurrent, Adopt
  <2> QED BY <1>w, <2>1, <2>2, <2>3 DEF Whereabouts, Unblocked
<1>8. CASE Swap(d)
  <2>1. /\ pc[d] = "swap" /\ pc'[d] \in {"check", "record"} /\ job'[d].removed = j.removed
        /\ node' = Graft(node, p, tmp[p]) /\ p \in PublicPaths /\ p \in NewClaims(d)
    BY <1>8, <1>j, <1>p, <1>w, GotoAt DEF Swap, NextClaim, Job, AtPath, Visits
  <2>2. NewClaims(d)' = NewClaims(d)
    BY <1>8, <1>n DEF Swap, Adopt
  <2>3. ASSUME NEW a \in PublicPaths, Above(d, a), node'[a] = d
        PROVE  a \in NewClaims(d) \cup Unblocked(d, j)
    <3>1. CASE ~ AtOrBelow(p, a)
      BY <1>w, <2>1, <2>3, <3>1 DEF Graft, Whereabouts
    <3>2. CASE AtOrBelow(p, a)
      <4>1. PICK q \in PublicPaths : Undisputed(d, q) /\ AtOrBelow(a, q)
        BY <2>3 DEF Above
      <4>2. Above(d, p)
        BY <2>1, <3>2, <4>1, BelowTransitive, DocrootAssumption DEF Above
      <4>3. tmp[p] = LinkAt(p, d)
        BY <1>w, <2>1, <4>2 DEF InPlace, AtHand
      <4>4. node'[a] = LinkAt(p, d)[a]
        BY <2>1, <3>2, <4>3 DEF Graft
      <4>5. a = p
        BY <1>j, <2>1, <2>3, <4>4 DEF LinkAt, Nothing, Plain
      <4> QED BY <2>1, <4>5
    <3> QED BY <3>1, <3>2
  <2> QED BY <2>1, <2>2, <2>3 DEF Whereabouts, Unblocked
<1>9. CASE DoneRetiring(d) \/ Verify(d) \/ RunHook(d) \/ DonePruning(d) \/ Unmark(d) \/ Prune(d)
  <2>1. /\ pc[d] \in {"retire", "verify"} \cup Done /\ pc'[d] \in {"verify"} \cup Done
        /\ pc[d] = "retire" => j.todo = {}
        /\ node' = node
    BY <1>9, <1>j, GotoAt DEF DoneRetiring, Verify, RunHook, DonePruning, Unmark, Prune,
       docroot, Exit, TypeInv, ControlOK
  <2>2. NewClaims(d)' = NewClaims(d)
    BY <1>9, <1>n DEF DoneRetiring, Verify, RunHook, DonePruning, Unmark, Prune, Adopt
  <2> QED BY <1>w, <2>1, <2>2 DEF Whereabouts
<1>10. CASE Unwind(d) \/ NoSuchRelease(d) \/ Document(d)
  BY <1>10 DEF Unwind, NoSuchRelease, Document, Exit, TypeInv, ControlOK
<1> QED
  BY <1>0, <1>1, <1>2, <1>3, <1>4, <1>5, <1>6, <1>7, <1>8, <1>9, <1>10
  DEF CommandStep, Refuse, Reject, CannotPlace, CannotSwap, CannotVerify, Fail

\* The paths that a command visits, after a step of it.
LEMMA VisitStep ==
  ASSUME TypeInv, StoreInv, StoreInv', NEW d \in Deployments, CommandStep(d),
         pc'[d] # "idle", WorkOf(d)
  PROVE  Visits(d, pc[d], job[d])'
<1> DEFINE j == job[d]
           p == First(j.todo)
<1>j. j \in Job
  BY DEF TypeInv, ControlOK
<1>w. Visits(d, pc[d], j)
  BY DEF WorkOf
<1> USE DEF Replacing, Done
<1>0. CASE Adopt(d) \/ Probe(d) \/ Mark(d) \/ Scan(d)
  <2>1. pc'[d] \in {"compute", "mark", "scan", "adopt"}
    BY <1>0, GotoAt DEF Adopt, Probe, Mark, Scan
  <2> QED BY <2>1 DEF Visits
<1>n. ~ Adopt(d) => NewClaims(d)' = NewClaims(d) /\ Coming(d)' = Coming(d)
  BY SameClaims
<1>1. CASE TidyOne(d) \/ TidyDone(d)
  <2>1. /\ pc[d] \in {"tidy", "settle"} /\ job'[d].removed = j.removed
        /\ \/ pc'[d] = pc[d]
           \/ pc'[d] = "probe"
           \/ pc[d] = "settle" /\ pc'[d] = "retire" /\ job'[d].todo = j.removed
    BY <1>1, <1>j, GotoAt DEF TidyOne, TidyDone, Job
  <2>2. ~ Adopt(d)
    BY <1>1 DEF TidyOne, TidyDone, Adopt
  <2> QED BY <1>w, <1>n, <2>1, <2>2 DEF Visits
<1>2. CASE Compute(d)
  <2> DEFINE k == [Validated(j) EXCEPT !.links = {}, !.removed = Removals(d),
                                       !.todo = Blocking(d, Removals(d))]
  <2>1. Goto(d, "shed", k) /\ ~ Adopt(d)
    BY <1>2 DEF Compute, Adopt
  <2>2. k.removed = Removals(d) /\ k.todo = Blocking(d, Removals(d))
    BY <1>j DEF Validated, Job
  <2> HIDE DEF k
  <2>3. pc'[d] = "shed" /\ job'[d] = k
    BY <2>1, GotoAt
  <2>4. Removals(d) \cap NewClaims(d) = {}
    BY DEF Removals
  <2> QED BY <1>n, <2>1, <2>2, <2>3, <2>4 DEF Visits, Blocking
<1>3. CASE Inspect(d) \/ Unlink(d)
  <2>1. /\ pc'[d] = pc[d] /\ pc[d] \in {"shed", "retire"} /\ job'[d].removed = j.removed
        /\ job'[d].todo \subseteq j.todo
    <3>1. CASE Inspect(d)
      BY <1>j, <3>1, GotoAt DEF Inspect, Job
    <3>2. CASE Unlink(d)
      <4> DEFINE k == [j EXCEPT !.todo = @ \ {p}, !.ours = FALSE]
      <4>1. k.removed = j.removed /\ k.todo = j.todo \ {p}
        BY <1>j DEF Job
      <4>2. Goto(d, pc[d], k) /\ pc[d] \in {"shed", "retire"}
        BY <3>2 DEF Unlink
      <4> HIDE DEF k
      <4> QED BY <4>1, <4>2, GotoAt
    <3> QED BY <1>3, <3>1, <3>2
  <2>2. ~ Adopt(d)
    BY <1>3 DEF Inspect, Unlink, Adopt
  <2> QED BY <1>w, <1>n, <2>1, <2>2 DEF Visits, Blocking
<1>4. CASE StartReconcile(d)
  <2>1. /\ pc[d] = "shed" /\ pc'[d] = "check" /\ job'[d].removed = j.removed
        /\ job'[d].todo = NewClaims(d) /\ ~ Adopt(d)
    BY <1>4, <1>j, GotoAt DEF StartReconcile, Job, Adopt
  <2> QED BY <1>w, <1>n, <2>1 DEF Visits
<1>5. CASE Check(d) \/ Place(d) \/ Stray(d) \/ Swap(d) \/ Record(d) \/ Drop(d)
  <2>1. PICK l \in Replacing, k \in {j, NextClaim(j),
                                     [NextClaim(j) EXCEPT !.strayed = @ \cup {p}]} :
          Goto(d, l, k)
    BY <1>5 DEF Check, Place, Stray, Swap, Record, Drop
  <2>2. k.removed = j.removed /\ k.todo \subseteq j.todo
    BY <1>j, <2>1 DEF NextClaim, Job
  <2>3. pc[d] \in Replacing /\ ~ Adopt(d)
    BY <1>5 DEF Check, Place, Stray, Swap, Record, Drop, Adopt
  <2>4. pc'[d] = l /\ job'[d] = k
    BY <2>1, GotoAt
  <2> QED BY <1>w, <1>n, <2>1, <2>2, <2>3, <2>4 DEF Visits
<1>6. CASE SwitchCurrent(d)
  <2>1. pc[d] = "check" /\ pc'[d] = "settle" /\ job'[d].removed = j.removed /\ ~ Adopt(d)
    BY <1>6, <1>j, GotoAt DEF SwitchCurrent, Job, Adopt
  <2> QED BY <1>w, <1>n, <2>1 DEF Visits
<1>7. CASE DoneRetiring(d)
  <2>1. pc'[d] = "verify"
    BY <1>7, GotoAt DEF DoneRetiring
  <2> QED BY <2>1 DEF Visits
<1>8. CASE Verify(d)
  <2>1. pc'[d] \in {"hook", "unmark"} /\ pc[d] = "verify" /\ ~ Adopt(d)
    BY <1>8, GotoAt DEF Verify, Adopt
  <2>2. ASSUME NEW q \in NewClaims(d), Undisputed(d, q) PROVE q \in Resolves[Coming(d)]
    <3>1. Leads(q) /\ node[q] = d
      BY <1>8, <2>1, <2>2 DEF Verify, Asserted, WorkOf, InPlace, Claimed, AfterSwitch,
         BeforeSwitch, Labels
    <3>2. Active(d) = Coming(d)
      <4>1. Phase(d, pc[d], j)
        BY <2>1 DEF StoreInv
      <4> QED BY <2>1, <4>1 DEF Phase, AfterSwitch, BeforeSwitch, Labels, Active, Coming
    <3> QED BY <3>1, <3>2 DEF Leads
  <2> QED BY <1>n, <2>1, <2>2 DEF Visits
<1>9. CASE RunHook(d) \/ DonePruning(d) \/ Unmark(d) \/ Prune(d)
  <2>1. pc[d] \in Done /\ pc'[d] \in Done /\ ~ Adopt(d)
    BY <1>9, GotoAt DEF RunHook, DonePruning, Unmark, Prune, Exit, Adopt, TypeInv, ControlOK
  <2> QED BY <1>w, <1>n, <2>1 DEF Visits
<1>10. CASE Unwind(d) \/ NoSuchRelease(d) \/ Document(d)
  BY <1>10 DEF Unwind, NoSuchRelease, Document, Exit, TypeInv, ControlOK
<1> QED
  BY <1>0, <1>1, <1>2, <1>3, <1>4, <1>5, <1>6, <1>7, <1>8, <1>9, <1>10
  DEF CommandStep, Refuse, Reject, CannotPlace, CannotSwap, CannotVerify, Fail

\* What a command has cleaned up, after a step of it.
LEMMA ResidueStep ==
  ASSUME TypeInv, StoreInv, HistoryInv, NEW d \in Deployments, CommandStep(d),
         pc'[d] # "idle", WorkOf(d)
  PROVE  Residue(d, pc[d], job[d])'
<1> DEFINE j == job[d]
           l == pc[d]
<1>w. Residue(d, l, j)
  BY DEF WorkOf
<1>t. /\ j \in Job /\ log \in [Deployments -> SUBSET PublicPaths]
      /\ incoming \in [Deployments -> SUBSET Ids] /\ l \in Labels
  BY DEF TypeInv, ControlOK, StoreOK
<1>c. d \in Maintained => Cleared(d) # d
  BY PromotionAssumption DEF Cleared, OwnsMarker
<1> USE DEF Early, AfterSwitch, BeforeSwitch, Labels
<1>1. CASE Adopt(d)
  <2>1. /\ l = "adopt" /\ pc'[d] = "compute" /\ job'[d].kind = j.kind
        /\ incoming'[d] = incoming[d] \ {j.run}
        /\ job'[d].owned = j.owned /\ marker' = marker
    BY <1>1, <1>t, GotoAt DEF Adopt, Adopted, Job, docroot
  <2> QED BY <1>w, <2>1 DEF Residue
<1>2. CASE TidyDone(d) \/ StartReconcile(d) \/ Record(d) \/ SwitchCurrent(d)
  <2>1. /\ incoming' = incoming /\ marker' = marker
        /\ job'[d].kind = j.kind /\ job'[d].run = j.run /\ job'[d].owned = j.owned
        /\ \/ l = "tidy" /\ pc'[d] = "probe"
           \/ l = "settle" /\ pc'[d] = "retire" /\ log'[d] = {}
           \/ l \in {"shed", "check", "record"} /\ pc'[d] \in {"check", "drop", "settle"}
    BY <1>2, <1>t, GotoAt DEF TidyDone, StartReconcile, Record, SwitchCurrent, Job, docroot
  <2> QED BY <1>w, <2>1 DEF Residue
<1>3. CASE Probe(d) \/ Mark(d) \/ Scan(d)
  <2>1. /\ incoming' = incoming /\ l \in Early
        /\ pc'[d] \in {"mark", "scan", "adopt", "compute"}
        /\ job'[d].kind = j.kind /\ job'[d].run = j.run
        /\ j.kind = "deploy" => pc'[d] # "compute"
    BY <1>3, <1>t, GotoAt DEF Probe, Mark, Scan, Job, store
  <2>2. d \in Maintained /\ ~ job'[d].owned => marker' # d
    <3>1. CASE Probe(d)
      BY <1>c, <3>1 DEF Probe
    <3>2. CASE Mark(d)
      BY <1>t, <3>2, GotoAt DEF Mark, Job
    <3>3. CASE Scan(d)
      <4>1. job'[d].owned = j.owned /\ marker' = marker /\ l = "scan"
        BY <1>t, <3>3, GotoAt DEF Scan, Job, docroot
      <4> QED BY <1>w, <4>1 DEF Residue
    <3> QED BY <1>3, <3>1, <3>2, <3>3
  <2> QED BY <1>w, <2>1, <2>2 DEF Residue
<1>4. CASE Unmark(d)
  <2>1. /\ pc'[d] = "prune" /\ job'[d].kind = j.kind /\ ~ job'[d].owned /\ l = "unmark"
        /\ UNCHANGED <<log, incoming>>
    BY <1>4, <1>t, GotoAt DEF Unmark, Exit, Job, store, TypeInv, ControlOK
  <2>2. marker' = Cleared(d)
    BY <1>4 DEF Unmark
  <2> QED BY <1>c, <1>w, <2>1, <2>2 DEF Residue
<1>5. ASSUME UNCHANGED <<log, incoming, marker>>,
             job'[d].kind = j.kind, job'[d].run = j.run, job'[d].owned = j.owned,
             pc'[d] \in {"tidy", "probe"} \/ l \notin {"tidy", "probe"},
             pc'[d] \in AfterSwitch \ {"settle"} => l \in AfterSwitch \ {"settle"},
             l \in Early /\ j.kind = "deploy" => pc'[d] \in Early,
             pc'[d] \in {"prune", "document"} => l \in {"prune", "document"}
      PROVE  Residue(d, pc[d], job[d])'
  BY <1>w, <1>5 DEF Residue
<1>6. CASE TidyOne(d) \/ Inspect(d)
  <2>1. /\ UNCHANGED <<log, incoming, marker>> /\ pc'[d] = l
        /\ job'[d].kind = j.kind /\ job'[d].run = j.run /\ job'[d].owned = j.owned
    BY <1>6, <1>t, GotoAt DEF TidyOne, Inspect, Job, docroot, store
  <2> QED BY <1>5, <2>1
<1>7. CASE Unlink(d)
  <2> DEFINE k == [j EXCEPT !.todo = @ \ {First(j.todo)}, !.ours = FALSE]
  <2>1. k.kind = j.kind /\ k.run = j.run /\ k.owned = j.owned
    BY <1>t DEF Job
  <2>2. Goto(d, pc[d], k) /\ UNCHANGED <<log, incoming, marker>>
    BY <1>7 DEF Unlink, store
  <2> HIDE DEF k
  <2>3. pc'[d] = l /\ job'[d] = k
    BY <2>2, GotoAt
  <2> QED BY <1>5, <2>1, <2>2, <2>3
<1>8. CASE Compute(d)
  <2> DEFINE k == [Validated(j) EXCEPT !.links = {}, !.removed = Removals(d),
                                       !.todo = Blocking(d, Removals(d))]
  <2>1. k.kind = j.kind /\ k.run = j.run /\ k.owned = j.owned
    BY <1>t DEF Validated, Job
  <2>2. Goto(d, "shed", k) /\ UNCHANGED <<log, incoming, marker>> /\ l = "compute"
    BY <1>8 DEF Compute, docroot, store
  <2> HIDE DEF k
  <2>3. pc'[d] = "shed" /\ job'[d] = k
    BY <2>2, GotoAt
  <2> QED BY <1>5, <2>1, <2>2, <2>3
<1>9. CASE Check(d) \/ Place(d) \/ Stray(d) \/ Swap(d) \/ Drop(d)
  <2>1. PICK m \in {"place", "swap", "check", "record"},
             k \in {j, NextClaim(j), [NextClaim(j) EXCEPT !.strayed = @ \cup {First(j.todo)}]} :
          Goto(d, m, k)
    BY <1>9 DEF Check, Place, Stray, Swap, Drop
  <2>2. k.kind = j.kind /\ k.run = j.run /\ k.owned = j.owned
    BY <1>t, <2>1 DEF NextClaim, Job
  <2>3. UNCHANGED <<log, incoming, marker>> /\ l \in {"check", "place", "swap", "drop"}
    BY <1>9 DEF Check, Place, Stray, Swap, Drop, docroot, store
  <2>4. pc'[d] = m /\ job'[d] = k
    BY <2>1, GotoAt
  <2> QED BY <1>5, <2>1, <2>2, <2>3, <2>4
<1>10. CASE DoneRetiring(d) \/ Verify(d) \/ RunHook(d)
  <2>1. /\ job'[d] = j /\ UNCHANGED <<log, incoming, marker>>
        /\ l \in {"retire", "verify", "hook"} /\ pc'[d] \in {"verify", "hook", "unmark"}
    BY <1>10, GotoAt DEF DoneRetiring, Verify, RunHook, docroot, store
  <2> QED BY <1>5, <2>1
<1>11. CASE DonePruning(d) \/ Prune(d)
  <2>1. /\ job'[d] = j /\ UNCHANGED <<log, incoming, marker>>
        /\ l = "prune" /\ pc'[d] \in {"prune", "document"}
    BY <1>11, GotoAt DEF DonePruning, Prune, docroot, store
  <2> QED BY <1>5, <2>1
<1>12. CASE Unwind(d) \/ NoSuchRelease(d) \/ Document(d)
  BY <1>12 DEF Unwind, NoSuchRelease, Document, Exit, TypeInv, ControlOK
<1> QED
  BY <1>1, <1>2, <1>3, <1>4, <1>6, <1>7, <1>8, <1>9, <1>10, <1>11, <1>12
  DEF CommandStep, Refuse, Reject, CannotPlace, CannotSwap, CannotVerify, Fail
\* Claims of one commit do not overlap, so making one leaves the others alone.
\* The claims of one release do not overlap (Claims, ClaimsApart).
LEMMA NewAntichain ==
  ASSUME NEW d \in Deployments, NEW p \in NewClaims(d), NEW q \in NewClaims(d),
         Overlap(p, q)
  PROVE  p = q
BY PromotionAssumption DEF NewClaims, ClaimsIn, Antichain

\* The claims that are done, and the one at hand, after a step of the command.
LEMMA PlaceStep ==
  ASSUME TypeInv, StoreInv, StoreInv', NEW d \in Deployments, CommandStep(d),
         pc'[d] # "idle", WorkOf(d), AcceptedOf(d)
  PROVE  InPlace(d, pc[d], job[d])'
<1> DEFINE j == job[d]
           l == pc[d]
           p == First(j.todo)
           Kept(S) == \A q \in S : Undisputed(d, q) /\ node[q] = d /\ tmp[q] = Nothing
                                     => node'[q] = d /\ tmp'[q] = Nothing
<1>j. /\ j \in Job /\ j.todo \in SUBSET PublicPaths /\ DocrootOK
      /\ (l \in AtPath => j.todo # {})
      /\ d \notin Plain /\ NewClaims(d) \subseteq PublicPaths
  BY DocrootAssumption, ClaimsType DEF TypeInv, ControlOK, HasWork, Job, NewClaims
<1>p. j.todo # {} => p \in j.todo /\ p \in PublicPaths
  BY <1>j, FirstInSet
<1>w. Whereabouts(d, l, j) /\ Visits(d, l, j) /\ InPlace(d, l, j)
  BY DEF WorkOf
<1>n. ~ Adopt(d) => NewClaims(d)' = NewClaims(d)
  BY SameClaims
<1> USE DEF Replacing, Claimed, AfterSwitch, BeforeSwitch, Labels
<1>0. ASSUME pc'[d] \notin Claimed, job'[d].strayed = j.strayed
      PROVE  InPlace(d, pc[d], job[d])'
  BY <1>w, <1>0 DEF InPlace, AtHand
<1>1. CASE TidyOne(d) \/ TidyDone(d)
  <2>1. /\ node' = node /\ job'[d].strayed = j.strayed
        /\ pc'[d] \notin AtPath /\ l \in {"tidy", "settle"}
        /\ l = "tidy" => pc'[d] \notin Claimed
        /\ pc'[d] \notin Replacing
    BY <1>1, <1>j, GotoAt DEF TidyOne, TidyDone, docroot, Job, AtPath
  <2>2. \A q \in PublicPaths : tmp'[q] = tmp[q] \/ tmp'[q] = Nothing
    BY <1>1, <1>j DEF TidyOne, TidyDone, docroot, DocrootOK
  <2>3. ~ Adopt(d)
    BY <1>1 DEF TidyOne, TidyDone, Adopt
  <2>4. Kept(NewClaims(d))
    BY <1>j, <2>1, <2>2
  <2> QED BY <1>0, <1>w, <1>n, <2>1, <2>3, <2>4 DEF InPlace, AtHand, AtPath
<1>2. CASE Probe(d) \/ Mark(d) \/ Scan(d) \/ Adopt(d)
  <2>1. job'[d].strayed = j.strayed /\ pc'[d] \notin Claimed
    BY <1>2, <1>j, GotoAt DEF Probe, Mark, Scan, Adopt, Adopted, Job
  <2> QED BY <1>0, <2>1
<1>3. CASE Compute(d)
  <2> DEFINE k == [Validated(j) EXCEPT !.links = {}, !.removed = Removals(d),
                                       !.todo = Blocking(d, Removals(d))]
  <2>1. Goto(d, "shed", k)
    BY <1>3 DEF Compute
  <2>2. k.strayed = j.strayed
    BY <1>j DEF Validated, Job
  <2> HIDE DEF k
  <2>3. pc'[d] = "shed" /\ job'[d] = k
    BY <2>1, GotoAt
  <2> QED BY <1>0, <2>2, <2>3
<1>4. CASE Inspect(d) \/ Unlink(d)
  <2> DEFINE k == [j EXCEPT !.todo = @ \ {p}, !.ours = FALSE]
  <2>0. k.strayed = j.strayed
    BY <1>j DEF Job
  <2>1. /\ pc'[d] = l /\ l \in {"shed", "retire"} /\ job'[d].strayed = j.strayed
        /\ tmp' = tmp /\ ~ Adopt(d)
    <3>1. CASE Inspect(d)
      BY <1>j, <3>1, GotoAt DEF Inspect, Job, docroot, Adopt
    <3>2. CASE Unlink(d)
      <4>1. Goto(d, l, k) /\ l \in {"shed", "retire"} /\ tmp' = tmp /\ ~ Adopt(d)
        BY <3>2 DEF Unlink, Adopt
      <4> HIDE DEF k
      <4> QED BY <2>0, <4>1, GotoAt
    <3> QED BY <1>4, <3>1, <3>2
  <2>2. CASE l = "shed"
    BY <1>0, <2>1, <2>2
  <2>3. CASE l = "retire"
    <3>1. node' = node \/ (node' = [node EXCEPT ![p] = "none"] /\ p \in j.todo)
      <4>1. ASSUME Unlink(d) PROVE j.todo # {}
        BY <4>1, StepRuns DEF Unlink, AcceptedOf, Accepts
      <4> QED BY <1>4, <1>p, <4>1 DEF Inspect, Unlink, docroot
    <3>2. j.todo \cap NewClaims(d) = {}
      BY <1>w, <2>3 DEF Visits
    <3>3. Kept(NewClaims(d))
      BY <1>j, <2>1, <3>1, <3>2 DEF DocrootOK
    <3> QED BY <1>w, <1>n, <2>1, <2>3, <3>3 DEF InPlace, AtHand
  <2> QED BY <2>1, <2>2, <2>3
<1>5. CASE StartReconcile(d)
  <2>1. /\ pc'[d] = "check" /\ job'[d].todo = NewClaims(d) /\ job'[d].strayed = j.strayed
        /\ ~ Adopt(d)
    BY <1>5, <1>j, GotoAt DEF StartReconcile, Job, Adopt
  <2> QED BY <1>w, <1>n, <2>1 DEF InPlace, AtHand
<1>6. CASE Check(d)
  <2>1. /\ pc'[d] = "place" /\ l = "check" /\ job'[d] = j /\ UNCHANGED <<node, tmp>>
        /\ ~ Adopt(d) /\ j.todo # {} /\ ~ ForeignAncestor(d, p)
    BY <1>6, GotoAt DEF Check, docroot, Adopt
  <2>2. p \in NewClaims(d)
    BY <1>p, <1>w, <2>1 DEF Visits
  <2>3. ASSUME Undisputed(d, p), NEW a \in Ancestors(p) PROVE node[a] \notin Deployments
    <3>1. a \in PublicPaths /\ Ancestor(a, p) /\ Above(d, a)
      BY <1>p, <2>1, <2>3, UndisputedAbove DEF Ancestors
    <3>2. node[a] \notin Foreign(d)
      BY <2>1, <2>3 DEF ForeignAncestor
    <3>3. node[a] # d
      <4> SUFFICES ASSUME node[a] = d PROVE FALSE
        OBVIOUS
      <4>1. a \in NewClaims(d) \cup Unblocked(d, j)
        BY <1>w, <2>1, <3>1 DEF Whereabouts
      <4>2. Overlap(p, a) /\ Overlap(a, p)
        BY <3>1 DEF Overlap
      <4>3. a \notin NewClaims(d)
        <5>1. a # p
          <6>1. Len(p) \in Nat
            BY <1>p, <2>1, DocrootAssumption, LenProperties
          <6> QED BY <3>1, <6>1 DEF Ancestor
        <5> QED BY <2>2, <4>2, <5>1, NewAntichain
      <4>4. a \notin Unblocked(d, j)
        BY <2>2, <4>2 DEF Unblocked, OverlapsAny
      <4> QED BY <4>1, <4>3, <4>4
    <3> QED BY <3>2, <3>3 DEF Foreign
  <2> QED BY <1>w, <1>n, <2>1, <2>3 DEF InPlace, AtHand
<1>7. CASE Place(d)
  <2>1. /\ pc'[d] = "swap" /\ l = "place" /\ job'[d] = j /\ ~ Adopt(d)
        /\ node' = MkdirParents(node, p) /\ tmp' = [tmp EXCEPT ![p] = LinkAt(p, d)]
        /\ j.todo # {}
    BY <1>7, <1>j, GotoAt DEF Place, Adopt, AtPath
  <2>2. Kept(NewClaims(d) \ j.todo)
    BY <1>j, <1>p, <2>1 DEF DocrootOK, MkdirParents, Plain
  <2>3. tmp'[p] = LinkAt(p, d)
    BY <1>j, <1>p, <2>1 DEF DocrootOK
  <2> QED BY <1>w, <1>n, <2>1, <2>2, <2>3 DEF InPlace, AtHand
<1>8. CASE Stray(d)
  <2> DEFINE k == [NextClaim(j) EXCEPT !.strayed = @ \cup {p}]
  <2>1. /\ Goto(d, "check", k) /\ l = "place" /\ Routed(p) /\ ~ Adopt(d)
        /\ UNCHANGED <<node, tmp>> /\ j.todo # {}
    BY <1>8, <1>j DEF Stray, docroot, Adopt, AtPath
  <2>2. k.strayed = j.strayed \cup {p} /\ k.todo = j.todo \ {p}
    BY <1>j DEF NextClaim, Job
  <2> HIDE DEF k
  <2>3. pc'[d] = "check" /\ job'[d] = k
    BY <2>1, GotoAt
  <2>4. ~ Undisputed(d, p)
    BY <1>w, <2>1 DEF InPlace, AtHand, Routed
  <2> QED BY <1>w, <1>n, <2>1, <2>2, <2>3, <2>4 DEF InPlace, AtHand
<1>9. CASE Swap(d)
  <2>1. /\ l = "swap" /\ node' = Graft(node, p, tmp[p]) /\ tmp' = Exchanged(p)
        /\ p \in j.todo /\ p \in PublicPaths /\ p \in NewClaims(d) /\ ~ Adopt(d)
    BY <1>9, <1>j, <1>p, <1>w DEF Swap, AtPath, Visits, Adopt
  <2>2. ASSUME NEW q \in NewClaims(d), q # p PROVE node'[q] = node[q] /\ tmp'[q] = tmp[q]
    <3>1. ~ AtOrBelow(p, q)
      BY <2>1, <2>2, NewAntichain DEF AtOrBelow, Overlap
    <3> QED BY <1>j, <2>1, <2>2, <3>1 DEF Graft, Exchanged, AtOrBelow
  <2>3. ASSUME Undisputed(d, p) PROVE node'[p] = d
    <3>1. tmp[p] = LinkAt(p, d)
      BY <1>w, <2>1, <2>3, UndisputedAbove DEF InPlace, AtHand
    <3>2. node'[p] = LinkAt(p, d)[p]
      BY <2>1, <3>1 DEF Graft, AtOrBelow
    <3> QED BY <2>1, <3>2 DEF LinkAt, Nothing
  <2>4. CASE node[p] = "none"
    <3>1. Goto(d, "check", NextClaim(j))
      BY <1>9, <2>4 DEF Swap
    <3>2. NextClaim(j).strayed = j.strayed /\ NextClaim(j).todo = j.todo \ {p}
      BY <1>j DEF NextClaim, Job
    <3>3. pc'[d] = "check" /\ job'[d] = NextClaim(j)
      BY <3>1, GotoAt
    <3>4. tmp'[p] = Nothing
      BY <2>1, <2>4 DEF Exchanged
    <3> QED BY <1>w, <1>n, <2>1, <2>2, <2>3, <3>2, <3>3, <3>4 DEF InPlace, AtHand
  <2>5. CASE node[p] # "none"
    <3>1. Goto(d, "record", j)
      BY <1>9, <2>5 DEF Swap
    <3>2. pc'[d] = "record" /\ job'[d] = j
      BY <3>1, GotoAt
    <3> QED BY <1>w, <1>n, <2>1, <2>2, <2>3, <3>2 DEF InPlace, AtHand
  <2> QED BY <2>4, <2>5
<1>10. CASE Record(d)
  <2>1. /\ pc'[d] = "drop" /\ l = "record" /\ job'[d] = j /\ UNCHANGED <<node, tmp>>
        /\ ~ Adopt(d)
    BY <1>10, GotoAt DEF Record, docroot, Adopt
  <2> QED BY <1>w, <1>n, <2>1 DEF InPlace, AtHand
<1>11. CASE Drop(d)
  <2>1. /\ Goto(d, "check", NextClaim(j)) /\ l = "drop" /\ node' = node /\ ~ Adopt(d)
        /\ tmp' = [tmp EXCEPT ![p] = Nothing] /\ p \in j.todo /\ p \in PublicPaths
    BY <1>11, <1>j, <1>p DEF Drop, Adopt, AtPath
  <2>2. NextClaim(j).strayed = j.strayed /\ NextClaim(j).todo = j.todo \ {p}
    BY <1>j DEF NextClaim, Job
  <2>3. pc'[d] = "check" /\ job'[d] = NextClaim(j)
    BY <2>1, GotoAt
  <2>4. \A q \in PublicPaths : q # p => tmp'[q] = tmp[q]
    BY <1>j, <2>1 DEF DocrootOK
  <2>5. tmp'[p] = Nothing
    BY <1>j, <2>1 DEF DocrootOK
  <2> QED BY <1>j, <1>w, <1>n, <2>1, <2>2, <2>3, <2>4, <2>5 DEF InPlace, AtHand
<1>12. CASE SwitchCurrent(d)
  <2>1. /\ pc'[d] = "settle" /\ l = "check" /\ j.todo = {} /\ UNCHANGED <<node, tmp>>
        /\ job'[d].strayed = j.strayed /\ ~ Adopt(d)
    BY <1>12, <1>j, GotoAt DEF SwitchCurrent, docroot, Job, Adopt
  <2> QED BY <1>w, <1>n, <2>1 DEF InPlace, AtHand
<1>13. CASE \/ DoneRetiring(d) \/ Verify(d) \/ RunHook(d) \/ DonePruning(d)
            \/ Unmark(d) \/ Prune(d)
  <2>1. /\ l \in AfterSwitch /\ pc'[d] \in AfterSwitch /\ job'[d].strayed = j.strayed
        /\ UNCHANGED <<node, tmp>> /\ ~ Adopt(d)
    BY <1>13, <1>j, GotoAt DEF DoneRetiring, Verify, RunHook, DonePruning, Unmark, Prune,
       docroot, Exit, TypeInv, ControlOK, Job, Adopt
  <2> QED BY <1>w, <1>n, <2>1 DEF InPlace, AtHand
<1>14. CASE Unwind(d) \/ NoSuchRelease(d) \/ Document(d)
  BY <1>14 DEF Unwind, NoSuchRelease, Document, Exit, TypeInv, ControlOK
<1> QED
  BY <1>1, <1>2, <1>3, <1>4, <1>5, <1>6, <1>7, <1>8, <1>9, <1>10, <1>11, <1>12, <1>13,
     <1>14
  DEF CommandStep, Refuse, Reject, CannotPlace, CannotSwap, CannotVerify, Fail
-----------------------------------------------------------------------------
\* A command starts with nothing in place and only its own staging.
LEMMA StartWork ==
  ASSUME TypeInv, NEW d \in Deployments, Start(d), pc'[d] # "idle"
  PROVE  WorkOf(d)'
<1>1. pc[d] = "idle"
  BY DEF Start, NoOp, StartDeploy, StartRollback, Begin
<1>2. /\ pc'[d] = "tidy" /\ job'[d].strayed = {}
      /\ job'[d].kind = "deploy" => incoming'[d] \subseteq {job'[d].run}
  <2>1. CASE \E c \in Repo[d] : NoOp(d, c)
    BY <1>1, <2>1 DEF NoOp
  <2>2. CASE \E c \in Repo[d], force \in ForceModes : StartDeploy(d, c, force)
    <3>1. PICK c \in Repo[d], force \in ForceModes : StartDeploy(d, c, force)
      BY <2>2
    <3> DEFINE k == [NoJob EXCEPT !.kind = "deploy", !.commit = c, !.run = nextId[d],
                                  !.todo = log[d]]
    <3>2. Goto(d, "tidy", k) /\ incoming' = [incoming EXCEPT ![d] = {nextId[d]}]
      BY <3>1 DEF StartDeploy, SweepStaging
    <3>3. k.run = nextId[d] /\ k.strayed = {}
      BY DEF NoJob
    <3> HIDE DEF k
    <3>4. pc'[d] = "tidy" /\ job'[d] = k
      BY <3>2, GotoAt
    <3> QED BY <3>2, <3>3, <3>4 DEF TypeInv, StoreOK
  <2>3. CASE \E r \in RollbackIds : StartRollback(d, r)
    <3>1. PICK r \in RollbackIds : StartRollback(d, r)
      BY <2>3
    <3> DEFINE k == [NoJob EXCEPT !.kind = "rollback", !.run = r, !.todo = log[d]]
    <3>2. k.kind = "rollback" /\ k.strayed = {}
      BY DEF NoJob
    <3>3. Goto(d, "tidy", k)
      BY <3>1 DEF StartRollback
    <3> HIDE DEF k
    <3>4. pc'[d] = "tidy" /\ job'[d] = k
      BY <3>3, GotoAt
    <3> QED BY <3>2, <3>4
  <2> QED BY <2>1, <2>2, <2>3 DEF Start
<1> QED
  BY <1>2 DEF WorkOf, Whereabouts, InPlace, AtHand, Visits, Residue, Replacing, Claimed,
     Done, Early, AfterSwitch, BeforeSwitch, Labels

LEMMA WorkInit == Init => WorkInv
BY DEF Init, WorkInv, Running

LEMMA WorkNext ==
  TypeInv /\ StoreInv /\ StoreInv' /\ HistoryInv /\ RunInv /\ AcceptedInv /\ WorkInv
    /\ [Next]_vars => WorkInv'
<1> SUFFICES ASSUME TypeInv, StoreInv, StoreInv', HistoryInv, RunInv, AcceptedInv, WorkInv,
                    [Next]_vars, NEW d \in Deployments, pc'[d] # "idle"
             PROVE  WorkOf(d)'
  BY DEF WorkInv, Running
<1>1. CASE Start(d)
  BY <1>1, StartWork
<1>2. CASE CommandStep(d)
  <2>1. WorkOf(d) /\ AcceptedOf(d)
    BY <1>2, StepRuns DEF WorkInv, Running, AcceptedInv
  <2> QED BY <1>2, <2>1, WhereStep, PlaceStep, VisitStep, ResidueStep DEF WorkOf
<1>3. CASE Fault(d) \/ Crash(d)
  BY <1>3 DEF Fault, Crash, Unwind, Exit, TypeInv, ControlOK
<1>4. ASSUME NEW e \in Deployments \ {d}, Start(e) \/ CommandStep(e) \/ Fault(e) \/ Crash(e)
      PROVE  WorkOf(d)'
  <2>1. d \in Running
    BY <1>4, OthersUntouched DEF Running
  <2> QED BY <1>4, <2>1, OthersWork DEF WorkInv, AcceptedInv
<1>5. CASE CoreUpdate \/ UNCHANGED vars
  <2>1. /\ UNCHANGED <<node, tmp, stored, log, incoming, pc, job>>
        /\ marker' = d => marker = d
    BY <1>5, PromotionAssumption DEF CoreUpdate, vars, docroot, store
  <2>2. WorkOf(d)
    BY <2>1 DEF WorkInv, Running
  <2>3. Coming(d)' = Coming(d) /\ NewClaims(d)' = NewClaims(d)
    BY <2>1 DEF Coming, NewClaims
  <2> QED BY <2>1, <2>2, <2>3 DEF WorkOf, Whereabouts, InPlace, AtHand, Visits, Residue,
        Unblocked, Blocking
<1> QED BY <1>1, <1>2, <1>3, <1>4, <1>5 DEF Next

\* The inductive invariant of the theorems about links.
SiteWorkInv == Inv /\ SiteInv /\ RunInv /\ WorkInv

LEMMA SiteWorkHolds == Spec => []SiteWorkInv
<1>1. Init => RunInv /\ WorkInv
  BY RunInit, WorkInit
<1>2. Inv /\ Inv' /\ SiteInv /\ RunInv /\ WorkInv /\ [Next]_vars
        => SiteInv' /\ RunInv' /\ WorkInv'
  BY SiteNext, RunNext, WorkNext DEF Inv, SiteInv
<1> QED BY <1>1, <1>2, InvHolds, SiteInit, PTL DEF Spec, SiteWorkInv
-----------------------------------------------------------------------------
\* Only the command of d moves d on.
LEMMA OwnStep ==
  ASSUME TypeInv, [Next]_vars, NEW d \in Deployments, pc[d] # "idle",
         <<pc'[d], job'[d]>> # <<pc[d], job[d]>>
  PROVE  CommandStep(d) \/ Fault(d) \/ Crash(d)
<1>1. ~ Start(d)
  BY DEF Start, NoOp, StartDeploy, StartRollback, Begin
<1>2. \A e \in Deployments \ {d} : ~ (Start(e) \/ CommandStep(e) \/ Fault(e) \/ Crash(e))
  BY OthersUntouched
<1>3. ~ CoreUpdate /\ ~ UNCHANGED vars
  BY DEF CoreUpdate, vars
<1> QED BY <1>1, <1>2, <1>3 DEF Next

\* A deploy succeeds with its metadata, a rollback with the removal of its marker.
LEMMA SuccessKinds ==
  ASSUME TypeInv, [Next]_vars, NEW d \in Deployments, Finishes(d, "success")
  PROVE  Document(d) \/ (Unmark(d) /\ job[d].kind # "deploy")
<1>1. pc[d] # "idle" /\ pc'[d] = "idle" /\ verdict'[d] = "success"
  BY DEF Finishes
<1>2. ~ Unwind(d) /\ ~ Crash(d) /\ ~ NoSuchRelease(d)
  BY <1>1 DEF Unwind, Crash, NoSuchRelease, Exit, TypeInv, ControlOK
<1>3. CommandStep(d)
  BY <1>1, <1>2, OwnStep DEF Fault
<1>4. ~ Proceeds(d) /\ ~ Fails(d) /\ ~ Adopt(d) /\ ~ Compute(d) /\ ~ SwitchCurrent(d)
        /\ ~ Prune(d)
  BY <1>1, <1>2, GotoAt DEF Proceeds, Fails, Adopt, Compute, SwitchCurrent, Prune
<1>5. CASE Document(d)
  BY <1>5
<1>6. CASE Ends(d)
  <2>1. job[d].kind # "deploy"
    BY <1>1, <1>6 DEF Ends
  <2>2. \A l, k : Goto(d, l, k) => l = "idle"
    BY <1>1, GotoAt
  <2>3. Unmark(d) \/ Document(d)
    BY <1>1, <1>2, <1>3, <1>4, <2>2
    DEF CommandStep, TidyOne, TidyDone, Probe, Mark, Scan, Refuse, Inspect, Unlink,
        StartReconcile, Check, Reject, Place, CannotPlace, Stray, Swap, CannotSwap,
        Record, Drop, DoneRetiring, Verify, CannotVerify, RunHook, DonePruning, Fail
  <2> QED BY <2>1, <2>3
<1> QED BY <1>3, <1>4, <1>5, <1>6, StepKinds

\* What stands when a command has succeeded.
LEMMA Succeeded ==
  ASSUME SiteWorkInv, [Next]_vars, NEW d \in Deployments, Finishes(d, "success")
  PROVE  /\ WorkOf(d) /\ UNCHANGED <<node, tmp, incoming, log>>
         /\ pc[d] \in {"unmark", "document"} /\ (job[d].kind = "deploy" => pc[d] = "document")
         /\ pc[d] = "unmark" => marker' = Cleared(d)
         /\ pc[d] = "document" => marker' = marker
         /\ Active(d) = Coming(d) /\ Active(d)' = Active(d) /\ Active(d) \in Commits
<1>1. /\ pc[d] # "idle" /\ TypeInv /\ WorkOf(d)
  BY DEF Finishes, SiteWorkInv, WorkInv, Running, Inv
<1>2. Document(d) \/ (Unmark(d) /\ job[d].kind # "deploy")
  BY <1>1, SuccessKinds
<1>3. /\ UNCHANGED <<node, tmp, incoming, log, stored, current>>
      /\ pc[d] \in {"unmark", "document"} /\ (job[d].kind = "deploy" => pc[d] = "document")
      /\ pc[d] = "unmark" => marker' = Cleared(d)
      /\ pc[d] = "document" => marker' = marker
  BY <1>2 DEF Document, Unmark, docroot, store
<1>4. Phase(d, pc[d], job[d])
  BY <1>1 DEF SiteWorkInv, Inv, StoreInv
<1>5. current[d] = job[d].run /\ stored[d][job[d].run] \in Commits
  BY <1>3, <1>4 DEF Phase, Known, AfterSwitch, BeforeSwitch, Labels
<1>6. Active(d) = Coming(d) /\ Active(d)' = Active(d)
  BY <1>3, <1>5 DEF Active, Coming
<1>7. job[d].run # 0
  BY <1>1 DEF TypeInv, HasWork, RunningJob, Ids
<1> QED BY <1>1, <1>3, <1>5, <1>6, <1>7 DEF Coming

\* A deploy or rollback that succeeds has published exactly the claims of its
\* release, wherever no other deployment works: it has linked each one
\* (reconcileNewClaims) and removed every other link of its deployment
\* (cleanupOverlappingRemovedClaims, removeOwnedClaim), whatever failed or killed
\* commands had left.
THEOREM PublishesExactly == Spec => SuccessPublishesExactly
<1> DEFINE Exact(d) == \A p \in PublicPaths : Undisputed(d, p) =>
                         /\ (p \in Links(d)') = (p \in OldClaims(d)')
                         /\ p \in Links(d)' => Leads(p)'
<1>1. ASSUME SiteWorkInv, [Next]_vars, NEW d \in Deployments, Finishes(d, "success")
      PROVE  Exact(d)
  <2> SUFFICES ASSUME NEW p \in PublicPaths, Undisputed(d, p)
               PROVE  /\ (node'[p] = d) = (p \in NewClaims(d))
                      /\ node'[p] = d => p \in Resolves[Coming(d)]
    <3>1. OldClaims(d)' = NewClaims(d)
      BY <1>1, Succeeded DEF OldClaims, NewClaims
    <3>2. Links(d)' = {q \in PublicPaths : node'[q] = d}
      BY DEF Links
    <3>3. \A q : node'[q] = d /\ q \in Resolves[Coming(d)] => Leads(q)'
      BY <1>1, Succeeded DEF Leads
    <3> QED BY <3>1, <3>2, <3>3
  <2>1. /\ WorkOf(d) /\ node' = node /\ pc[d] \in {"unmark", "document"}
    BY <1>1, Succeeded
  <2>2. node[p] = d => p \in NewClaims(d)
    BY <2>1, UndisputedAbove DEF WorkOf, Whereabouts, Done
  <2>3. p \in NewClaims(d) => node[p] = d
    BY <2>1 DEF WorkOf, InPlace, Claimed, Replacing, AfterSwitch, BeforeSwitch, Labels
  <2>4. p \in NewClaims(d) => p \in Resolves[Coming(d)]
    BY <2>1 DEF WorkOf, Visits, Done
  <2> QED BY <2>1, <2>2, <2>3, <2>4
<1>2. SiteWorkInv /\ [Next]_vars
        => [\A d \in Deployments : Finishes(d, "success") => Exact(d)]_vars
  BY <1>1
<1> QED BY <1>2, SiteWorkHolds, PTL DEF Spec, SuccessPublishesExactly

\* A command that succeeds leaves no record of exchanges, no staging of a deploy,
\* no marker of its own and nothing beside its claims: the clean-up at the start
\* of promoteLocked and its deferred calls cover what earlier commands left.
THEOREM LeavesNoResidue == Spec => SuccessLeavesNoResidue
<1> DEFINE Clean(d) ==
             /\ log'[d] = {}
             /\ job[d].kind = "deploy" => incoming'[d] = {}
             /\ d \in Maintained => marker' # d
             /\ \A p \in OldClaims(d)' : Undisputed(d, p) => tmp'[p] = Nothing
<1>1. ASSUME SiteWorkInv, [Next]_vars, NEW d \in Deployments, Finishes(d, "success")
      PROVE  Clean(d)
  <2>1. /\ WorkOf(d) /\ UNCHANGED <<tmp, incoming, log>>
        /\ pc[d] \in {"unmark", "document"} /\ (job[d].kind = "deploy" => pc[d] = "document")
        /\ pc[d] = "unmark" => marker' = Cleared(d)
        /\ pc[d] = "document" => marker' = marker
    BY <1>1, Succeeded
  <2>2. OldClaims(d)' = NewClaims(d)
    BY <1>1, Succeeded DEF OldClaims, NewClaims
  <2>3. log[d] = {} /\ (job[d].kind = "deploy" => incoming[d] = {})
    BY <2>1 DEF WorkOf, Residue, AfterSwitch, BeforeSwitch, Labels, Early
  <2>4. d \in Maintained => marker' # d
    <3>1. d \in Maintained => Cleared(d) # d
      BY PromotionAssumption DEF Cleared, OwnsMarker
    <3> QED BY <2>1, <3>1 DEF WorkOf, Residue
  <2>5. \A p \in NewClaims(d) : Undisputed(d, p) => tmp[p] = Nothing
    BY <2>1 DEF WorkOf, InPlace, Claimed, Replacing, AfterSwitch, BeforeSwitch, Labels
  <2> QED BY <2>1, <2>2, <2>3, <2>4, <2>5
<1>2. SiteWorkInv /\ [Next]_vars
        => [\A d \in Deployments : Finishes(d, "success") => Clean(d)]_vars
  BY <1>1
<1> QED BY <1>2, SiteWorkHolds, PTL DEF Spec, SuccessLeavesNoResidue

\* A command that fails removes what it has staged, its marker, and its release if
\* the claims of that were still to be validated; a rollback leaves all releases
\* (the deferred calls of promoteLocked and Rollback).
THEOREM FailureCleans == Spec => FailureCleansUp
<1> DEFINE CleansUp(d) ==
             /\ IF job[d].kind = "deploy"
                THEN /\ job[d].run \notin incoming'[d]
                     /\ (job[d].run \in Stored(d)') <=> (pc[d] \notin Unvalidated)
                ELSE Stored(d)' = Stored(d) /\ incoming'[d] = incoming[d]
             /\ (pc[d] \notin {"tidy", "probe"} /\ d \in Maintained) => marker' # d
<1>1. ASSUME SiteWorkInv, [Next]_vars, NEW d \in Running, Finishes(d, "failed")
      PROVE  CleansUp(d)
  <2>1. d \in Deployments /\ Inv /\ WorkOf(d)
    BY <1>1 DEF Running, SiteWorkInv, WorkInv
  <2>2. CASE NoSuchRelease(d)
    BY <2>2 DEF NoSuchRelease, store, Stored
  <2>3. CASE Unwind(d)
    <3>1. IF job[d].kind = "deploy"
          THEN (job[d].run \in Stored(d)') <=> (pc[d] \notin Unvalidated)
          ELSE Stored(d)' = Stored(d)
      BY <2>1, <2>3, UnwindRelease
    <3>2. IF job[d].kind = "deploy" THEN job[d].run \notin incoming'[d]
                                    ELSE incoming'[d] = incoming[d]
      BY <2>1, <2>3, UnwindStaging DEF Inv
    <3>3. CASE job[d].owned
      <4>1. d \in Maintained => marker' # d
        BY <2>3, <3>3, PromotionAssumption DEF Unwind, Cleared, OwnsMarker
      <4> QED BY <3>1, <3>2, <4>1
    <3>4. CASE ~ job[d].owned
      <4>1. (pc[d] \notin {"tidy", "probe"} /\ d \in Maintained) => marker' # d
        BY <2>1, <2>3, <3>4 DEF Unwind, WorkOf, Residue
      <4> QED BY <3>1, <3>2, <4>1
    <3> QED BY <3>3, <3>4
  <2> QED BY <1>1, <2>1, <2>2, <2>3, FailureKinds DEF Fails
<1>2. SiteWorkInv /\ [Next]_vars
        => [\A d \in Running : Finishes(d, "failed") => CleansUp(d)]_vars
  BY <1>1
<1> QED BY <1>2, SiteWorkHolds, PTL DEF Spec, FailureCleansUp
-----------------------------------------------------------------------------
\* What a step of its command does to what "current" of d points to.
LEMMA ActiveStep ==
  ASSUME TypeInv, StoreInv, NEW d \in Deployments, pc[d] # "idle",
         CommandStep(d) \/ Fault(d) \/ Crash(d), ~ Prune(d)
  PROVE  \/ Active(d)' = Active(d)
         \/ /\ current'[d] = job[d].run
            /\ Active(d)' = Coming(d) /\ Coming(d) \in Commits
<1>1. /\ Phase(d, pc[d], job[d]) /\ job[d].run \in Ids /\ job[d].run # 0
      /\ current[d] = 0 \/ current[d] \in Ids
      /\ stored \in [Deployments -> [Ids -> Commits \cup {NoCommit}]]
  BY PromotionAssumption DEF StoreInv, TypeInv, StoreOK, HasWork, RunningJob, Ids
<1>2. ASSUME UNCHANGED <<stored, current>> PROVE Active(d)' = Active(d)
  BY <1>2 DEF Active
<1>3. ASSUME current' = current, current[d] # job[d].run,
             \A r \in Ids \ {job[d].run} : stored'[d][r] = stored[d][r]
      PROVE  Active(d)' = Active(d)
  BY <1>1, <1>3 DEF Active
<1>4. CASE Unwind(d)
  <2>1. CASE job[d].fresh
    <3>1. current[d] # job[d].run
      BY <1>1, <2>1 DEF Phase, BeforeSwitch
    <3>2. /\ current' = current
          /\ stored' = [stored EXCEPT ![d][job[d].run] = NoCommit]
      BY <1>4, <2>1 DEF Unwind
    <3> QED BY <1>1, <1>3, <3>1, <3>2
  <2>2. CASE ~ job[d].fresh
    BY <1>2, <1>4, <2>2 DEF Unwind
  <2> QED BY <2>1, <2>2
<1>5. CASE Adopt(d)
  <2>1. current[d] # job[d].run
    BY <1>1, <1>5 DEF Adopt, Phase, BeforeSwitch
  <2>2. /\ current' = current
        /\ stored' = [stored EXCEPT ![d][job[d].run] = job[d].commit]
    BY <1>5 DEF Adopt
  <2> QED BY <1>1, <1>3, <2>1, <2>2
<1>6. CASE SwitchCurrent(d)
  <2>1. stored' = stored /\ current'[d] = job[d].run
    BY <1>6 DEF SwitchCurrent, TypeInv, StoreOK
  <2>2. stored[d][job[d].run] \in Commits
    BY <1>1, <1>6 DEF SwitchCurrent, Phase, Known
  <2> QED BY <1>1, <2>1, <2>2 DEF Active, Coming
<1>7. CASE Proceeds(d) \/ Ends(d) \/ Compute(d) \/ Document(d) \/ Crash(d)
  BY <1>2, <1>7 DEF Proceeds, Ends, Compute, Document, Crash, store
<1> QED BY <1>4, <1>5, <1>6, <1>7, StepKinds DEF Fails, Fault

\* What a step of its command does to a link of d.
LEMMA LinkFate ==
  ASSUME TypeInv, NEW d \in Deployments, AcceptedOf(d), pc[d] # "idle",
         CommandStep(d) \/ Fault(d) \/ Crash(d), NEW p \in PublicPaths, node[p] = d
  PROVE  LET q == First(job[d].todo) IN
           \/ node'[p] = d
           \/ Unlink(d) /\ p = q /\ q \in job[d].todo
           \/ Swap(d) /\ AtOrBelow(q, p) /\ q \in job[d].todo
<1> DEFINE q == First(job[d].todo)
<1>1. /\ node \in [PublicPaths -> Nodes] /\ d \notin Plain
      /\ job[d].todo # {} => q \in job[d].todo
  BY DocrootAssumption, FirstInSet DEF TypeInv, DocrootOK, ControlOK, Job
<1>2. CASE Unlink(d)
  <2>1. job[d].todo # {}
    BY <1>2 DEF Unlink, AcceptedOf, Accepts
  <2>2. node' = node \/ node' = [node EXCEPT ![q] = "none"]
    BY <1>2 DEF Unlink
  <2> QED BY <1>1, <1>2, <2>1, <2>2
<1>3. CASE Swap(d)
  <2>1. job[d].todo # {} /\ node' = Graft(node, q, tmp[q])
    BY <1>3 DEF Swap, TypeInv, HasWork, AtPath
  <2> QED BY <1>1, <1>3, <2>1 DEF Graft
<1>4. CASE Place(d) \/ CannotPlace(d)
  <2>1. node' = node \/ node' = MkdirParents(node, q)
    BY <1>4 DEF Place, CannotPlace
  <2> QED BY <1>1, <2>1 DEF MkdirParents, Plain
<1>5. ASSUME node' = node PROVE node'[p] = d
  BY <1>5
<1> QED
  BY <1>2, <1>3, <1>4, <1>5
  DEF Fault, Crash, CommandStep, TidyOne, TidyDone, Probe, NoSuchRelease, Mark, Scan,
      Adopt, Compute, Refuse, Inspect, StartReconcile, Check, Reject, Stray, CannotSwap,
      Record, Drop, SwitchCurrent, DoneRetiring, Verify, CannotVerify, RunHook, Unmark,
      Prune, DonePruning, Document, Fail, docroot

\* A step that the command of d is seen to take.
LEMMA ActsStep ==
  ASSUME SiteWorkInv, [Next]_vars, NEW d \in Deployments, Acts(d)
  PROVE  /\ TypeInv /\ StoreInv /\ AcceptedOf(d) /\ WorkOf(d) /\ pc[d] # "idle"
         /\ CommandStep(d) \/ Fault(d) \/ Crash(d)
         /\ ~ Prune(d)
<1>1. /\ TypeInv /\ StoreInv /\ AcceptedOf(d) /\ WorkOf(d) /\ pc[d] # "idle"
  BY DEF Acts, SiteWorkInv, Inv, SiteInv, AcceptedInv, WorkInv, Running
<1>2. <<pc'[d], job'[d]>> # <<pc[d], job[d]>>
  BY DEF Acts
<1>3. ~ Prune(d)
  BY <1>2 DEF Prune
<1> QED BY <1>1, <1>2, <1>3, OwnStep

\* No step of a command changes anything but what is at or below a path that an
\* accepted commit of its deployment claims, and directories on the way to one:
\* whatever other commands do in between, reconcileNewClaims, removeOwnedClaim
\* and cleanupExchangedPaths keep out of what is another's alone and the site's.
THEOREM TerritoryKept == Spec => StaysInTerritory
<1>1. ASSUME SiteWorkInv, [Next]_vars, NEW d \in Deployments, Acts(d),
             NEW p \in PublicPaths, node'[p] # node[p] \/ tmp'[p] # tmp[p],
             \A q \in Territory(d) : ~ AtOrBelow(q, p)
      PROVE  /\ node[p] = "none" /\ node'[p] = "bare" /\ tmp'[p] = tmp[p]
             /\ \E q \in Territory(d) : Ancestor(p, q)
  <2>1. TypeInv /\ AcceptedOf(d) /\ (CommandStep(d) \/ Fault(d) \/ Crash(d))
    BY <1>1, ActsStep
  <2>2. Left(p) /\ Passed(d, p)
    BY <1>1, <2>1, Reach
  <2> QED BY <1>1, <2>2 DEF Left, Passed
<1>2. SiteWorkInv /\ [Next]_vars
        => [\A d \in Deployments : Acts(d) =>
              \A p \in PublicPaths :
                (node'[p] # node[p] \/ tmp'[p] # tmp[p]) =>
                  \/ \E q \in Territory(d) : AtOrBelow(q, p)
                  \/ /\ node[p] = "none" /\ node'[p] = "bare" /\ tmp'[p] = tmp[p]
                     /\ \E q \in Territory(d) : Ancestor(p, q)]_vars
  BY <1>1
<1> QED BY <1>2, SiteWorkHolds, PTL DEF Spec, StaysInTerritory

\* A path that the old and the new release publish leads to content before and
\* after every step of a promotion, also one that fails or is killed:
\* reconcileNewClaims exchanges or renames, and a link through "current" changes
\* what it leads to at the switch only.
THEOREM SteadyClaimsStay == Spec => SteadyClaimsStayVisible
<1>1. ASSUME SiteWorkInv, [Next]_vars, NEW d \in Deployments, Acts(d),
             NEW p \in OldClaims(d) \cap NewClaims(d), Undisputed(d, p), node[p] = d,
             Leads(p), p \in Resolves[Coming(d)]
      PROVE  Leads(p)'
  <2> DEFINE q == First(job[d].todo)
  <2>1. /\ TypeInv /\ StoreInv /\ AcceptedOf(d) /\ WorkOf(d) /\ pc[d] # "idle"
        /\ CommandStep(d) \/ Fault(d) \/ Crash(d)
        /\ ~ Prune(d)
    BY <1>1, ActsStep
  <2>2. p \in PublicPaths
    BY ClaimsType DEF NewClaims
  <2>3. node'[p] = d
    <3>1. CASE Unlink(d) /\ p = q /\ q \in job[d].todo
      <4>1. pc[d] \in {"shed", "retire"}
        BY <3>1 DEF Unlink
      <4>2. q \in job[d].removed /\ job[d].removed \cap NewClaims(d) = {}
        BY <2>1, <3>1, <4>1 DEF WorkOf, Visits, Blocking
      <4> QED BY <3>1, <4>2
    <3>2. CASE Swap(d) /\ AtOrBelow(q, p) /\ q \in job[d].todo
      <4>1. /\ pc[d] = "swap" /\ node' = Graft(node, q, tmp[q])
        BY <3>2 DEF Swap
      <4>2. q \in NewClaims(d)
        BY <2>1, <3>2, <4>1 DEF WorkOf, Visits, Replacing
      <4>3. q = p
        BY <3>2, <4>2, NewAntichain DEF AtOrBelow, Overlap
      <4>4. tmp[q] = LinkAt(p, d)
        BY <1>1, <2>1, <2>2, <4>1, <4>3, UndisputedAbove DEF WorkOf, InPlace, AtHand
      <4>5. node'[p] = LinkAt(p, d)[p]
        BY <2>2, <3>2, <4>1, <4>4 DEF Graft
      <4> QED BY <2>2, <4>5 DEF LinkAt, Nothing
    <3> QED BY <1>1, <2>1, <2>2, <3>1, <3>2, LinkFate
  <2>4. Active(d)' = Active(d) \/ (Active(d)' = Coming(d) /\ Coming(d) \in Commits)
    BY <2>1, ActiveStep
  <2> QED BY <1>1, <2>3, <2>4 DEF Leads
<1>2. SiteWorkInv /\ [Next]_vars
        => [\A d \in Deployments : Acts(d) =>
              \A p \in OldClaims(d) \cap NewClaims(d) :
                (/\ Undisputed(d, p) /\ node[p] = d
                 /\ Leads(p) /\ p \in Resolves[Coming(d)]) => Leads(p)']_vars
  BY <1>1
<1> QED BY <1>2, SiteWorkHolds, PTL DEF Spec, SteadyClaimsStayVisible

\* A claim that the new release drops is served until the switch, unless a new
\* claim overlaps it: before switchCurrent only cleanupOverlappingRemovedClaims
\* removes links.
THEOREM RemovedAfterSwitch == Spec => RemovalAfterSwitch
<1>1. ASSUME SiteWorkInv, [Next]_vars, NEW d \in Deployments, Acts(d),
             NEW p \in OldClaims(d), node[p] = d, Leads(p), ~ Leads(p)',
             ~ OverlapsAny(NewClaims(d), p), current'[d] # job[d].run
      PROVE  FALSE
  <2> DEFINE q == First(job[d].todo)
  <2>1. /\ TypeInv /\ StoreInv /\ AcceptedOf(d) /\ WorkOf(d) /\ pc[d] # "idle"
        /\ CommandStep(d) \/ Fault(d) \/ Crash(d)
        /\ ~ Prune(d)
    BY <1>1, ActsStep
  <2>2. p \in PublicPaths
    BY ClaimsType DEF OldClaims
  <2>3. node'[p] = d
    <3>1. CASE Unlink(d) /\ p = q /\ q \in job[d].todo
      <4>1. pc[d] \in {"shed", "retire"} /\ current' = current
        BY <3>1 DEF Unlink, store
      <4>2. CASE pc[d] = "shed"
        <5>1. q \in Blocking(d, job[d].removed)
          BY <2>1, <3>1, <4>2 DEF WorkOf, Visits
        <5> QED BY <1>1, <3>1, <5>1 DEF Blocking
      <4>3. CASE pc[d] = "retire"
        <5>1. Phase(d, pc[d], job[d])
          BY <2>1 DEF StoreInv
        <5> QED BY <1>1, <4>1, <4>3, <5>1 DEF Phase, AfterSwitch, BeforeSwitch, Labels
      <4> QED BY <4>1, <4>2, <4>3
    <3>2. CASE Swap(d) /\ AtOrBelow(q, p) /\ q \in job[d].todo
      <4>1. q \in NewClaims(d)
        BY <2>1, <3>2 DEF Swap, WorkOf, Visits, Replacing
      <4> QED BY <1>1, <3>2, <4>1 DEF AtOrBelow, Overlap, OverlapsAny
    <3> QED BY <1>1, <2>1, <2>2, <3>1, <3>2, LinkFate
  <2>4. Active(d)' = Active(d)
    BY <1>1, <2>1, ActiveStep
  <2> QED BY <1>1, <2>3, <2>4 DEF Leads
<1>2. SiteWorkInv /\ [Next]_vars
        => [\A d \in Deployments : Acts(d) =>
              \A p \in OldClaims(d) :
                (node[p] = d /\ Leads(p) /\ ~ Leads(p)' /\ ~ OverlapsAny(NewClaims(d), p))
                  => current'[d] = job[d].run]_vars
  BY <1>1
<1> QED BY <1>2, SiteWorkHolds, PTL DEF Spec, RemovalAfterSwitch
-----------------------------------------------------------------------------
\* Entries exist only inside directories: in the docroot, in what stands beside a
\* path, and where that stands.
Tree(t, p) ==
  \A q \in PublicPaths : t[q] # "none" =>
    /\ AtOrBelow(p, q)
    /\ \A a \in PublicPaths : AtOrBelow(p, a) /\ Ancestor(a, q) => t[a] \in Dirs

SoundAt(p) == /\ Tree(tmp[p], p)
              /\ tmp[p] # Nothing => \A a \in Ancestors(p) : node[a] \in Dirs

SoundInv == WellFormed(node) /\ \A p \in PublicPaths : SoundAt(p)

\* "At or above" is an order on paths, and Ancestor its strict part.
LEMMA AncestorOrder ==
  ASSUME NEW p \in PublicPaths, NEW q \in PublicPaths, NEW r \in PublicPaths
  PROVE  /\ ~ Ancestor(p, p)
         /\ AtOrBelow(p, q) => ~ Ancestor(q, p)
         /\ AtOrBelow(p, q) /\ Ancestor(q, r) => Ancestor(p, r)
         /\ Ancestor(p, q) /\ AtOrBelow(q, r) => Ancestor(p, r)
<1>1. /\ p \in Seq(STRING) /\ q \in Seq(STRING) /\ r \in Seq(STRING)
      /\ Len(p) \in Nat /\ Len(q) \in Nat /\ Len(r) \in Nat
  BY DocrootAssumption, LenProperties
<1>2. AtOrBelow(p, q) /\ AtOrBelow(q, r) => AtOrBelow(p, r)
  BY <1>1, BelowTransitive
<1>3. Ancestor(p, q) => Len(p) < Len(q)
  BY DEF Ancestor
<1>4. Ancestor(q, r) => Len(q) < Len(r)
  BY DEF Ancestor
<1>5. AtOrBelow(p, q) => Len(p) <= Len(q)
  BY <1>1, <1>3 DEF AtOrBelow
<1>6. AtOrBelow(q, r) => Len(q) <= Len(r)
  BY <1>1, <1>4 DEF AtOrBelow
<1>7. Ancestor(q, p) => Len(q) < Len(p)
  BY DEF Ancestor
<1>8. ~ Ancestor(p, p)
  BY <1>1 DEF Ancestor
<1>9. AtOrBelow(p, q) => ~ Ancestor(q, p)
  BY <1>1, <1>5, <1>7
<1>10. AtOrBelow(p, r) /\ Len(p) < Len(r) => Ancestor(p, r)
  BY <1>1, <1>8 DEF AtOrBelow
<1>11. AtOrBelow(p, q) /\ Ancestor(q, r) => Ancestor(p, r)
  BY <1>1, <1>2, <1>4, <1>5, <1>10 DEF AtOrBelow
<1>12. Ancestor(p, q) /\ AtOrBelow(q, r) => Ancestor(p, r)
  BY <1>1, <1>2, <1>3, <1>6, <1>10 DEF AtOrBelow
<1> QED BY <1>8, <1>9, <1>11, <1>12

LEMMA NothingTree == ASSUME NEW p PROVE Tree(Nothing, p)
BY DEF Tree, Nothing

\* What is built beside a path, and what an exchange leaves there.
LEMMA LinkTree ==
  ASSUME NEW p \in PublicPaths, NEW d \in Deployments PROVE Tree(LinkAt(p, d), p)
<1>1. \A q \in PublicPaths : LinkAt(p, d)[q] # "none" => q = p
  BY DEF LinkAt, Nothing
<1>2. \A a \in PublicPaths : AtOrBelow(p, a) => ~ Ancestor(a, p)
  BY AncestorOrder
<1> QED BY <1>1, <1>2 DEF Tree, AtOrBelow

LEMMA DisplacedTree ==
  ASSUME WellFormed(node), NEW p \in PublicPaths PROVE Tree(Displaced(p), p)
<1> SUFFICES ASSUME NEW q \in PublicPaths, Displaced(p)[q] # "none"
             PROVE  /\ AtOrBelow(p, q)
                    /\ \A a \in PublicPaths : AtOrBelow(p, a) /\ Ancestor(a, q)
                         => Displaced(p)[a] \in Dirs
  BY DEF Tree
<1>1. AtOrBelow(p, q) /\ node[q] # "none"
  BY DEF Displaced
<1>2. ASSUME NEW a \in PublicPaths, AtOrBelow(p, a), Ancestor(a, q)
      PROVE  Displaced(p)[a] \in Dirs
  <2>1. node[a] \in Dirs
    BY <1>1, <1>2 DEF WellFormed, Ancestors
  <2>2. Displaced(p)[a] \in {"full", node[a]}
    BY <1>2 DEF Displaced
  <2> QED BY <2>1, <2>2 DEF Dirs
<1> QED BY <1>1, <1>2

\* os.MkdirAll where nothing but directories is in the way.
LEMMA MkdirSound ==
  ASSUME SoundInv, NEW p \in PublicPaths, Clear(p), node' = MkdirParents(node, p)
  PROVE  /\ WellFormed(node)' /\ \A a \in Ancestors(p) : node'[a] \in Dirs
         /\ \A q \in PublicPaths : node[q] \in Dirs => node'[q] = node[q]
<1>1. \A a \in Ancestors(p) : node'[a] \in Dirs
  BY DEF Clear, MkdirParents, Ancestors, Dirs
<1>2. \A q \in PublicPaths : node[q] \in Dirs => node'[q] = node[q]
  BY DEF MkdirParents, Dirs
<1>3. ASSUME NEW q \in PublicPaths, node'[q] # "none", NEW a \in Ancestors(q)
      PROVE  node'[a] \in Dirs
  <2>1. a \in PublicPaths /\ Ancestor(a, q)
    BY DEF Ancestors
  <2>2. CASE node[q] # "none"
    BY <1>2, <2>1, <2>2 DEF SoundInv, WellFormed
  <2>3. CASE node[q] = "none"
    <3>1. Ancestor(q, p)
      BY <1>3, <2>3 DEF MkdirParents
    <3>2. a \in Ancestors(p)
      BY <2>1, <3>1, AncestorOrder DEF Ancestors, AtOrBelow
    <3> QED BY <1>1, <3>2
  <2> QED BY <2>2, <2>3
<1> QED BY <1>1, <1>2, <1>3 DEF WellFormed

\* Every step of a command leaves trees.
LEMMA SoundStep ==
  ASSUME TypeInv, SoundInv, NEW d \in Deployments, AcceptedOf(d), pc[d] # "idle",
         CommandStep(d) \/ Fault(d) \/ Crash(d)
  PROVE  SoundInv'
<1> DEFINE p == First(job[d].todo)
<1>j. /\ DocrootOK /\ (pc[d] \in AtPath => p \in PublicPaths)
      /\ job[d].todo # {} => p \in PublicPaths
  BY NextPath DEF TypeInv, HasWork
<1>w. WellFormed(node) /\ \A q \in PublicPaths : SoundAt(q)
  BY DEF SoundInv
<1>1. ASSUME node' = node,
             \A q \in PublicPaths : tmp'[q] = tmp[q] \/ tmp'[q] = Nothing
      PROVE  SoundInv'
  <2>1. WellFormed(node)'
    BY <1>1, <1>w
  <2>2. ASSUME NEW q \in PublicPaths PROVE SoundAt(q)'
    BY <1>1, <1>w, NothingTree DEF SoundAt, Tree
  <2> QED BY <2>1, <2>2 DEF SoundInv
<1>2. CASE TidyOne(d) \/ Drop(d) \/ Fault(d)
  <2>1. node' = node /\ (tmp' = tmp \/ \E q : tmp' = [tmp EXCEPT ![q] = Nothing])
    BY <1>2 DEF TidyOne, Drop, Fault
  <2>2. \A q \in PublicPaths : tmp'[q] = tmp[q] \/ tmp'[q] = Nothing
    BY <1>j, <2>1 DEF DocrootOK
  <2> QED BY <1>1, <2>1, <2>2
<1>3. CASE Unlink(d)
  <2>1. p \in PublicPaths /\ tmp' = tmp
    BY <1>3, <1>j DEF Unlink, AcceptedOf, Accepts
  <2>2. CASE ~ Removable(Displaced(p), p)
    BY <1>1, <1>3, <2>1, <2>2 DEF Unlink
  <2>3. CASE Removable(Displaced(p), p)
    <3>1. /\ node' = [node EXCEPT ![p] = "none"]
          /\ \A q \in PublicPaths : node'[q] = IF q = p THEN "none" ELSE node[q]
      BY <1>3, <1>j, <2>3 DEF Unlink, DocrootOK
    <3>2. Displaced(p)[p] = node[p] \/ (node[p] = "bare" /\ Displaced(p)[p] = "full")
      BY <2>1 DEF Displaced, AtOrBelow
    <3>3. ASSUME node[p] \in Dirs
          PROVE  \A q \in Below(p) : node[q] = "none" /\ tmp[q] = Nothing
      <4>1. Displaced(p)[p] = "bare" /\ \A q \in Below(p) : Displaced(p)[q] = "none"
        BY <2>3, <3>2, <3>3 DEF Removable, Dirs
      <4>2. \A q \in Below(p) : node[q] = "none"
        BY <4>1 DEF Displaced, Below, AtOrBelow
      <4>3. \A q \in Below(p) : tmp[q] = Nothing
        BY <2>1, <3>2, <3>3, <4>1 DEF Displaced, Below, AtOrBelow
      <4> QED BY <4>2, <4>3
    <3>4. WellFormed(node)'
      <4> SUFFICES ASSUME NEW q \in PublicPaths, node'[q] # "none", NEW a \in Ancestors(q)
                   PROVE  node'[a] \in Dirs
        BY DEF WellFormed
      <4>1. a \in PublicPaths /\ Ancestor(a, q) /\ node[q] # "none" /\ node[a] \in Dirs
        BY <1>w, <3>1 DEF WellFormed, Ancestors
      <4>2. a # p
        BY <3>3, <4>1 DEF Below
      <4> QED BY <3>1, <4>1, <4>2
    <3>5. ASSUME NEW q \in PublicPaths PROVE SoundAt(q)'
      <4>1. ASSUME tmp[q] # Nothing, NEW a \in Ancestors(q) PROVE node'[a] \in Dirs
        <5>1. a \in PublicPaths /\ Ancestor(a, q) /\ node[a] \in Dirs
          BY <1>w, <4>1 DEF SoundAt, Ancestors
        <5>2. a # p
          BY <3>3, <4>1, <5>1 DEF Below
        <5> QED BY <3>1, <5>1, <5>2
      <4> QED BY <1>w, <2>1, <4>1 DEF SoundAt, Tree
    <3> QED BY <3>4, <3>5 DEF SoundInv
  <2> QED BY <2>2, <2>3
<1>4. CASE Place(d)
  <2>1. /\ Clear(p) /\ node' = MkdirParents(node, p) /\ p \in PublicPaths
        /\ tmp' = [tmp EXCEPT ![p] = LinkAt(p, d)]
    BY <1>4, <1>j DEF Place, AtPath
  <2>2. /\ WellFormed(node)' /\ \A a \in Ancestors(p) : node'[a] \in Dirs
        /\ \A q \in PublicPaths : node[q] \in Dirs => node'[q] = node[q]
    BY <2>1, MkdirSound
  <2>3. ASSUME NEW q \in PublicPaths PROVE SoundAt(q)'
    <3>1. CASE q = p
      <4>1. tmp'[q] = LinkAt(p, d)
        BY <1>j, <2>1, <3>1 DEF DocrootOK
      <4> QED BY <2>2, <3>1, <4>1, LinkTree DEF SoundAt, Tree
    <3>2. CASE q # p
      <4>1. tmp'[q] = tmp[q]
        BY <1>j, <2>1, <3>2 DEF DocrootOK
      <4> QED BY <1>w, <2>2, <4>1 DEF SoundAt, Tree, Ancestors
    <3> QED BY <3>1, <3>2
  <2> QED BY <2>2, <2>3 DEF SoundInv
<1>5. CASE CannotPlace(d)
  <2>1. /\ p \in PublicPaths /\ tmp' = tmp
        /\ (Clear(p) /\ node' = MkdirParents(node, p)) \/ node' = node
    BY <1>5, <1>j DEF CannotPlace, AtPath
  <2>2. CASE node' = node
    BY <1>1, <2>1, <2>2
  <2>3. CASE Clear(p) /\ node' = MkdirParents(node, p)
    <3>1. /\ WellFormed(node)'
          /\ \A q \in PublicPaths : node[q] \in Dirs => node'[q] = node[q]
      BY <2>1, <2>3, MkdirSound
    <3>2. \A q \in PublicPaths : SoundAt(q)'
      BY <1>w, <2>1, <3>1 DEF SoundAt, Tree, Ancestors
    <3> QED BY <3>1, <3>2 DEF SoundInv
  <2> QED BY <2>1, <2>2, <2>3
<1>6. CASE Swap(d)
  <2>1. /\ node' = Graft(node, p, tmp[p]) /\ tmp' = Exchanged(p) /\ p \in PublicPaths
        /\ tmp[p] # Nothing
    BY <1>6, <1>j DEF Swap, AtPath
  <2>2. /\ Tree(tmp[p], p) /\ \A a \in Ancestors(p) : node[a] \in Dirs
    BY <1>w, <2>1 DEF SoundAt
  <2>3. \A q \in PublicPaths : node'[q] = IF AtOrBelow(p, q) THEN tmp[p][q] ELSE node[q]
    BY <2>1 DEF Graft
  <2>4. WellFormed(node)'
    <3> SUFFICES ASSUME NEW q \in PublicPaths, node'[q] # "none", NEW a \in PublicPaths,
                        Ancestor(a, q)
                 PROVE  node'[a] \in Dirs
      BY DEF WellFormed, Ancestors
    <3>1. CASE AtOrBelow(p, a)
      <4>1. AtOrBelow(p, q)
        BY <2>1, <3>1, AncestorOrder DEF AtOrBelow
      <4> QED BY <2>2, <2>3, <3>1, <4>1 DEF Tree
    <3>2. CASE ~ AtOrBelow(p, a) /\ AtOrBelow(p, q)
      <4>1. Ancestor(a, p)
        <5>1. Len(a) <= Len(p) \/ Len(p) <= Len(a)
          BY <2>1, DocrootAssumption, LenProperties
        <5>2. AtOrBelow(a, q)
          BY DEF AtOrBelow
        <5>3. AtOrBelow(a, p)
          BY <2>1, <3>2, <5>1, <5>2, PrefixChain, DocrootAssumption
        <5> QED BY <3>2, <5>3 DEF AtOrBelow
      <4> QED BY <2>2, <2>3, <3>2, <4>1 DEF Ancestors
    <3>3. CASE ~ AtOrBelow(p, a) /\ ~ AtOrBelow(p, q)
      BY <1>w, <2>3, <3>3 DEF WellFormed, Ancestors
    <3> QED BY <3>1, <3>2, <3>3
  <2>5. ASSUME NEW q \in PublicPaths PROVE SoundAt(q)'
    <3>1. CASE Ancestor(p, q) \/ tmp'[q] = Nothing
      <4>1. tmp'[q] = Nothing
        BY <2>1, <3>1, AncestorOrder DEF Exchanged
      <4> QED BY <4>1, NothingTree DEF SoundAt, Tree
    <3>2. CASE q = p /\ tmp'[q] # Nothing
      <4>1. tmp'[q] = Displaced(p)
        BY <2>1, <3>2 DEF Exchanged
      <4>2. \A a \in Ancestors(p) : node'[a] = node[a]
        BY <2>1, <2>3, AncestorOrder DEF Ancestors
      <4> QED BY <1>w, <2>1, <2>2, <3>2, <4>1, <4>2, DisplacedTree DEF SoundAt, Tree
    <3>3. CASE q # p /\ ~ Ancestor(p, q)
      <4>1. tmp'[q] = tmp[q]
        BY <2>1, <3>3 DEF Exchanged
      <4>2. \A a \in Ancestors(q) : node'[a] = node[a]
        BY <2>1, <2>3, <3>3, AncestorOrder DEF Ancestors
      <4> QED BY <1>w, <4>1, <4>2 DEF SoundAt, Tree
    <3> QED BY <3>1, <3>2, <3>3
  <2> QED BY <2>4, <2>5 DEF SoundInv
<1>7. CASE UNCHANGED <<node, tmp>>
  BY <1>1, <1>7
<1> QED
  BY <1>2, <1>3, <1>4, <1>5, <1>6, <1>7
  DEF Crash, CommandStep, TidyDone, Probe, NoSuchRelease, Mark, Scan, Adopt, Compute,
      Refuse, Inspect, StartReconcile, Check, Reject, Stray, CannotSwap, Record,
      SwitchCurrent, DoneRetiring, Verify, CannotVerify, RunHook, Unmark, Prune,
      DonePruning, Document, Fail, docroot

LEMMA SoundInit == Init => SoundInv
<1> SUFFICES ASSUME Init PROVE SoundInv
  OBVIOUS
<1>1. WellFormed(node)
  BY InitialDocroot DEF Init
<1>2. \A p \in PublicPaths : tmp[p] = Nothing
  BY DEF Init
<1> QED BY <1>1, <1>2, NothingTree DEF SoundInv, SoundAt

LEMMA SoundNext == TypeInv /\ AcceptedInv /\ SoundInv /\ [Next]_vars => SoundInv'
<1> SUFFICES ASSUME TypeInv, AcceptedInv, SoundInv, [Next]_vars PROVE SoundInv'
  OBVIOUS
<1>1. ASSUME UNCHANGED <<node, tmp>> PROVE SoundInv'
  <2>1. WellFormed(node)'
    BY <1>1 DEF SoundInv
  <2>2. \A p \in PublicPaths : SoundAt(p)'
    BY <1>1 DEF SoundInv, SoundAt, Tree
  <2> QED BY <2>1, <2>2 DEF SoundInv
<1>2. ASSUME NEW d \in Deployments, CommandStep(d) \/ Fault(d) \/ Crash(d) PROVE SoundInv'
  BY <1>2, StepRuns, SoundStep DEF AcceptedInv, Fault, Crash, Fallible
<1>3. CASE (\E d \in Deployments : Start(d)) \/ CoreUpdate \/ UNCHANGED vars
  BY <1>1, <1>3 DEF Start, NoOp, StartDeploy, StartRollback, CoreUpdate, vars, docroot
<1> QED BY <1>2, <1>3 DEF Next

\* What is under the docroot is inside directories, all the way down: exchanging
\* whole directories, with the temporary links of others inside, and making the
\* parents of a claim never leave an entry under a link, a file or nothing.
THEOREM DocrootIsTree == Spec => []WellFormed(node)
<1>1. SiteWorkInv /\ SoundInv /\ [Next]_vars => SoundInv'
  BY SoundNext DEF SiteWorkInv, Inv, SiteInv
<1>2. SoundInv => WellFormed(node)
  BY DEF SoundInv
<1> QED BY <1>1, <1>2, SiteWorkHolds, SoundInit, PTL DEF Spec
-----------------------------------------------------------------------------
\* What the only command that runs has read is still so.
SoleOf(d) ==
  /\ pc[d] \in {"place", "swap"} => ~ ForeignDescendant(d, First(job[d].todo))
  /\ job[d].ours => node[First(job[d].todo)] = d

SoleInv == MaxActive = 1 => \A d \in Running : SoleOf(d)

\* Where one command runs at a time, no other command moves while d runs.
LEMMA OthersWait ==
  ASSUME RunInv, MaxActive = 1, NEW d \in Running, NEW e \in Deployments \ {d}
  PROVE  ~ (Start(e) \/ CommandStep(e) \/ Fault(e) \/ Crash(e))
<1>1. ~ Start(e)
  <2>1. Cardinality(Running) \in Nat /\ Cardinality(Running) # 0
    BY FS_CardinalityType, FS_EmptySet DEF RunInv
  <2>2. ~ Begin(e)
    BY <2>1 DEF Begin
  <2> QED BY <2>2 DEF Start, NoOp, StartDeploy, StartRollback
<1>2. pc[e] = "idle"
  BY DEF RunInv, Running
<1> QED BY <1>1, <1>2, StepRuns DEF Fault, Crash, Fallible

\* What a command has read of the docroot holds until its next step uses it.
LEMMA SoleStep ==
  ASSUME TypeInv, NEW d \in Deployments, AcceptedOf(d), AcceptedOf(d)', CommandStep(d),
         pc'[d] # "idle", SoleOf(d)
  PROVE  SoleOf(d)'
<1> DEFINE j == job[d]
           p == First(j.todo)
<1>j. /\ j \in Job /\ DocrootOK /\ pc[d] # "idle" /\ Accepts(d, pc[d], j)
      /\ j.todo # {} => p \in PublicPaths
      /\ pc'[d] # "idle" /\ (job'[d].ours => pc'[d] \in {"shed", "retire"})
  BY StepRuns, NextPath DEF TypeInv, ControlOK, AcceptedOf, Accepts
<1>1. ASSUME pc'[d] \notin {"place", "swap"}, ~ job'[d].ours PROVE SoleOf(d)'
  BY <1>1 DEF SoleOf
<1>2. CASE Check(d)
  <2>1. /\ pc'[d] = "place" /\ job'[d] = j /\ UNCHANGED <<node, tmp>>
        /\ ~ ForeignDescendant(d, p)
    BY <1>2, GotoAt DEF Check, docroot
  <2> QED BY <1>j, <2>1 DEF SoleOf, ForeignDescendant
<1>3. CASE Place(d)
  <2>1. /\ pc'[d] = "swap" /\ job'[d] = j /\ node' = MkdirParents(node, p)
        /\ tmp' = [tmp EXCEPT ![p] = LinkAt(p, d)] /\ p \in PublicPaths
        /\ ~ ForeignDescendant(d, p)
    BY <1>3, <1>j, GotoAt DEF Place, SoleOf, TypeInv, HasWork, AtPath
  <2>2. \A q \in Below(p) : node'[q] = node[q] /\ tmp'[q] = tmp[q] /\ q \in PublicPaths
    BY <1>j, <2>1, AncestorOrder DEF Below, MkdirParents, DocrootOK, AtOrBelow
  <2>3. node'[p] = node[p]
    BY <2>1, AncestorOrder DEF MkdirParents
  <2>4. ~ ForeignDescendant(d, p)'
    BY <2>1, <2>2, <2>3 DEF ForeignDescendant
  <2> QED BY <1>j, <2>1, <2>4 DEF SoleOf
<1>4. CASE Inspect(d)
  <2>1. /\ pc'[d] = pc[d] /\ pc[d] \in {"shed", "retire"} /\ node' = node /\ ~ j.ours
        /\ job'[d] = IF node[p] = d THEN [j EXCEPT !.ours = TRUE]
                                    ELSE [j EXCEPT !.todo = @ \ {p}]
    BY <1>4, GotoAt DEF Inspect, docroot
  <2>2. CASE node[p] = d
    <3>1. job'[d].todo = j.todo
      BY <1>j, <2>1, <2>2 DEF Job
    <3> QED BY <2>1, <2>2, <3>1 DEF SoleOf
  <2>3. CASE node[p] # d
    <3>1. ~ job'[d].ours
      BY <1>j, <2>1, <2>3 DEF Job
    <3> QED BY <1>1, <2>1, <3>1
  <2> QED BY <2>2, <2>3
<1>5. CASE Unlink(d)
  <2> DEFINE k == [j EXCEPT !.todo = @ \ {p}, !.ours = FALSE]
  <2>1. Goto(d, pc[d], k) /\ pc[d] \in {"shed", "retire"}
    BY <1>5 DEF Unlink
  <2>2. ~ k.ours
    BY <1>j DEF Job
  <2> HIDE DEF k
  <2> QED BY <1>1, <2>1, <2>2, GotoAt
<1>6. CASE TidyOne(d) \/ TidyDone(d)
  <2>1. pc'[d] \in {"tidy", "settle", "probe", "retire"} /\ job'[d].ours = j.ours
          /\ pc[d] \in {"tidy", "settle"}
    BY <1>6, <1>j, GotoAt DEF TidyOne, TidyDone, Job
  <2> QED BY <1>1, <1>j, <2>1 DEF Accepts
<1>7. CASE Compute(d)
  <2> DEFINE k == [Validated(j) EXCEPT !.links = {}, !.removed = Removals(d),
                                       !.todo = Blocking(d, Removals(d))]
  <2>1. Goto(d, "shed", k) /\ pc[d] = "compute"
    BY <1>7 DEF Compute
  <2>2. k.ours = j.ours
    BY <1>j DEF Validated, Job
  <2> HIDE DEF k
  <2> QED BY <1>1, <1>j, <2>1, <2>2, GotoAt DEF Accepts
<1>8. ASSUME NEW l, NEW k, Goto(d, l, k), l \notin {"shed", "retire", "place", "swap"}
      PROVE  SoleOf(d)'
  BY <1>1, <1>j, <1>8, GotoAt
<1>9. CASE Probe(d) \/ Mark(d) \/ Scan(d) \/ Adopt(d) \/ StartReconcile(d) \/ Record(d)
             \/ Drop(d) \/ SwitchCurrent(d) \/ DoneRetiring(d) \/ RunHook(d) \/ DonePruning(d)
  BY <1>8, <1>9 DEF Probe, Mark, Scan, Adopt, StartReconcile, Record, Drop,
     SwitchCurrent, DoneRetiring, RunHook, DonePruning
<1>10. CASE Stray(d) \/ Swap(d) \/ Verify(d) \/ Unmark(d)
  <2>1. (\E l, k : Goto(d, l, k) /\ l \notin {"shed", "retire", "place", "swap"})
          \/ Exit(d, "success")
    BY <1>10 DEF Stray, Swap, Verify, Unmark
  <2> QED BY <1>8, <1>j, <2>1 DEF Exit, TypeInv, ControlOK
<1>11. CASE Prune(d)
  <2>1. pc[d] = "prune" /\ pc'[d] = pc[d]
    BY <1>11 DEF Prune
  <2> QED BY <1>1, <1>j, <2>1
<1>12. CASE Unwind(d) \/ NoSuchRelease(d) \/ Document(d)
  BY <1>12, <1>j DEF Unwind, NoSuchRelease, Document, Exit, TypeInv, ControlOK
<1> QED
  BY <1>2, <1>3, <1>4, <1>5, <1>6, <1>6, <1>7, <1>9, <1>10, <1>11, <1>12
  DEF CommandStep, Refuse, Reject, CannotPlace, CannotSwap, CannotVerify, Fail

LEMMA SoleInit == Init => SoleInv
BY DEF Init, SoleInv, Running

LEMMA SoleNext ==
  TypeInv /\ RunInv /\ AcceptedInv /\ AcceptedInv' /\ SoleInv /\ [Next]_vars => SoleInv'
<1> SUFFICES ASSUME TypeInv, RunInv, AcceptedInv, AcceptedInv', SoleInv, [Next]_vars,
                    MaxActive = 1, NEW d \in Deployments, pc'[d] # "idle"
             PROVE  SoleOf(d)'
  BY DEF SoleInv, Running
<1>1. CASE Start(d)
  <2>1. pc'[d] = "tidy" \/ pc'[d] = pc[d]
    BY <1>1, GotoAt DEF Start, NoOp, StartDeploy, StartRollback
  <2>2. pc[d] = "idle"
    BY <1>1 DEF Start, NoOp, StartDeploy, StartRollback, Begin
  <2>3. ~ job'[d].ours
    BY <2>1, <2>2 DEF AcceptedInv, AcceptedOf, Accepts
  <2> QED BY <2>1, <2>2, <2>3 DEF SoleOf
<1>2. CASE CommandStep(d)
  BY <1>2, StepRuns, SoleStep DEF SoleInv, Running, AcceptedInv
<1>3. CASE Fault(d) \/ Crash(d)
  BY <1>3 DEF Fault, Crash, Unwind, Exit, TypeInv, ControlOK
<1>4. ASSUME NEW e \in Deployments \ {d}, Start(e) \/ CommandStep(e) \/ Fault(e) \/ Crash(e)
      PROVE  FALSE
  <2>1. d \in Running
    BY <1>4, OthersUntouched DEF Running
  <2> QED BY <1>4, <2>1, OthersWait
<1>5. CASE CoreUpdate \/ UNCHANGED vars
  <2>1. UNCHANGED <<node, tmp, pc, job>>
    BY <1>5 DEF CoreUpdate, vars, docroot
  <2>2. SoleOf(d)
    BY <2>1 DEF SoleInv, Running
  <2> QED BY <2>1, <2>2 DEF SoleOf, ForeignDescendant
<1> QED BY <1>1, <1>2, <1>3, <1>4, <1>5 DEF Next

\* The inductive invariant of the theorems about commands that run one at a time.
SoleSiteInv == SiteWorkInv /\ SoundInv /\ SoleInv

LEMMA SoleSiteHolds == Spec => []SoleSiteInv
<1>1. Init => SoundInv /\ SoleInv
  BY SoundInit, SoleInit
<1>2. SiteWorkInv /\ SiteWorkInv' /\ SoundInv /\ SoleInv /\ [Next]_vars => SoundInv' /\ SoleInv'
  BY SoundNext, SoleNext DEF SiteWorkInv, Inv, SiteInv
<1> QED BY <1>1, <1>2, SiteWorkHolds, PTL DEF Spec, SoleSiteInv

\* Where one command runs at a time (of all deployments: the lock is one for each
\* of them), a link of another deployment changes only into a link at exactly
\* that path: what rejectForeignDescendant and removeOwnedClaim have seen is
\* still so when the exchange or the removal is done.
THEOREM ForeignUntouched ==
  ASSUME MaxActive = 1 PROVE Spec => ForeignClaimsUntouched
<1>1. ASSUME SoleSiteInv, SoleSiteInv', [Next]_vars, NEW d \in Deployments, Acts(d)
      PROVE  /\ job'[d].strayed = {}
             /\ \A p \in PublicPaths : (node[p] \in Foreign(d) /\ node'[p] # node[p])
                                         => p \in NewClaims(d) /\ node'[p] = d
  <2> DEFINE q == First(job[d].todo)
  <2>1. /\ TypeInv /\ StoreInv /\ AcceptedOf(d) /\ WorkOf(d) /\ pc[d] # "idle"
        /\ CommandStep(d) \/ Fault(d) \/ Crash(d)
        /\ ~ Prune(d)
    BY <1>1, ActsStep DEF SoleSiteInv
  <2>2. \A p : Undisputed(d, p)
    BY DEF Undisputed
  <2>3. job'[d].strayed = {}
    <3>1. CASE pc'[d] # "idle"
      <4>1. InPlace(d, pc[d], job[d])'
        BY <1>1, <3>1 DEF SoleSiteInv, SiteWorkInv, WorkInv, WorkOf, Running
      <4> QED BY <2>2, <4>1 DEF InPlace
    <3>2. CASE pc'[d] = "idle"
      <4>1. ~ Proceeds(d) /\ ~ Adopt(d) /\ ~ Compute(d) /\ ~ SwitchCurrent(d)
        BY <2>1, <3>2, GotoAt DEF Proceeds, Adopt, Compute, SwitchCurrent
      <4>2. job'[d] = NoJob
        BY <2>1, <4>1, StepKinds DEF Ends, Fails, Fault, Crash, Unwind, Document, Exit,
           TypeInv, ControlOK
      <4> QED BY <4>2 DEF NoJob
    <3> QED BY <3>1, <3>2
  <2>4. ASSUME NEW p \in PublicPaths, node[p] \in Foreign(d), node'[p] # node[p]
        PROVE  p \in NewClaims(d) /\ node'[p] = d
    <3>1. /\ node \in [PublicPaths -> Nodes] /\ WellFormed(node) /\ SoleOf(d)
          /\ node[p] \in Deployments /\ node[p] # d
      BY <1>1, <2>1, <2>4 DEF TypeInv, DocrootOK, SoleSiteInv, SoundInv, SoleInv, Running,
         Foreign
    <3>2. CASE Unlink(d)
      <4>1. node[q] = d /\ (node' = node \/ node' = [node EXCEPT ![q] = "none"])
        BY <3>1, <3>2 DEF Unlink, SoleOf
      <4> QED BY <2>4, <3>1, <4>1
    <3>3. CASE Place(d) \/ CannotPlace(d)
      <4>1. node' = node \/ node' = MkdirParents(node, q)
        BY <3>3 DEF Place, CannotPlace
      <4> QED BY <2>4, <3>1, <4>1, DocrootAssumption DEF MkdirParents, Plain
    <3>4. CASE Swap(d)
      <4>1. /\ pc[d] = "swap" /\ node' = Graft(node, q, tmp[q])
            /\ q \in job[d].todo /\ q \in PublicPaths /\ AtOrBelow(q, p)
        BY <2>1, <2>4, <3>4, NextPath, FirstInSet
        DEF Swap, Graft, TypeInv, HasWork, AtPath, ControlOK, Job
      <4>2. ~ ForeignDescendant(d, q)
        BY <3>1, <4>1 DEF SoleOf
      <4>3. ~ Ancestor(q, p)
        <5> SUFFICES ASSUME Ancestor(q, p) PROVE FALSE
          OBVIOUS
        <5>1. node[q] \in Dirs
          BY <3>1, <4>1, DocrootAssumption DEF WellFormed, Ancestors, Plain
        <5> QED BY <2>4, <4>2, <5>1 DEF ForeignDescendant, Below
      <4>4. p = q /\ q \in NewClaims(d)
        BY <2>1, <4>1, <4>3 DEF AtOrBelow, WorkOf, Visits, Replacing
      <4>5. tmp[q] = LinkAt(q, d)
        BY <2>1, <2>2, <4>1, UndisputedAbove DEF WorkOf, InPlace, AtHand
      <4>6. node'[p] = LinkAt(p, d)[p]
        BY <4>1, <4>4, <4>5 DEF Graft
      <4> QED BY <4>4, <4>6 DEF LinkAt, Nothing
    <3>5. ASSUME node' = node PROVE FALSE
      BY <2>4, <3>5
    <3> QED
      BY <2>1, <3>2, <3>3, <3>4, <3>5
      DEF Fault, Crash, CommandStep, TidyOne, TidyDone, Probe, NoSuchRelease, Mark, Scan,
          Adopt, Compute, Refuse, Inspect, StartReconcile, Check, Reject, Stray,
          CannotSwap, Record, Drop, SwitchCurrent, DoneRetiring, Verify, CannotVerify,
          RunHook, Unmark, Prune, DonePruning, Document, Fail, docroot
  <2> QED BY <2>3, <2>4
<1>2. SoleSiteInv /\ SoleSiteInv' /\ [Next]_vars
        => [\A d \in Deployments : Acts(d) =>
              /\ job'[d].strayed = {}
              /\ \A p \in PublicPaths : (node[p] \in Foreign(d) /\ node'[p] # node[p])
                                          => p \in NewClaims(d) /\ node'[p] = d]_vars
  BY <1>1
<1> QED BY <1>2, SoleSiteHolds, PTL DEF Spec, ForeignClaimsUntouched
=============================================================================
