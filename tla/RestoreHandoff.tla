---------------------------- MODULE RestoreHandoff ----------------------------
(***************************************************************************)
(* From a READY boundary to a restore both players can load.  On each      *)
(* machine a watcher (tools/watch_recovery_saves.ps1) sees the boundary,   *)
(* finds the save its game wrote, and files its hash; the host orders the  *)
(* receipt.  When both receipts are in, the host's watcher builds the      *)
(* restore plan from the journal, archives its save under the plan and     *)
(* publishes the plan; the companions carry it to the client, whose        *)
(* watcher archives the save it kept under the same plan.  A pointer file  *)
(* on each machine names its latest archive, and a restore is found when   *)
(* the two pointers name one plan.                                         *)
(*                                                                         *)
(* How a boundary becomes READY, and the fence around it, is RestorePoints;*)
(* here it is one entry of the journal, and any other ordered work ends    *)
(* it.  A save is the world it holds, as the number of ordered works the   *)
(* game had applied, and a copy number: each write is different bytes.     *)
(***************************************************************************)
EXTENDS Naturals, Sequences, FiniteSets

CONSTANTS Host, Client,
          MaxBoundary,  \* bound: boundaries that become READY
          MaxWork,      \* bound: works ordered
          MaxRewrite,   \* bound: boundaries a game saves a second time
          MaxTrouble    \* bound: lost connections, restarts, failed reads

ASSUME RestoreHandoffAssumption ==
    /\ Host # Client
    /\ {MaxBoundary, MaxWork, MaxRewrite, MaxTrouble} \subseteq Nat

VARIABLES journal,   \* the host's ordered entries
          applied,   \* works each game has applied
          disk,      \* the save each game wrote for each boundary
          mirror,    \* the READY boundary the client's companion last heard of
          request,   \* the anchor request of each watcher and its result
          watch,     \* each recovery watcher
          published, \* the host's published plan, its readers and the client's link
          wire,      \* plans on their way to the client
          received,  \* the client's received_restore_plan.json
          pointer,   \* latest-recovery-archive.json of each peer
          trouble

vars == <<journal, applied, disk, mirror, request, watch, published, wire, received,
          pointer, trouble>>

Peer == {Host, Client}
Boundary == 1 .. MaxBoundary

NoSave == [world |-> 0, copy |-> 0]
NoPlan == [boundary |-> 0, saves |-> [p \in Peer |-> NoSave]]
NoArchive == [plan |-> NoPlan, save |-> NoSave]
NoRequest == [boundary |-> 0, status |-> "none", save |-> NoSave]
NewWatch == [seen |-> 0, phase |-> "idle", archived |-> 0, save |-> NoSave,
             bound |-> FALSE, attempts |-> 0, tried |-> NoPlan]

Work == [type |-> "work", boundary |-> 0, peer |-> Host, save |-> NoSave]
Outcome(b) == [type |-> "outcome", boundary |-> b, peer |-> Host, save |-> NoSave]
Receipt(b, p, s) == [type |-> "receipt", boundary |-> b, peer |-> p, save |-> s]

Init ==
    /\ journal = <<>>
    /\ applied = [p \in Peer |-> 0]
    /\ disk = [p \in Peer |-> [b \in Boundary |-> NoSave]]
    /\ mirror = 0
    /\ request = [p \in Peer |-> NoRequest]
    /\ watch = [p \in Peer |-> NewWatch]
    /\ published = [plan |-> NoPlan,     \* published_restore_plan.json
                    taken |-> NoPlan,    \* the plan whose signature is stored
                    held |-> NoPlan,     \* read by the status thread, not broadcast yet
                    read |-> NoPlan,     \* read by the thread of a client that joins
                    link |-> "up",       \* whether the client is a registered peer
                    missed |-> NoPlan]   \* history: taken up, and kept from the client
    /\ wire = <<>>
    /\ received = NoPlan
    /\ pointer = [p \in Peer |-> NoArchive]
    /\ trouble = 0

-----------------------------------------------------------------------------
(* What the journal says                                                   *)

Positions(type) == {i \in DOMAIN journal : journal[i].type = type}
Works == Cardinality(Positions("work"))
Latest == Cardinality(Positions("outcome"))
OutcomeAt(b) == CHOOSE i \in Positions("outcome") : journal[i].boundary = b
WorldAt(b) == Cardinality({i \in Positions("work") : i < OutcomeAt(b)})

\* AnchorCoordinator.readiness: the latest boundary, while nothing but receipts
\* was ordered since its outcome.
Ready ==
    IF Latest = 0 \/ \E i \in Positions("work") : i > OutcomeAt(Latest) THEN 0 ELSE Latest

ReceiptsOf(b, p) ==
    {i \in Positions("receipt") : journal[i].boundary = b /\ journal[i].peer = p}

\* analyse_restore_points: every peer filed, no peer filed two different saves,
\* and no work was ordered between the outcome and a receipt.
Restorable(b) ==
    \A p \in Peer :
        /\ ReceiptsOf(b, p) # {}
        /\ \A i, j \in ReceiptsOf(b, p) : journal[i].save = journal[j].save
        /\ \A i \in ReceiptsOf(b, p) :
              /\ i > OutcomeAt(b)
              /\ ~ \E k \in Positions("work") : OutcomeAt(b) < k /\ k < i

\* build_restore_plan
PlanFor(b) ==
    [boundary |-> b,
     saves |-> [p \in Peer |-> journal[CHOOSE i \in ReceiptsOf(b, p) : TRUE].save]]

-----------------------------------------------------------------------------
(* The session                                                             *)

game == <<disk, request, watch, published, wire, received, pointer, trouble>>

OrderWork ==
    /\ Works < MaxWork
    /\ journal' = Append(journal, Work)
    /\ UNCHANGED <<game, applied, mirror>>

ApplyWork(p) ==
    /\ applied[p] < Works
    /\ applied' = [applied EXCEPT ![p] = @ + 1]
    /\ UNCHANGED <<game, journal, mirror>>

\* A checkpoint converges once every game has applied what was ordered.
Converge ==
    /\ Latest < MaxBoundary /\ Ready = 0
    /\ \A p \in Peer : applied[p] = Works
    /\ journal' = Append(journal, Outcome(Latest + 1))
    /\ UNCHANGED <<game, applied, mirror>>

\* The heartbeat tells the client's companion the host's READY boundary.
Heartbeat ==
    /\ published.link = "up" /\ mirror # Ready
    /\ mirror' = Ready
    /\ UNCHANGED <<game, journal, applied>>

Rewrites == Cardinality({x \in Peer \X Boundary : disk[x[1]][x[2]].copy > 1})

\* The game writes the save named for the boundary it was last told of: its own
\* save at READY, the stock dialog, or the player, whatever it has applied since.
Save(p) ==
    /\ Latest > 0 /\ disk[p][Latest].copy < 2
    /\ disk[p][Latest] = NoSave \/ Rewrites < MaxRewrite
    /\ disk' = [disk EXCEPT ![p][Latest] = [world |-> applied[p], copy |-> @.copy + 1]]
    /\ UNCHANGED <<journal, applied, mirror, request, watch, published, wire, received,
                   pointer, trouble>>

-----------------------------------------------------------------------------
(* Filing a receipt                                                        *)

View(p) == IF p = Host THEN Ready ELSE mirror

watching == <<journal, applied, disk, mirror, published, wire, received, trouble>>

\* A READY boundary the watcher has not archived, while no request is out.
Observe(p) ==
    /\ watch[p].phase \in {"idle", "observed"}
    /\ View(p) > 0 /\ View(p) \notin {watch[p].archived, watch[p].seen}
    /\ watch' = [watch EXCEPT ![p] = [@ EXCEPT !.seen = View(p), !.phase = "observed",
                                               !.save = NoSave, !.bound = FALSE]]
    /\ UNCHANGED <<watching, request, pointer>>

\* A stable save for the boundary, which must still be READY for a receipt.
File(p) ==
    /\ watch[p].phase = "observed" /\ disk[p][watch[p].seen] # NoSave
    /\ IF View(p) = watch[p].seen
       THEN /\ watch' = [watch EXCEPT ![p].phase = "filed"]
            /\ request' = [request EXCEPT ![p] =
                 [boundary |-> watch[p].seen, status |-> "submitted", save |-> NoSave]]
       ELSE /\ watch' = [watch EXCEPT ![p].phase = "idle", ![p].seen = 0]
            /\ request' = request
    /\ UNCHANGED <<watching, pointer>>

\* The companion hashes the save the request names and makes the receipt of it,
\* while the boundary is READY.  When it no longer is, the host rejects its own
\* request; the client's is passed over at every poll and never answered.
Hash(p) ==
    /\ request[p].status = "submitted"
    /\ \/ /\ View(p) = request[p].boundary
          /\ request' = [request EXCEPT ![p].status = "pending",
                                        ![p].save = disk[p][request[p].boundary]]
       \/ /\ p = Host /\ View(p) # request[p].boundary
          /\ request' = [request EXCEPT ![p].status = "rejected"]
    /\ UNCHANGED <<watching, watch, pointer>>

\* validate_receipt: the boundary must be READY now, and a peer that filed it
\* already can only repeat the receipt it filed.
Admits(p) ==
    /\ Ready = request[p].boundary
    /\ \A i \in ReceiptsOf(Ready, p) : journal[i].save = request[p].save

\* The host orders the receipt or rejects it; the client's travels to the host
\* and is offered again until it is answered.
OrderReceipt(p) ==
    /\ request[p].status = "pending"
    /\ p = Client => published.link = "up"
    /\ IF Admits(p)
       THEN /\ request' = [request EXCEPT ![p].status = "accepted"]
            /\ journal' = IF ReceiptsOf(Ready, p) # {} THEN journal
                          ELSE Append(journal, Receipt(Ready, p, request[p].save))
       ELSE /\ request' = [request EXCEPT ![p].status = "rejected"]
            /\ journal' = journal
    /\ UNCHANGED <<applied, disk, mirror, published, wire, received, trouble, watch, pointer>>

\* The bytes the receipt attests are still in the save directory.
StillThere(p) == disk[p][request[p].boundary] = request[p].save

\* The watcher stops when they are not: its loop has no catch of its own.
WatcherFails(p) ==
    /\ watch[p].phase = "filed" /\ request[p].status = "accepted" /\ ~ StillThere(p)
    /\ watch' = [watch EXCEPT ![p].phase = "failed"]
    /\ UNCHANGED <<watching, request, pointer>>

Rejected(p) ==
    /\ watch[p].phase = "filed" /\ request[p].status = "rejected"
    /\ watch' = [watch EXCEPT ![p].phase = "idle", ![p].seen = 0]
    /\ request' = [request EXCEPT ![p] = NoRequest]
    /\ UNCHANGED <<watching, pointer>>

Archived(p, b) == [watch[p] EXCEPT !.phase = "idle", !.seen = 0, !.archived = b]

\* The client keeps a pending archive until the host's plan arrives.
KeepPending ==
    /\ watch[Client].phase = "filed" /\ request[Client].status = "accepted"
    /\ StillThere(Client)
    /\ watch' = [watch EXCEPT ![Client] =
          [Archived(Client, request[Client].boundary) EXCEPT !.save = request[Client].save]]
    /\ request' = [request EXCEPT ![Client] = NoRequest]
    /\ UNCHANGED <<watching, pointer>>

-----------------------------------------------------------------------------
(* The plan and the archives                                               *)

\* Mutant: the save found under the boundary's name is archived unchecked.
AttestedMut(p, plan) == disk[p][plan.boundary] # NoSave

\* write_recovery_archive: the save on the disk must be the one the plan attests
\* for this peer, before and after it is copied.
Attested(p, plan) == disk[p][plan.boundary] = plan.saves[p]

\* Both receipts are in: the host's watcher builds the plan, archives its save
\* and moves its pointer, then publishes the plan.
BuildPlan ==
    /\ watch[Host].phase = "filed" /\ request[Host].status = "accepted"
    /\ StillThere(Host) /\ Restorable(request[Host].boundary)
    /\ LET plan == PlanFor(request[Host].boundary)
       IN /\ Attested(Host, plan)
          /\ pointer' = [pointer EXCEPT ![Host] = [plan |-> plan, save |-> disk[Host][plan.boundary]]]
          /\ watch' = [watch EXCEPT ![Host] =
                [Archived(Host, plan.boundary) EXCEPT !.bound = TRUE, !.tried = plan]]
    /\ request' = [request EXCEPT ![Host] = NoRequest]
    /\ UNCHANGED watching

Publish ==
    /\ published.plan # watch[Host].tried
    /\ published' = [published EXCEPT !.plan = watch[Host].tried]
    /\ UNCHANGED <<journal, applied, disk, mirror, request, watch, wire, received,
                   pointer, trouble>>

exchanging == <<journal, applied, disk, mirror, request, watch, received, pointer>>

\* RestorePlanExchange.published_message: the signature of the file is stored
\* before the file is read and verified, whether that succeeds or not.
Unsent == published.plan \notin {NoPlan, published.taken}

\* The status thread reads the plan outside the ordering lock ...
ReadPlan ==
    /\ Unsent /\ published.held = NoPlan
    /\ \/ /\ published' = [published EXCEPT !.taken = published.plan, !.held = published.plan]
          /\ trouble' = trouble
       \/ /\ trouble < MaxTrouble
          /\ published' = [published EXCEPT !.taken = published.plan, !.missed = published.plan]
          /\ trouble' = trouble + 1
    /\ UNCHANGED <<exchanging, wire>>

\* The plan held is kept from a client that has read an older one and is not
\* registered yet; a newer one that client was sent is overtaken by it.
Overtaken ==
    CASE published.link = "joining" /\ published.held = published.taken
           /\ published.read # published.held -> published.held
      [] published.link = "up" /\ published.held # published.taken -> published.taken
      [] OTHER -> published.missed

\* ... and broadcasts it later, to the peers registered then.
BroadcastPlan ==
    /\ published.held # NoPlan
    /\ published' = [published EXCEPT !.held = NoPlan, !.missed = Overtaken]
    /\ wire' = IF published.link = "up" THEN Append(wire, published.held) ELSE wire
    /\ UNCHANGED <<exchanging, trouble>>

\* Mutant: a plan that was sent once is not sent to a client that joins.
JoinMut ==
    /\ published.link = "down"
    /\ published' = [published EXCEPT !.link = "joining", !.missed = NoPlan,
                                      !.taken = published.plan,
                                      !.read = IF Unsent THEN published.plan ELSE NoPlan]
    /\ wire' = IF Unsent THEN <<published.plan>> ELSE <<>>
    /\ UNCHANGED <<exchanging, trouble>>

\* The thread of a client that joins reads the plan, whatever was taken up
\* before, and sends it ...
Join ==
    /\ published.link = "down"
    /\ \/ /\ published' = [published EXCEPT !.link = "joining", !.missed = NoPlan,
                                !.taken = IF published.plan = NoPlan THEN @ ELSE published.plan,
                                !.read = published.plan]
          /\ wire' = IF published.plan = NoPlan THEN <<>> ELSE <<published.plan>>
       \/ /\ published.plan # NoPlan
          /\ published' = [published EXCEPT !.link = "joining", !.taken = published.plan,
                                            !.missed = published.plan]
          /\ wire' = <<>>
    /\ UNCHANGED <<exchanging, trouble>>

\* ... and then registers the client, from when on broadcasts reach it.
Register ==
    /\ published.link = "joining"
    /\ published' = [published EXCEPT !.link = "up", !.read = NoPlan]
    /\ UNCHANGED <<exchanging, wire, trouble>>

\* The connection breaks; the host's companion may have restarted with it.
Disconnect ==
    /\ published.link # "down" /\ trouble < MaxTrouble
    /\ trouble' = trouble + 1
    /\ \E restarted \in BOOLEAN :
          published' = [published EXCEPT !.link = "down", !.read = NoPlan,
                                         !.taken = IF restarted THEN NoPlan ELSE @,
                                         !.held = IF restarted THEN NoPlan ELSE @]
    /\ wire' = <<>>
    /\ UNCHANGED exchanging

\* RestorePlanExchange.accept
Accept ==
    /\ wire # <<>>
    /\ received' = Head(wire)
    /\ wire' = Tail(wire)
    /\ UNCHANGED <<journal, applied, disk, mirror, request, watch, published, pointer, trouble>>

MaxAttempts == 3

\* The received plan is for the boundary whose save the watcher kept.
Binds(plan) == plan.boundary = watch[Client].archived

\* Receive-And-BindRestorePlan.  A plan for an older boundary is waited out, one
\* that does not bind or whose save is gone is tried three times.
BindPlan ==
    /\ watch[Client].phase # "failed" /\ ~ watch[Client].bound
    /\ watch[Client].archived > 0 /\ watch[Client].save # NoSave
    /\ received # NoPlan
    /\ LET attempts == IF received = watch[Client].tried THEN watch[Client].attempts ELSE 0
           older == received.boundary < watch[Client].archived
           bound == ~ older /\ Binds(received) /\ Attested(Client, received)
       IN /\ attempts < MaxAttempts
          /\ pointer' = IF bound THEN [pointer EXCEPT ![Client] =
                             [plan |-> received, save |-> disk[Client][received.boundary]]]
                        ELSE pointer
          /\ watch' = [watch EXCEPT ![Client].bound = bound, ![Client].tried = received,
                                    ![Client].attempts = IF older THEN 0 ELSE attempts + 1]
    /\ UNCHANGED <<watching, request>>

-----------------------------------------------------------------------------
(* What the launcher finds                                                 *)

\* What the pointer of a peer names: its archive, with the plan it is bound to.
\* The archive does not change once it is written, so that what BindPlan verified
\* is not verified again here: PairIsOneWorld does without it.
Candidate(p) == pointer[p].plan # NoPlan

\* latest_local_restore_pair: the two latest archives form one plan.
Pair == Candidate(Host) /\ Candidate(Client) /\ pointer[Host].plan = pointer[Client].plan

Watch(p) ==
    Observe(p) \/ File(p) \/ Hash(p) \/ OrderReceipt(p) \/ Rejected(p) \/ WatcherFails(p)

Exchange ==
    \/ BuildPlan \/ Publish \/ ReadPlan \/ BroadcastPlan \/ Join \/ Register \/ Accept
    \/ BindPlan \/ KeepPending

Next ==
    \/ OrderWork \/ Converge \/ Heartbeat
    \/ \E p \in Peer : ApplyWork(p) \/ Save(p) \/ Watch(p)
    \/ Exchange
    \/ Disconnect

Spec == Init /\ [][Next]_vars

\* The watchers poll, the companions answer and reconnect, and the games apply
\* what is ordered; when players save, work and lose connections is open.
FairSpec ==
    /\ Spec
    /\ WF_vars(Heartbeat)
    /\ \A p \in Peer : WF_vars(ApplyWork(p)) /\ WF_vars(Watch(p))
    /\ WF_vars(BuildPlan) /\ WF_vars(Publish) /\ WF_vars(ReadPlan) /\ WF_vars(BroadcastPlan)
    /\ WF_vars(Join) /\ WF_vars(Register) /\ WF_vars(Accept)
    /\ WF_vars(BindPlan) /\ WF_vars(KeepPending)

-----------------------------------------------------------------------------
(* Properties                                                              *)

SaveType == [world : 0 .. MaxWork, copy : 0 .. 2]
PlanType == [boundary : 0 .. MaxBoundary, saves : [Peer -> SaveType]]
EntryType == [type : {"work", "outcome", "receipt"}, boundary : 0 .. MaxBoundary,
              peer : Peer, save : SaveType]
RequestType == [boundary : 0 .. MaxBoundary, save : SaveType,
                status : {"none", "submitted", "pending", "accepted", "rejected"}]
WatchType == [seen : 0 .. MaxBoundary, archived : 0 .. MaxBoundary, save : SaveType,
              phase : {"idle", "observed", "filed", "failed"}, bound : BOOLEAN,
              attempts : 0 .. MaxAttempts, tried : PlanType]
PublishedType == [plan : PlanType, taken : PlanType, held : PlanType, read : PlanType,
                  link : {"up", "down", "joining"}, missed : PlanType]

TypeOK ==
    /\ journal \in Seq(EntryType)
    /\ applied \in [Peer -> 0 .. MaxWork]
    /\ disk \in [Peer -> [Boundary -> SaveType]]
    /\ mirror \in 0 .. MaxBoundary
    /\ request \in [Peer -> RequestType]
    /\ watch \in [Peer -> WatchType]
    /\ published \in PublishedType
    /\ wire \in Seq(PlanType) /\ received \in PlanType
    /\ pointer \in [Peer -> [plan : PlanType, save : SaveType]]
    /\ trouble \in 0 .. MaxTrouble

\* A restore the launcher offers puts both players in one world: the archives
\* two pointers of one plan name hold, on both machines, exactly the works
\* ordered before the plan's boundary, although the players kept saving, the
\* boundary moved on and the files were written over while the receipts and the
\* plan were under way.
PairIsOneWorld ==
    Pair => \A p \in Peer :
        pointer[p].save.world = WorldAt(pointer[p].plan.boundary)

\* An archive a pointer names is the save its peer's receipt attests in the
\* journal, for a boundary both peers have filed.
ArchiveIsAttested ==
    \A p \in Peer : pointer[p].plan # NoPlan =>
        /\ Restorable(pointer[p].plan.boundary)
        /\ \A i \in ReceiptsOf(pointer[p].plan.boundary, p) :
              journal[i].save = pointer[p].save

\* The plan the host published reaches the client's pointer, through lost
\* connections and restarts of the host's companion, unless a later boundary is
\* under way, the save the client kept has been written over, or the host took
\* the plan up in vain: a read of it failed, it was broadcast between a joining
\* client's read and its registration, or an older plan overtook it.  The next
\* client to join makes up for the last.
PlanArrives ==
    (/\ published.plan # NoPlan /\ watch[Client].archived = published.plan.boundary
     /\ watch[Client].save # NoSave)
    ~> (\/ pointer[Client].plan = published.plan
        \/ watch[Client].seen > published.plan.boundary
        \/ ~ Attested(Client, published.plan)
        \/ published.missed = published.plan)

=============================================================================
