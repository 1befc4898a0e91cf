---------------------------- MODULE ExternalClient ----------------------------
(***************************************************************************)
(* The six external clients against the kcore controller, without the      *)
(* reconciler: what managed.TypedExternalClient asks of an implementation. *)
(* A resource has been through the initializers, so it starts with its     *)
(* metadata.name as external name; Create follows an observation that found*)
(* nothing, Update one that found something else, Delete a deletion mark.  *)
(* A call may go without an answer and take effect later.                  *)
(*                                                                         *)
(* ManagedReconcile, which adds the reconciler, never gets to Delete: a    *)
(* deleted resource is observed as absent.  The Delete handlers are checked*)
(* here, where they are called as the interface says they may be.          *)
(*                                                                         *)
(*   team    the resources of this behaviour                               *)
(*   cr      the custom resources, as the handlers are given them          *)
(*   status  what their status says                                        *)
(*   left    the status a handler left in its copy, until it is written    *)
(*   db      the tables of the kcore controller                            *)
(*   stray   calls whose client gave up and that may still take effect     *)
(*   made    resources whose creation was acknowledged                     *)
(*   gone    of these, the ones whose deletion was acknowledged            *)
(*   budget  how many edits, faults and outside removals are left          *)
(***************************************************************************)
EXTENDS Handlers

CONSTANTS
    MetaName,   \* metadata.name of each custom resource
    Teams,      \* which resources may exist together (a bound)
    Budget      \* the initial budget (a bound)

\* A name in Kubernetes is not empty and has no slash.
ASSUME MetaNameAssumption ==
    MetaName \in [Objs -> STRING] /\ \A o \in Objs : MetaName[o] \notin {"", "//"}

ASSUME TeamAssumption == Teams \subseteq SUBSET Objs

ASSUME BudgetAssumption == Budget \in [{"edit", "fault", "drift"} -> Nat]

VARIABLES team, cr, status, left, db, stray, made, gone, budget

vars == <<team, cr, status, left, db, stray, made, gone, budget>>

-----------------------------------------------------------------------------

Copies(o) == [deleting : BOOLEAN, ext : STRING, spec : SpecsOf[o]]

\* What an initialized resource may look like.
Initialized(o) == [deleting : {FALSE}, ext : {MetaName[o]}, spec : SpecsOf[o]]

Init ==
    /\ team \in Teams
    /\ cr \in [team -> UNION {Initialized(o) : o \in team}]
    /\ \A o \in team : cr[o] \in Initialized(o)
    /\ status = [o \in team |-> [ready |-> "", vm |-> "", container |-> ""]]
    /\ left = [o \in team |-> {}]
    /\ db = EmptyDatabase
    /\ stray = {}
    /\ made = {}
    /\ gone = {}
    /\ budget = Budget

Spend(kind) == budget[kind] > 0 /\ budget' = [budget EXCEPT ![kind] = @ - 1]

\* The rows o has created.
Owned(tables, o) ==
    {row \in tables.vms \cup tables.workloads \cup tables.networks
               \cup tables.groups \cup tables.attachments \cup tables.keys :
        row.by = o}

\* What Observe may say of o.
Seen(o) == Observe(o, cr[o], Lookup(o, db, cr[o]))

Exists(o) == ~ cr[o].deleting /\ Seen(o) \subseteq {"current", "drifted"}

\* The status after an observation that found the resource.
Shown(o) == Observed(o, status[o], Lookup(o, db, cr[o]))

\* A handler leaves s in its copy.  The runtime calls no other one before it has
\* tried to write that as the status.
Publish(o, s) ==
    /\ left[o] = {}
    /\ left' = [left EXCEPT ![o] = {s}]
    /\ UNCHANGED status

\* The calls the observation of o leads to.
Creating(o) ==
    IF ~ cr[o].deleting /\ "absent" \in Seen(o) /\ CreateValid(o, cr[o].spec)
    THEN {createRequest(o, cr[o].spec)} ELSE {}

Updating(o) ==
    IF ~ cr[o].deleting /\ "drifted" \in Seen(o) THEN Update(o, cr[o]) ELSE {}

Deleting(o) == IF cr[o].deleting THEN Delete(o, cr[o]) ELSE {}

-----------------------------------------------------------------------------

ObserveFound(o) ==
    /\ Exists(o)
    /\ Publish(o, Shown(o))
    /\ UNCHANGED <<team, cr, db, stray, made, gone, budget>>

\* Meanwhile rows may have changed: what is written is what the handler saw.
WriteStatus(o) ==
    /\ \E s \in left[o] : status' = [status EXCEPT ![o] = s]
    /\ left' = [left EXCEPT ![o] = {}]
    /\ UNCHANGED <<team, cr, db, stray, made, gone, budget>>

\* The write fails, or the copy has been read again in between.
LoseStatus(o) ==
    /\ left[o] # {}
    /\ left' = [left EXCEPT ![o] = {}]
    /\ UNCHANGED <<team, cr, status, db, stray, made, gone, budget>>

CreateRejected(o) ==
    /\ ~ cr[o].deleting
    /\ "absent" \in Seen(o)
    /\ ~ CreateValid(o, cr[o].spec)
    /\ Publish(o, Creation(status[o]))
    /\ UNCHANGED <<team, cr, db, stray, made, gone, budget>>

CreateAnswered(o) ==
    /\ \E r \in Creating(o) : \E out \in Serve(db, r) :
          /\ db' = out.db
          /\ Publish(o, Created(o, status[o], out.answer))
          /\ IF out.answer.code = "OK"
             THEN /\ cr' = [cr EXCEPT ![o].ext = CreatedName(o, cr[o], out.answer)]
                  /\ made' = made \cup {o}
             ELSE UNCHANGED <<cr, made>>
    /\ UNCHANGED <<team, stray, gone, budget>>

UpdateAnswered(o) ==
    /\ \E r \in Updating(o) : \E out \in Serve(db, r) : db' = out.db
    /\ Publish(o, Shown(o))
    /\ UNCHANGED <<team, cr, stray, made, gone, budget>>

DeleteAnswered(o) ==
    /\ \E r \in Deleting(o) : \E out \in Serve(db, r) :
          /\ db' = out.db
          /\ gone' = IF DeleteDone(o, out.answer) /\ o \in made
                     THEN gone \cup {o} ELSE gone
    /\ Publish(o, Deletion(status[o]))
    /\ UNCHANGED <<team, cr, stray, made, budget>>

\* The call takes effect and nobody is told.  A VM or a workload made this way is on
\* nobody's record: its resource is no longer one whose creation is acknowledged.
Unnoticed(r) ==
    /\ \E out \in Serve(db, r) : db' = out.db
    /\ made' = made \ {o \in {r.by} : /\ r \in CreateRequests
                                     /\ KindOf[o] \in {"VirtualMachine", "Workload"}
                                     /\ Owned(db, o) = {}}

\* What the handlers leave of the status when their call has no answer.
Unsettled(o, r) ==
    CASE r \in CreateRequests -> Creation(status[o])
      [] r \in DeleteRequests -> Deletion(status[o])
      [] OTHER                -> Shown(o)

\* A call without an answer took effect, or it may still do so.
Unanswered(o) ==
    /\ Spend("fault")
    /\ \E r \in Creating(o) \cup Updating(o) \cup Deleting(o) :
          /\ Publish(o, Unsettled(o, r))
          /\ \/ Unnoticed(r) /\ UNCHANGED stray
             \/ stray' = stray \cup {r} /\ UNCHANGED <<db, made>>
    /\ UNCHANGED <<team, cr, gone>>

LateEffect ==
    \E r \in stray :
        /\ Unnoticed(r)
        /\ stray' = stray \ {r}
        /\ UNCHANGED <<team, cr, status, left, gone, budget>>

\* A user's write makes every copy an old one, whose status is refused.
UserStore(o, k) ==
    /\ cr' = [cr EXCEPT ![o] = k]
    /\ left' = [left EXCEPT ![o] = {}]
    /\ UNCHANGED <<team, status, db, stray, made, gone>>

Edit(o) ==
    /\ ~ cr[o].deleting
    /\ Spend("edit")
    /\ \E s \in SpecsOf[o] \ {cr[o].spec} : UserStore(o, [cr[o] EXCEPT !.spec = s])

MarkDeleted(o) ==
    /\ ~ cr[o].deleting
    /\ UserStore(o, [cr[o] EXCEPT !.deleting = TRUE])
    /\ UNCHANGED budget

Drift ==
    /\ Spend("drift")
    /\ db' \in Interference(db) \cup Failures(db)
    /\ UNCHANGED <<team, cr, status, left, stray, made, gone>>

Next ==
    \/ \E o \in team : \/ ObserveFound(o) \/ WriteStatus(o) \/ LoseStatus(o)
                       \/ CreateRejected(o)
                       \/ CreateAnswered(o) \/ UpdateAnswered(o)
                       \/ DeleteAnswered(o) \/ Unanswered(o)
                       \/ Edit(o) \/ MarkDeleted(o)
    \/ LateEffect
    \/ Drift

Spec == Init /\ [][Next]_vars

-----------------------------------------------------------------------------
(* Correctness                                                              *)

\* Tables, calls and copies are of the types of the generated messages and of
\* the API types: every conversion of the handlers yields a value of its enum.
TypeOK ==
    /\ team \in Teams
    /\ DOMAIN cr = team
    /\ \A o \in team : cr[o] \in Copies(o)
    /\ status \in [team -> Statuses]
    /\ left \in [team -> SUBSET Statuses]
    /\ db \in Databases
    /\ stray \subseteq Requests
    /\ made \subseteq team
    /\ gone \subseteq team
    /\ budget \in [{"edit", "fault", "drift"} -> Nat]

\* The node of a network goes out as it is written in Create and trimmed in Observe
\* and Delete (network/controller.go:151, :111 and :185): with blanks around it the
\* two do not meet, and a network that is there is neither found nor deleted.
SentAsLookedUp(o) ==
    KindOf[o] = "Network" => TrimSpace(cr[o].spec.node) \in {"", cr[o].spec.node}

\* What a resource has created it finds again: the name Create records, with its
\* trimming, is one under which Observe sees what Create's call has made,
\* through edits, lost answers and late calls.  Blanks around the node of a
\* network are the exception.
CreatedIsFound ==
    \A o \in made :
        ~ cr[o].deleting /\ SentAsLookedUp(o) /\ Owned(db, o) # {} => Exists(o)

\* When a Delete reports success, nothing is left of a resource whose creation was
\* acknowledged, and afterwards only a creation that was still on its way brings
\* something back.  Blanks around the node of a network are the exception.
DeletedIsGone ==
    [][\A o \in gone' : SentAsLookedUp(o) /\ Owned(db', o) # {} =>
          /\ o \in gone
          /\ \/ Owned(db, o) # {}
             \/ \E r \in stray \ stray' : r \in CreateRequests /\ r.by = o]_vars

\* Calling Delete again after its answer was lost does no harm and succeeds: the
\* NotFound branches of the six Delete handlers.
DeleteIsIdempotent ==
    \A o \in gone : Owned(db, o) = {} =>
        \A r \in Delete(o, cr[o]) : \A out \in Serve(db, r) :
            out.db = db /\ DeleteDone(o, out.answer)

\* What is in the tables is what one version of its resource's spec asks for, in
\* every field the handlers convert or copy: no row mixes versions, and no
\* conversion confuses two fields.  Left out: what others change (the size of a VM,
\* what is to run), and the ids and states, which are the service's.
WrittenThrough ==
    /\ \A v \in db.vms : v.by \in team => \E s \in SpecsOf[v.by] :
          /\ v.name = s.name
          /\ v.backend = StorageBackend(s.backend)
          /\ v.disks = s.disks /\ v.nics = s.nics
    /\ \A l \in db.workloads : l.by \in team => \E s \in SpecsOf[l.by] :
          /\ l.kind = WorkloadKind(s.kind)
          /\ l.kind = "VM" => l.name = s.vm.name
          /\ l.kind # "VM" =>
                /\ l.image = s.container.image
                /\ \/ l.name = s.container.name
                   \/ l.name = "" /\ TrimSpace(s.container.name) = ""
    /\ \A n \in db.networks : n.by \in team => \E s \in SpecsOf[n.by] :
          /\ n.name = s.name /\ n.node = s.node /\ n.addr = s.addr /\ n.type = s.type
          /\ n.nat = (Word(s.type) = "vxlan" => s.nat = {TRUE})
    /\ \A g \in db.groups : g.by \in team => \E s \in SpecsOf[g.by] :
          g.name = s.name /\ g.rules = s.rules
    /\ \A a \in db.attachments : a.by \in team => \E s \in SpecsOf[a.by] :
          /\ a.group = TrimSpace(s.group) /\ a.target = TrimSpace(s.target)
          /\ a.kind = SecurityGroupTargetKind(s.kind) /\ a.node = TrimSpace(s.node)
    /\ \A k \in db.keys : k.by \in team => \E s \in SpecsOf[k.by] :
          k.name = TrimSpace(s.name) /\ k.key = s.key

\* A group somebody deletes takes its attachments with it.
LosesItsGroup(o) ==
    /\ KindOf[o] = "SecurityGroupAttachment"
    /\ \E g \in team : KindOf[g] = "SecurityGroup" /\ cr[g].deleting

\* What is shown as ready exists, as long as nobody interferes: through creations
\* that fail, are answered late or never, and status writes that are lost.
ReadyIsBacked ==
    \A o \in team :
        /\ status[o].ready = "Available"
        /\ ~ cr[o].deleting
        /\ budget.drift = Budget.drift
        /\ ~ LosesItsGroup(o)
        => Owned(db, o) # {}

\* A new state a handler leaves is, when it looks, that of the VM or the workload
\* under the external name, and a VM's is not taken for a container's or the other
\* way round; and what is shown is never anything else than what a handler left.
ShownStateIsOwn ==
    [][\A o \in team :
          LET rows == {v \in db'.vms \cup db'.workloads : v.id = cr'[o].ext}
              ofVm == KindOf[o] = "VirtualMachine"
                        \/ \E v \in rows \cap db'.workloads : v.kind = "VM"
          IN  /\ \A s \in left'[o] \ left[o] :
                    /\ s.vm \notin {"UNKNOWN", status[o].vm} =>
                          ofVm /\ \E v \in rows : v.status.state = s.vm
                    /\ s.container \notin {"UNKNOWN", status[o].container} =>
                          ~ ofVm /\ \E v \in rows : v.status.state = s.container
              /\ status'[o] # status[o] => status'[o] \in left[o]]_vars

\* What a resource owns disappears by its own deletion, a removal from outside,
\* or together with the security group it belongs to.
DeleteSpares ==
    [][\A o \in team : Owned(db, o) # {} /\ Owned(db', o) = {} =>
          \/ cr[o].deleting
          \/ budget'.drift # budget.drift
          \/ \E a \in Owned(db, o) \cap db.attachments :
                a.group \notin {g.name : g \in db'.groups}]_vars

-----------------------------------------------------------------------------
(* What documents of the repository say and the code does not do            *)

\* README.md:34 has the provider create, list and delete networks: when Delete
\* reports success, the network is gone.
NetworkIsDeleted ==
    \A o \in gone : KindOf[o] = "Network" => Owned(db, o) = {}

=============================================================================
