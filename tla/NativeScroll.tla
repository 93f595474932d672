---------------------------- MODULE NativeScroll ----------------------------
(***************************************************************************)
(* The protocol between the GUI thread and the page owner for asynchronous *)
(* viewport scrolling: the shared NativeScrollHandle                       *)
(* (src/src/js/native_scroll.rs), the GUI that accepts wheels on retained  *)
(* pixels (src/src/bin/omoikane/async_gui.rs) and the owner that applies   *)
(* them to the page, runs script and publishes scenes (page_worker.rs,     *)
(* input_bridge.rs, mod.rs).  Every method of the handle is atomic under   *)
(* its mutex; between two calls the other thread may do anything.  The     *)
(* module follows one handle: a navigation makes another one.              *)
(*                                                                         *)
(* Offsets are integers of one axis, on which rounding to f32 changes      *)
(* nothing.  The u64 counters of the code end at limits of the workload,   *)
(* with the exhaustion the code gives them at u64::MAX.                    *)
(***************************************************************************)
EXTENDS Integers, Sequences, SequencesExt, FiniteSets, Orderings

CONSTANTS
    Deltas,        \* wheel deltas
    Extents,       \* largest scroll offset, for each layout of the page
    Targets,       \* offsets a script scrolls to
    Reach,         \* how far retained pixels cover around the painted offset
    MaxPending,    \* MAX_PENDING
    MaxCommands,   \* bound: wheels on their way to the owner at once
    Workloads,     \* limits of the counters, one choice per behaviour
    None

ASSUME DataAssumption ==
    /\ Deltas \subseteq Int /\ Extents \subseteq Nat /\ Extents # {} /\ Targets \subseteq Nat
    /\ Reach \in Nat /\ MaxPending \in Nat \ {0} /\ MaxCommands \in Nat \ {0}
ASSUME WorkloadsAssumption ==
    \A w \in Workloads :
        w \in [sequence : Nat, ticket : Nat, policy : Nat, epoch : Nat, mutation : Nat,
               publication : Nat, canonical : Nat, layouts : Nat, failures : Nat]

Maybe(S)  == S \cup {None}
\* AcceptedScroll, AcceptedPresentation and Scene.
Input     == [seq : Nat, delta : Deltas, visual : Nat]
Token     == [seq : Nat, policy : Nat, offset : Nat, publication : Nat]
Scenes    == [publication : Nat, policy : Nat, epoch : Nat, ack : Nat, completed : Nat,
              offset : Nat, extent : Extents]
\* What was painted last; clean while the page has not moved since.
Pixels    == [offset : Nat, extent : Extents, clean : BOOLEAN, ack : Nat, completed : Nat]
\* The wheels and other inputs that travel to the owner.
Accepted  == [kind : {"accepted"}, input : Input]
Fallback  == [kind : {"fallback"}, after : Maybe(Nat), ticket : Maybe(Nat)]
Canonical == [kind : {"canonical"}, id : Nat]
Command   == Accepted \cup Fallback \cup Canonical
\* What the GUI is about to do.
Errand    == [do : {"wheel"}, delta : Deltas] \cup [do : {"install"}, token : Token]
             \cup [do : {"present"}] \cup [do : {"rebind"}, pub : Scenes]
             \cup [do : {"recompose"}, pub : Scenes, token : Token]

ASSUME NoneAssumption ==
    None \notin Nat \cup Scenes \cup Pixels \cup Token \cup Errand

VARIABLES
    load,         \* the workload of this behaviour; never changes
    \* the handle
    gui,          \* ScrollState
    owner,        \* OwnerInputs with its OwnerLedger
    accepted,     \* the FIFO of inputs not yet notified
    gate,         \* the rest of NativeScrollState
    \* the page owner
    canon,        \* window_scroll
    extent,       \* window_scroll_extent
    painted,      \* retained_native_scene: what was painted last
    nextPub,      \* next_native_scroll_publication
    running,      \* the first command is being carried out
    setting,      \* the programmatic scroll in progress
    smooth,       \* native_scroll_smooth_token
    layouts,      \* bound: layout changes so far
    failures,     \* bound: fallbacks whose dispatch failed
    \* the channels between the threads
    commands,     \* wheels on their way to the owner
    updates,      \* publications on their way to the GUI
    \* the GUI
    published,    \* the publication the GUI scrolls against
    frame,        \* the token of the composed frame
    step,         \* what the GUI does between two calls of the handle
    canonical,    \* bound: wheels sent down the canonical path
    \* history
    wheels,       \* the user's wheels and other page inputs, in their order
    effects,      \* the ones whose default the owner has performed
    listened,     \* the page has had a blocking wheel listener
    failed        \* the owner met a protocol error

handleVars == <<gui, owner, accepted, gate>>
pageVars   == <<canon, extent, painted, nextPub, running, setting, smooth, layouts, failures>>
guiVars    == <<published, frame, step, canonical>>
histVars   == <<wheels, effects, listened, failed>>
vars == <<load, handleVars, pageVars, commands, updates, guiVars, histVars>>

NewGui ==
    [scene |-> None, visual |-> 0, pending |-> <<>>, last |-> 0, ticket |-> 0,
     barrier |-> None, ticketOut |-> FALSE, policy |-> 0, policyOut |-> FALSE,
     epoch |-> 0, epochOut |-> FALSE, accepting |-> FALSE, eligible |-> FALSE]

NewOwner == [applied |-> 0, notified |-> 0, materialized |-> <<>>, completed |-> 0]

NewGate == [authorized |-> None, latched |-> FALSE, stale |-> None,
            mutation |-> None, next |-> 1]

Init ==
    /\ load \in Workloads
    /\ gui = NewGui
    /\ owner = NewOwner
    /\ accepted = <<>>
    /\ gate = NewGate
    /\ canon = 0
    /\ extent \in Extents /\ \A e \in Extents : e <= extent
    /\ painted = None
    /\ nextPub = 1
    /\ running = FALSE /\ setting = None /\ smooth = None
    /\ layouts = 0 /\ failures = 0
    /\ commands = <<>> /\ updates = <<>>
    /\ published = None /\ frame = None /\ step = None
    /\ canonical = 0
    /\ wheels = <<>> /\ effects = <<>>
    /\ listened = FALSE
    /\ failed = FALSE

-----------------------------------------------------------------------------
(* Pure parts of the handle. *)

Clamp(x, max)   == IF x < 0 THEN 0 ELSE IF x > max THEN max ELSE x
Within(x, max)  == x \in 0 .. max
Covers(s, x)    == x \in s.offset - Reach .. s.offset + Reach
\* The offset after the first n inputs, each clamped, is at[n].
Play(x, inputs, max) ==
    LET at[n \in 0 .. Len(inputs)] ==
            IF n = 0 THEN x ELSE Clamp(at[n - 1] + inputs[n].delta, max)
    IN  at[Len(inputs)]
\* The inputs after sequence number ack.
After(inputs, ack) == Keep(inputs, {i \in ToSet(inputs) : i.seq > ack})
Capped(n, cap)  == IF n < cap THEN n + 1 ELSE n

\* ScrollState::revoke
Revoked(g) ==
    [g EXCEPT !.accepting = FALSE, !.eligible = FALSE,
              !.policy = Capped(@, load.policy),
              !.policyOut = @ \/ g.policy = load.policy]

\* ScrollState::close_acceptance
Closed(g) ==
    IF ~g.accepting THEN g
    ELSE [g EXCEPT !.accepting = FALSE, !.epoch = Capped(@, load.epoch),
                   !.epochOut = @ \/ g.epoch = load.epoch]

\* publication_gate().eligible
Eligible(g, t) ==
    /\ g.accepting /\ g.eligible
    /\ t.mutation = None /\ ~t.latched
    /\ t.authorized = g.policy
    /\ ~g.policyOut /\ ~g.epochOut

SceneMatches(pub) ==
    /\ gui.scene # None
    /\ gui.scene.policy = pub.policy
    /\ gui.scene.epoch = pub.epoch /\ gui.scene.publication = pub.publication

\* publication_is_current, and the check of scroll_for_publication
Current(pub) ==
    /\ Eligible(gui, gate)
    /\ gui.policy = pub.policy /\ gui.epoch = pub.epoch
    /\ SceneMatches(pub)

\* The checks of NativeScrollState::install_scene and ScrollState::install.
Installable(s) ==
    /\ s.ack <= owner.applied /\ s.completed <= owner.completed
    /\ Within(s.offset, s.extent)
    /\ ~gui.epochOut /\ s.epoch = gui.epoch
    /\ s.ack <= gui.last /\ s.completed <= gui.ticket
    /\ s.completed > 0 /\ gui.barrier # None => s.ack >= gui.barrier
    /\ gui.scene # None => /\ s.publication > gui.scene.publication
                           /\ s.ack >= gui.scene.ack
                           /\ s.completed >= gui.scene.completed

\* Mutant: the inputs the scene does not contain are not replayed over it.
InstalledWithoutReplay(s, trusted) ==
    LET kept     == After(gui.pending, s.ack)
        complete == ~gui.ticketOut /\ s.completed = gui.ticket
        ok       == trusted /\ complete /\ ~gui.policyOut /\ s.policy = gui.policy
    IN  [gui EXCEPT !.scene = s, !.pending = kept, !.visual = s.offset,
                    !.eligible = ok, !.accepting = ok,
                    !.barrier = IF complete THEN None ELSE @]

\* ScrollState::install of an installable scene; trusted is scene.eligible.
Installed(s, trusted) ==
    LET kept     == After(gui.pending, s.ack)
        offset   == Play(s.offset, kept, s.extent)
        complete == ~gui.ticketOut /\ s.completed = gui.ticket
        ok       == /\ Covers(s, offset) /\ trusted /\ complete
                    /\ ~gui.policyOut /\ s.policy = gui.policy
    IN  [gui EXCEPT !.scene = s, !.pending = kept,
                    !.visual = IF Covers(s, offset) THEN offset ELSE s.offset,
                    !.eligible = ok, !.accepting = ok,
                    !.barrier = IF complete THEN None ELSE @]

FallbackPending(g) ==
    \/ g.ticketOut
    \/ g.ticket > 0 /\ (g.scene = None \/ g.scene.completed < g.ticket)

\* ScrollState::accept says no.
Refuses(g, delta) ==
    \/ g.scene = None
    \/ ~g.accepting \/ ~g.eligible
    \/ ~Within(g.visual + delta, g.scene.extent)
    \/ ~Covers(g.scene, g.visual + delta)
    \/ Len(g.pending) >= MaxPending
    \/ g.last = load.sequence

\* NativeScrollState::scroll takes the fallback path.
FallsBack(g, delta) ==
    Len(accepted) >= MaxPending \/ FallbackPending(g) \/ Refuses(g, delta)

\* issue_fallback, with the barrier raised to the newest accepted input.
Issue(g) ==
    LET closed  == Closed(g)
        pending == IF g.pending = <<>> THEN None ELSE Last(g.pending).seq
        first   == IF g.barrier # None THEN g.barrier ELSE pending
        newest  == IF accepted = <<>> THEN None ELSE Last(accepted).seq
        barrier == IF newest # None /\ (first = None \/ first < newest
                                        \/ Len(accepted) >= MaxPending)
                   THEN newest ELSE first
        out     == g.ticketOut \/ g.ticket = load.ticket
    IN  [gui |-> [closed EXCEPT !.barrier = barrier, !.ticketOut = out,
                                !.ticket = IF out THEN @ ELSE @ + 1],
         fallback |-> [kind |-> "fallback", after |-> barrier,
                       ticket |-> IF out THEN None ELSE g.ticket + 1]]

\* OwnerInputs::fallback_ready and OwnerLedger::fallback_ready
Ready(f) ==
    /\ f.after # None => f.after <= owner.notified /\ f.after <= owner.applied
    /\ f.ticket # None
    /\ f.ticket = owner.completed + 1

\* The accepted inputs whose default the owner has yet to perform.
Unapplied == After(accepted, owner.applied)

\* materialize_pending: the owner and its offset afterwards.
CanMaterialize ==
    Within(canon, extent) /\ Len(owner.materialized) + Len(Unapplied) <= MaxPending
\* Mutant: an input performed early is not remembered for its notification.
MaterializedUnrecorded ==
    IF CanMaterialize /\ Unapplied # <<>>
    THEN [owner EXCEPT !.applied = Last(Unapplied).seq]
    ELSE owner
Materialized ==
    IF CanMaterialize /\ Unapplied # <<>>
    THEN [owner EXCEPT !.applied = Last(Unapplied).seq, !.materialized = @ \o Unapplied]
    ELSE owner
MaterializedOffset == IF CanMaterialize THEN Play(canon, Unapplied, extent) ELSE canon
Performed(inputs)  == [n \in DOMAIN inputs |-> <<"input", inputs[n].seq>>]
MaterializedEffects == IF CanMaterialize THEN effects \o Performed(Unapplied) ELSE effects

-----------------------------------------------------------------------------
(* The GUI thread. *)

GuiIdle == step = None
Doing(what) == step # None /\ step.do = what

\* NativeScrollHandle::scroll, with the command that goes to the owner; g is
\* the GUI's part of the handle when the call is made.
Scroll(g, delta) ==
    IF FallsBack(g, delta)
    THEN LET issued == Issue(g)
         IN  /\ gui' = issued.gui
             /\ commands' = Append(commands, issued.fallback)
             /\ wheels' = IF issued.fallback.ticket = None THEN wheels
                          ELSE Append(wheels, <<"fallback", issued.fallback.ticket>>)
             /\ step' = None
             /\ UNCHANGED accepted
    ELSE LET input == [seq |-> g.last + 1, delta |-> delta, visual |-> g.visual + delta]
         IN  /\ gui' = [g EXCEPT !.pending = Append(@, input), !.last = input.seq,
                                 !.visual = input.visual]
             /\ accepted' = Append(accepted, input)
             /\ commands' = Append(commands, [kind |-> "accepted", input |-> input])
             /\ wheels' = Append(wheels, <<"input", input.seq>>)
             /\ step' = [do |-> "install",
                         token |-> [seq |-> input.seq, policy |-> g.policy, offset |-> input.visual,
                                    publication |-> g.scene.publication]]

\* Mutant: a canonical command counts as done when the owner takes it.
DrainedWhenTaken == \A n \in DOMAIN commands : commands[n].kind # "canonical" \/ (running /\ n = 1)

\* native_ingress_is_drained: no canonical command is queued or under way.
Drained == \A n \in DOMAIN commands : commands[n].kind # "canonical"

\* A command of the canonical path, in the user's order.
SendCanonical ==
    /\ canonical < load.canonical
    /\ canonical' = canonical + 1
    /\ commands' = Append(commands, [kind |-> "canonical", id |-> canonical'])
    /\ wheels' = Append(wheels, <<"canonical", canonical'>>)

\* try_native_scroll up to the latched transaction: the publication is current.
LatchWheel(delta) ==
    /\ GuiIdle /\ Drained /\ Len(commands) < MaxCommands
    /\ published # None
    /\ Current(published)
    /\ step' = [do |-> "wheel", delta |-> delta]
    /\ UNCHANGED <<load, handleVars, pageVars, commands, updates, published, frame, canonical, histVars>>

\* scroll_for_publication repeats the check under the lock; a wheel that has
\* lost its publication takes the canonical path.
LatchedWheel ==
    /\ Doing("wheel")
    /\ IF Current(published)
       THEN Scroll(gui, step.delta) /\ UNCHANGED canonical
       ELSE SendCanonical /\ step' = None /\ UNCHANGED <<gui, accepted>>
    /\ UNCHANGED <<load, owner, gate, pageVars, updates, published, frame, effects, listened, failed>>

\* try_native_scroll on a publication that is not current, or with a gesture
\* that may not continue: acceptance is closed, so the wheel becomes an ordered
\* fallback.
ClosedWheel(delta) ==
    /\ GuiIdle /\ Drained /\ Len(commands) < MaxCommands
    /\ published # None
    /\ Scroll(Closed(gui), delta)
    /\ UNCHANGED <<load, owner, gate, pageVars, updates, published, frame, canonical,
                   effects, listened, failed>>

\* A wheel with no publication, or behind a canonical command.
CanonicalWheel ==
    /\ GuiIdle
    /\ published = None \/ ~Drained
    /\ SendCanonical
    /\ UNCHANGED <<load, handleVars, pageVars, updates, published, frame, step,
                   effects, listened, failed>>

\* send_observable_page_command: any other input of the user.
PageInput ==
    /\ GuiIdle
    /\ SendCanonical
    /\ IF published = None /\ frame = None THEN UNCHANGED <<gui, gate>>
       ELSE gui' = Revoked(gui) /\ gate' = [gate EXCEPT !.authorized = None]
    /\ published' = None /\ frame' = None
    /\ UNCHANGED <<load, owner, accepted, pageVars, updates, step, effects, listened, failed>>

\* The outcome of validate_for_presentation: "valid", harmlessly "late", or
\* "invalid", which closes the gate until a newer scene acknowledges it.
Verdict(t) ==
    LET authority == /\ t.policy = gui.policy /\ gate.authorized = gui.policy
                     /\ ~gate.latched /\ gate.mutation = None /\ gui.eligible
                     /\ gui.scene # None /\ gui.scene.publication = t.publication
        newer     == gui.scene # None /\ gui.scene.publication > t.publication
    IN  IF newer \/ (authority /\ t.seq < gui.last) THEN "late"
        ELSE IF authority /\ t.seq = gui.last /\ gui.visual = t.offset THEN "valid"
        ELSE "invalid"

\* Its effect on the handle.
Judge(t) ==
    IF Verdict(t) = "invalid"
    THEN /\ gui' = [Closed(gui) EXCEPT !.eligible = FALSE]
         /\ gate' = [gate EXCEPT !.stale =
                        [seq |-> gui.last,
                         publication |-> IF gui.scene = None THEN t.publication
                                         ELSE gui.scene.publication]]
    ELSE UNCHANGED <<gui, gate>>

\* reconcile_publication after a composition that failed: a publication that
\* is still the installed one loses its authority.
Stands(pub) == gui.policy = pub.policy /\ gui.epoch = pub.epoch /\ SceneMatches(pub)
Withdraw(pub) ==
    IF Stands(pub)
    THEN gui' = Revoked(gui) /\ gate' = [gate EXCEPT !.authorized = None] /\ frame' = None
    ELSE UNCHANGED <<gui, gate, frame>>

\* install_native_scroll_presentation: the frame is composed without the lock
\* and then revalidated.
InstallFrame ==
    /\ Doing("install")
    /\ Judge(step.token)
    /\ IF Verdict(step.token) = "valid"
       THEN frame' = step.token /\ step' = [do |-> "present"]
       ELSE step' = None /\ UNCHANGED frame
    /\ UNCHANGED <<load, owner, accepted, pageVars, commands, updates, published, canonical, histVars>>

ComposeFails ==
    /\ Doing("install")
    /\ Withdraw(published)
    /\ step' = None
    /\ UNCHANGED <<load, owner, accepted, pageVars, commands, updates, published, canonical, histVars>>

\* present revalidates the frame at the surface.
Present ==
    /\ GuiIdle \/ Doing("present")
    /\ frame # None
    /\ Judge(frame)
    /\ frame' = IF Verdict(frame) = "valid" THEN frame ELSE None
    /\ step' = None
    /\ UNCHANGED <<load, owner, accepted, pageVars, commands, updates, published, canonical, histVars>>

\* A gesture ends or expires: close_acceptance.
CloseAcceptance ==
    /\ GuiIdle /\ gui.accepting
    /\ gui' = Closed(gui)
    /\ UNCHANGED <<load, owner, accepted, gate, pageVars, commands, updates, guiVars, histVars>>

\* apply_update without a publication it may use; matches says whether the
\* retained pixels still belong to the current publication.
KeepOrClear(matches) ==
    IF published # None /\ matches /\ Current(published)
    THEN UNCHANGED <<gui, gate, published, frame>>
    ELSE /\ published' = None
         /\ IF frame = None THEN UNCHANGED <<gui, gate, frame>>
            ELSE Judge(frame) /\ frame' = IF Verdict(frame) = "valid" THEN frame ELSE None

\* An update that carries no publication.
PlainUpdate(matches) ==
    /\ GuiIdle
    /\ KeepOrClear(matches)
    /\ UNCHANGED <<load, owner, accepted, pageVars, commands, updates, step, canonical, histVars>>

\* A publication that arrives before the canonical commands are done is unused.
UndrainedUpdate(matches) ==
    /\ GuiIdle /\ updates # <<>> /\ ~Drained
    /\ updates' = Tail(updates)
    /\ KeepOrClear(matches)
    /\ UNCHANGED <<load, owner, accepted, pageVars, commands, step, canonical, histVars>>

\* commit_scene_publication for the next update; matches says whether the
\* retained pixels belong to it.  A composed frame is rebound afterwards.
Commit(matches) ==
    LET pub     == Head(updates)
        stale   == \/ gui.policy # pub.policy \/ gui.epoch # pub.epoch
                   \/ gui.scene # None /\ gui.scene.publication >= pub.publication
        blocked == gate.mutation # None \/ gate.latched \/ gui.policyOut \/ gui.epochOut
        clears  == gate.stale # None /\ pub.ack >= gate.stale.seq
                                     /\ pub.publication > gate.stale.publication
        after   == [gate EXCEPT !.authorized = pub.policy, !.stale = IF clears THEN None ELSE @]
        fresh   == Installed(pub, gate.stale = None \/ clears)
    IN  /\ GuiIdle /\ updates # <<>> /\ Drained
        /\ updates' = Tail(updates)
        /\ CASE stale -> UNCHANGED <<gui, gate, published, frame, step>>
             [] ~stale /\ (~matches \/ (~blocked /\ ~Installable(pub))) ->
                    /\ gui' = Revoked(gui)
                    /\ gate' = [gate EXCEPT !.authorized = None]
                    /\ published' = None /\ frame' = None
                    /\ UNCHANGED step
             [] ~stale /\ matches /\ blocked ->
                    /\ gui' = Closed(gui)
                    /\ UNCHANGED <<gate, published, frame, step>>
             [] OTHER ->
                    /\ gate' = after
                    /\ gui' = IF Eligible(fresh, after) THEN fresh ELSE Closed(fresh)
                    /\ IF Eligible(fresh, after) /\ frame = None
                       THEN published' = pub /\ UNCHANGED <<frame, step>>
                       ELSE /\ step' = IF Eligible(fresh, after)
                                       THEN [do |-> "rebind", pub |-> pub] ELSE None
                            /\ UNCHANGED <<published, frame>>
        /\ UNCHANGED <<load, owner, accepted, pageVars, commands, canonical, histVars>>

\* recompose_native_frame_after_scene_commit: rebind_presentation_to_publication.
Rebind ==
    LET pub == step.pub
        ok  == /\ pub.ack < frame.seq
               /\ Eligible(gui, gate)
               /\ frame.policy = gui.policy
               /\ SceneMatches([pub EXCEPT !.policy = gui.policy, !.epoch = gui.epoch])
               /\ frame.seq = gui.last
               /\ frame.publication < pub.publication
        rebound == [frame EXCEPT !.publication = pub.publication, !.offset = gui.visual]
    IN  /\ Doing("rebind")
        /\ frame' = None
        /\ IF ok THEN step' = [do |-> "recompose", pub |-> pub, token |-> rebound] /\ UNCHANGED published
           ELSE step' = None /\ published' = pub
        /\ UNCHANGED <<load, handleVars, pageVars, commands, updates, canonical, histVars>>

\* The recomposed frame is revalidated, or its composition fails.
Recompose ==
    /\ Doing("recompose")
    /\ step' = None
    /\ \/ /\ Judge(step.token)
          /\ frame' = IF Verdict(step.token) = "valid" THEN step.token ELSE None
          /\ published' = IF Verdict(step.token) = "valid" THEN step.pub ELSE None
       \/ /\ Withdraw(step.pub)
          /\ published' = IF Stands(step.pub) THEN None ELSE published
    /\ UNCHANGED <<load, owner, accepted, pageVars, commands, updates, canonical, histVars>>

-----------------------------------------------------------------------------
(* The page owner.  It carries out one command at a time; script runs within *)
(* a command or in a task of its own, and may do any of the script actions.  *)

\* A changed offset or layout makes the next frame paint.
Dirty(changed) ==
    painted' = IF painted # None /\ changed THEN [painted EXCEPT !.clean = FALSE] ELSE painted

OwnerFree == ~running /\ setting = None
NextCommand == Head(commands)

\* claim_notification_for accepts the first input and claims it.
Claims(input) ==
    /\ accepted # <<>> /\ Head(accepted) = input
    /\ input.seq = owner.notified + 1
    /\ IF input.seq > owner.applied
       THEN Len(owner.materialized) < MaxPending /\ input.seq = owner.applied + 1
            /\ owner.materialized = <<>>
       ELSE owner.materialized # <<>> /\ Head(owner.materialized) = input

\* apply_native_scroll_accepted: the default is performed unless a geometry
\* read already did, and the input is notified.
TakeAccepted ==
    LET input == NextCommand.input
        fresh == input.seq > owner.applied
    IN  /\ OwnerFree /\ commands # <<>> /\ NextCommand.kind = "accepted"
        /\ commands' = Tail(commands)
        /\ IF Claims(input)
           THEN /\ accepted' = Tail(accepted)
                /\ owner' = [owner EXCEPT !.notified = input.seq,
                                          !.applied = IF fresh THEN input.seq ELSE @,
                                          !.materialized = IF fresh THEN @ ELSE Tail(@)]
                /\ canon' = IF fresh THEN Clamp(canon + input.delta, extent) ELSE canon
                /\ effects' = IF fresh THEN Append(effects, <<"input", input.seq>>) ELSE effects
                /\ UNCHANGED failed
           ELSE failed' = TRUE /\ UNCHANGED <<accepted, owner, canon, effects>>
        /\ Dirty(canon' # canon)
        /\ UNCHANGED <<load, gui, gate, extent, nextPub, running, setting, smooth, layouts, failures,
                       updates, guiVars, wheels, listened>>

\* apply_native_scroll_fallback, up to the dispatch of the wheel.
StartFallback ==
    /\ OwnerFree /\ commands # <<>> /\ NextCommand.kind = "fallback"
    /\ IF Ready(NextCommand)
       THEN running' = TRUE /\ UNCHANGED <<commands, failed>>
       ELSE /\ commands' = Tail(commands)
            /\ failed' = (failed \/ NextCommand.ticket # None)
            /\ UNCHANGED running
    /\ UNCHANGED <<load, handleVars, canon, extent, painted, nextPub, setting, smooth, layouts, failures,
                   updates, guiVars, wheels, effects, listened>>

\* The wheel and its default are done: complete_fallback.
EndFallback ==
    /\ running /\ setting = None /\ NextCommand.kind = "fallback"
    /\ running' = FALSE
    /\ commands' = Tail(commands)
    /\ IF Ready(NextCommand)
       THEN /\ owner' = [owner EXCEPT !.completed = NextCommand.ticket]
            /\ effects' = Append(effects, <<"fallback", NextCommand.ticket>>)
            /\ UNCHANGED failed
       ELSE failed' = TRUE /\ UNCHANGED <<owner, effects>>
    /\ UNCHANGED <<load, gui, accepted, gate, canon, extent, painted, nextPub, setting, smooth, layouts, failures,
                   updates, guiVars, wheels, listened>>

\* The dispatch fails after the wheel has reached the page (a navigation that a
\* listener asked for fails to commit): the error is reported with the update,
\* and the ticket is never completed.
FallbackError ==
    /\ running /\ setting = None /\ NextCommand.kind = "fallback"
    /\ failures < load.failures
    /\ failures' = failures + 1
    /\ running' = FALSE
    /\ commands' = Tail(commands)
    /\ effects' = Append(effects, <<"fallback", NextCommand.ticket>>)
    /\ UNCHANGED <<load, handleVars, canon, extent, painted, nextPub, setting, smooth, layouts,
                   updates, guiVars, wheels, listened, failed>>

\* A canonical command; its ingress is completed after the whole owner turn.
StartCanonical ==
    /\ OwnerFree /\ commands # <<>> /\ NextCommand.kind = "canonical"
    /\ running' = TRUE
    /\ UNCHANGED <<load, handleVars, canon, extent, painted, nextPub, setting, smooth, layouts, failures,
                   commands, updates, guiVars, histVars>>

EndCanonical ==
    /\ running /\ setting = None /\ NextCommand.kind = "canonical"
    /\ running' = FALSE
    /\ commands' = Tail(commands)
    /\ effects' = Append(effects, <<"canonical", NextCommand.id>>)
    /\ UNCHANGED <<load, handleVars, canon, extent, painted, nextPub, setting, smooth, layouts, failures,
                   updates, guiVars, wheels, listened, failed>>

\* window_scroll_for_document: accepted defaults are materialized, and an
\* offset the layout no longer allows is clamped.
GeometryRead ==
    LET at   == MaterializedOffset
        next == Clamp(at, extent)
    IN  /\ setting = None
        /\ Unapplied # <<>> \/ next # canon
        /\ owner' = Materialized
        /\ effects' = MaterializedEffects
        /\ canon' = next
        /\ IF next = at THEN UNCHANGED <<gui, gate>>
           ELSE gui' = Revoked(gui) /\ gate' = [gate EXCEPT !.authorized = None]
        /\ Dirty(canon' # canon)
        /\ UNCHANGED <<load, accepted, extent, nextPub, running, setting, smooth, layouts, failures,
                       commands, updates, guiVars, wheels, listened, failed>>

\* prepare_programmatic_scroll for a script's scroll to x.  Inputs are
\* materialized before the policy is revoked, and the visual offset is rebased.
PrepareScroll(x, animated) ==
    LET spent  == gate.next = None \/ gate.next >= load.mutation
        token  == gate.next
        gone   == Revoked(gui)
        offset == IF CanMaterialize THEN MaterializedOffset ELSE gui.visual
    IN  /\ setting = None
        /\ ~gui.policyOut       \* bound: nothing scrolls natively any more
        /\ owner' = Materialized
        /\ effects' = MaterializedEffects
        /\ canon' = MaterializedOffset
        /\ gui' = [gone EXCEPT !.policyOut = @ \/ spent, !.visual = offset]
        /\ gate' = [gate EXCEPT !.authorized = None,
                                !.mutation = IF token = None THEN @ ELSE token,
                                !.next = IF spent THEN None ELSE token + 1]
        /\ setting' = [to |-> x, animated |-> animated, token |-> token]
        /\ Dirty(canon' # canon)
        /\ UNCHANGED <<load, accepted, extent, nextPub, running, smooth, layouts, failures,
                       commands, updates, guiVars, wheels, listened, failed>>

\* finish_programmatic_scroll: a superseded token is ignored.
Finish(g, t, token, offset) ==
    IF token = None \/ t.mutation # token THEN [gui |-> g, gate |-> t]
    ELSE [gui  |-> [Revoked(g) EXCEPT !.visual = IF Within(offset, extent) THEN offset ELSE @],
          gate |-> [t EXCEPT !.mutation = None, !.authorized = None]]

\* The setter, and the end of the scroll or the start of its animation.  An
\* earlier animation is cancelled first.
FinishScroll ==
    LET next     == Clamp(setting.to, extent)
        old      == Finish(gui, gate, smooth, canon)
        from     == IF setting.animated THEN Clamp(canon, extent) ELSE canon
        animates == setting.animated /\ next # from
        set      == IF (IF animates THEN from ELSE next) # canon
                    THEN [gui |-> Revoked(old.gui), gate |-> [old.gate EXCEPT !.authorized = None]]
                    ELSE old
        done     == IF animates THEN set ELSE Finish(set.gui, set.gate, setting.token, next)
    IN  /\ setting # None
        /\ setting' = None
        /\ smooth' = IF animates THEN setting.token ELSE None
        /\ canon' = IF animates THEN from ELSE next
        /\ gui' = done.gui /\ gate' = done.gate
        /\ Dirty(canon' # canon)
        /\ UNCHANGED <<load, owner, accepted, extent, nextPub, running, layouts, failures,
                       commands, updates, guiVars, histVars>>

\* sample_smooth_scrolls reaches the end of the animation.
SmoothEnd(x) ==
    LET next  == Clamp(x, extent)
        moved == IF next = canon THEN [gui |-> gui, gate |-> gate]
                 ELSE [gui |-> Revoked(gui), gate |-> [gate EXCEPT !.authorized = None]]
        done  == Finish(moved.gui, moved.gate, smooth, next)
    IN  /\ smooth # None /\ setting = None
        /\ smooth' = None
        /\ canon' = next
        /\ gui' = done.gui /\ gate' = done.gate
        /\ Dirty(canon' # canon)
        /\ UNCHANGED <<load, owner, accepted, extent, nextPub, running, setting, layouts, failures,
                       commands, updates, guiVars, histVars>>

\* revoke_policy before a change of style, layout or geometry.
PolicyChange(max) ==
    /\ setting = None
    /\ layouts < load.layouts
    /\ layouts' = layouts + 1
    /\ gui' = Revoked(gui)
    /\ gate' = [gate EXCEPT !.authorized = None]
    /\ extent' = max
    /\ Dirty(max # extent)
    /\ UNCHANGED <<load, owner, accepted, canon, nextPub, running, setting, smooth, failures,
                   commands, updates, guiVars, histVars>>

\* Mutant: the policy is revoked but the listener is not remembered.
BlockingListenerForgotten ==
    /\ setting = None /\ ~listened
    /\ listened' = TRUE
    /\ gui' = Revoked(gui)
    /\ gate' = [gate EXCEPT !.authorized = None]
    /\ UNCHANGED <<load, owner, accepted, pageVars, commands, updates, guiVars,
                   wheels, effects, failed>>

\* revoke_for_blocking_listener, before the listener can be observed.
BlockingListener ==
    /\ setting = None /\ ~listened
    /\ listened' = TRUE
    /\ gui' = Revoked(gui)
    /\ gate' = [gate EXCEPT !.authorized = None, !.latched = TRUE]
    /\ UNCHANGED <<load, owner, accepted, pageVars, commands, updates, guiVars,
                   wheels, effects, failed>>

Scene(p) == [publication |-> nextPub, policy |-> gui.policy, epoch |-> gui.epoch,
             ack |-> p.ack, completed |-> p.completed, offset |-> p.offset, extent |-> p.extent]

\* The page is painted, or, while the gate is closed, the pixels painted last
\* are published again; posted is FALSE when the gate moved meanwhile or the
\* target under the cursor may not scroll natively.
Publish(paint, posted) ==
    LET pixels == IF paint THEN [offset |-> canon, extent |-> extent,
                                 clean |-> TRUE,
                                 ack |-> owner.applied, completed |-> owner.completed]
                  ELSE painted
    IN  /\ OwnerFree
        /\ paint \/ (posted /\ painted # None /\ painted.clean
                     /\ ~Eligible(gui, gate))
        /\ painted' = pixels
        /\ IF posted
           THEN /\ nextPub <= load.publication
                /\ nextPub' = nextPub + 1
                /\ updates' = Append(updates, Scene(pixels))
           ELSE painted' # painted /\ UNCHANGED <<nextPub, updates>>
        /\ UNCHANGED <<load, handleVars, canon, extent, running, setting, smooth, layouts, failures,
                       commands, guiVars, histVars>>

-----------------------------------------------------------------------------

GuiStep ==
    \/ \E d \in Deltas : LatchWheel(d) \/ ClosedWheel(d)
    \/ LatchedWheel
    \/ CanonicalWheel
    \/ PageInput
    \/ InstallFrame
    \/ ComposeFails
    \/ Present
    \/ CloseAcceptance
    \/ \E m \in BOOLEAN : PlainUpdate(m) \/ UndrainedUpdate(m) \/ Commit(m)
    \/ Rebind
    \/ Recompose

OwnerStep ==
    \/ TakeAccepted
    \/ StartFallback
    \/ EndFallback
    \/ FallbackError
    \/ StartCanonical
    \/ EndCanonical
    \/ GeometryRead
    \/ \E x \in Targets, s \in BOOLEAN : PrepareScroll(x, s)
    \/ FinishScroll
    \/ \E x \in Targets : SmoothEnd(x)
    \/ \E e \in Extents : PolicyChange(e)
    \/ BlockingListener
    \/ \E paint, posted \in BOOLEAN : Publish(paint, posted)

Next == GuiStep \/ OwnerStep
Spec == Init /\ [][Next]_vars

-----------------------------------------------------------------------------
(* Properties. *)

\* Every counter and every queue of the handle keeps its range, and the queues
\* their capacity.
TypeOK ==
    /\ load \in Workloads
    /\ gui \in [scene : Maybe(Scenes), visual : Nat, pending : Seq(Input),
               last : 0 .. load.sequence, ticket : 0 .. load.ticket, barrier : Maybe(Nat),
               ticketOut : BOOLEAN, policy : 0 .. load.policy, policyOut : BOOLEAN,
               epoch : 0 .. load.epoch, epochOut : BOOLEAN, accepting : BOOLEAN,
               eligible : BOOLEAN]
    /\ owner \in [applied : 0 .. gui.last, notified : Nat, materialized : Seq(Input),
                 completed : 0 .. gui.ticket]
    /\ accepted \in Seq(Input)
    /\ {Len(gui.pending), Len(accepted), Len(owner.materialized)} \subseteq 0 .. MaxPending
    /\ canon \in Nat /\ extent \in Extents
    /\ painted \in Maybe(Pixels) /\ nextPub \in Nat
    /\ commands \in Seq(Command) /\ updates \in Seq(Scenes)
    /\ published \in Maybe(Scenes) /\ frame \in Maybe(Token) /\ step \in Maybe(Errand)
    /\ canonical \in Nat
    /\ {running, listened, failed} \subseteq BOOLEAN /\ failures \in Nat

\* The owner and the GUI agree on the inputs between them, whatever the two
\* threads do: the FIFO holds exactly the accepted inputs not yet notified, in
\* order; those performed early are its prefix; and the owner never meets an
\* input or a fallback it must reject as a duplicate, a gap or out of order,
\* unless the dispatch of a fallback has failed.
OwnerAgrees ==
    /\ TypeOK
    /\ failed => failures > 0
    /\ Len(accepted) = gui.last - owner.notified
    /\ \A n \in DOMAIN accepted : accepted[n].seq = owner.notified + n
    /\ owner.materialized = SubSeq(accepted, 1, owner.applied - owner.notified)

\* A fallback the GUI has numbered runs on the page owner's canonical path: the
\* owner never rejects one.
FallbackRuns == ~failed

\* The page performs the user's wheels, accepted, fallen back or canonical,
\* each once and in the order in which the GUI received them, as long as the
\* owner has rejected none.
WheelOrder == ~failed => IsPrefix(effects, wheels)

\* While the gate lets the GUI scroll by itself, its offset is the one the page
\* will have when it has performed the inputs accepted so far.
VisualTruth ==
    Eligible(gui, gate) => gui.visual = Play(canon, Unapplied, extent)

\* Once the page has a blocking wheel listener, which may cancel a wheel, the
\* GUI accepts no further wheel by itself.
BlockedNeverAccepts == [][listened => gui'.last = gui.last]_vars
=============================================================================
