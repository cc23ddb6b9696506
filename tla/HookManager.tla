---------------------------- MODULE HookManager ----------------------------
(***************************************************************************)
(* The observation hooks of the bridge (bridge/src/hook_manager.cpp).      *)
(*                                                                         *)
(* A fixed array of slots, each with a pair of callback functions of its   *)
(* own, is lent to hooks: install claims the first free slot and registers *)
(* the slot's callbacks with REFramework, remove, expiry and the end of    *)
(* the game release it.  A callback is told its slot and nothing else, so  *)
(* what it captures goes to whatever hook the slot holds by then.  Removed *)
(* hooks leave their events in an archive that keeps the newest few.       *)
(*                                                                         *)
(* Every operation runs under m_mutex and is one step.  REFramework calls  *)
(* the callbacks it has registered for a method whenever the game calls    *)
(* it, on any thread.  The sampling hash is a free choice, a counter that  *)
(* is only reported is left out.                                           *)
(***************************************************************************)
EXTENDS Naturals, Sequences, FiniteSets

CONSTANTS Hooks,       \* the hook_refs install may draw; each is drawn once
          NoHook,
          Methods,
          NoMethod,
          Phases,      \* what callers ask to observe
          SlotCount,   \* kSlots
          ArchiveSize, \* removed hooks whose events are kept
          MaxEvents,   \* max_events of a hook
          Ttl,         \* ttl_seconds of a hook, in ticks
          Values,      \* what a captured event shows of primitive arguments
          Objects,     \* the object_refs put_managed may draw
          RandomFails, \* BCryptGenRandom may fail
          MaxRestarts

Slots  == 1..SlotCount
Contents == Values \cup Objects

ASSUME ConstantsOK ==
  /\ NoHook \notin Hooks /\ NoMethod \notin Methods
  /\ Phases \subseteq {"pre", "post", "both"}
  /\ Values \cap Objects = {} /\ IsFiniteSet(Objects)
  /\ SlotCount \in Nat \ {0} /\ ArchiveSize \in Nat \ {0} /\ MaxEvents \in Nat \ {0}
  /\ Ttl \in Nat \ {0} /\ RandomFails \in BOOLEAN /\ MaxRestarts \in Nat

VARIABLES
  entry,    \* hook in each slot, NoHook for an inactive entry
  native,   \* callbacks registered with REFramework
  archive,  \* m_archive_order
  method,   \* of a hook, NoMethod until it is installed
  phase,
  ttl,      \* ticks until it expires
  captured, \* its events
  dropped,  \* whether one was dropped
  restarts

tableVars == <<entry, native, archive>>
hookVars  == <<method, phase, ttl, captured, dropped>>
managerVars == <<tableVars, hookVars, restarts>>

Installed == {h \in Hooks : \E s \in Slots : entry[s] = h}
Archived  == {archive[i] : i \in 1..Len(archive)}
Drawn     == {h \in Hooks : method[h] # NoMethod} \cup {n.id : n \in native}

ManagerInit ==
  /\ entry = [s \in Slots |-> NoHook]
  /\ native = {}
  /\ archive = <<>>
  /\ method = [h \in Hooks |-> NoMethod]
  /\ phase = [h \in Hooks |-> "both"]
  /\ ttl = [h \in Hooks |-> 0]
  /\ captured = [h \in Hooks |-> <<>>]
  /\ dropped = [h \in Hooks |-> FALSE]
  /\ restarts = 0

-----------------------------------------------------------------------------
(* install                                                                 *)

Free(s) == entry[s] = NoHook
FirstFree(s) == Free(s) /\ \A t \in 1..(s - 1) : ~Free(t)

Callbacks(s, m, h) == [slot |-> s, method |-> m, id |-> h]

Install(h, m, p) ==
  /\ h \notin Drawn
  /\ \E s \in Slots :
       /\ FirstFree(s)
       /\ native' = native \cup {Callbacks(s, m, h)}
       /\ entry' = [entry EXCEPT ![s] = h]
  /\ method' = [method EXCEPT ![h] = m]
  /\ phase' = [phase EXCEPT ![h] = p]
  /\ ttl' = [ttl EXCEPT ![h] = Ttl]
  /\ UNCHANGED <<archive, captured, dropped, restarts>>

\* random_suffix throws: the callbacks are registered, the slot stays free.
InstallFails(h, m) ==
  /\ RandomFails /\ h \notin Drawn
  /\ \E s \in Slots : FirstFree(s) /\ native' = native \cup {Callbacks(s, m, h)}
  /\ UNCHANGED <<entry, archive, hookVars, restarts>>

-----------------------------------------------------------------------------
(* remove, clear_expired                                                   *)

\* Seeded fault: the loop that trims the archive goes one too far.
NewestButOne(q) ==
  IF Len(q) < ArchiveSize THEN q ELSE SubSeq(q, Len(q) - ArchiveSize + 2, Len(q))

Newest(q) ==
  IF Len(q) <= ArchiveSize THEN q ELSE SubSeq(q, Len(q) - ArchiveSize + 1, Len(q))

\* The hooks of the slots S, in the order of the slots.
InOrderOfSlots(S) ==
  LET f[n \in 0..SlotCount] ==
        IF n = 0 THEN <<>>
        ELSE IF n \in S THEN Append(f[n - 1], entry[n]) ELSE f[n - 1]
  IN f[SlotCount]

\* Seeded fault: the callbacks stay registered.
ReleaseUnregistered(S) ==
  /\ entry' = [s \in Slots |-> IF s \in S THEN NoHook ELSE entry[s]]
  /\ native' = native
  /\ archive' = Newest(archive \o InOrderOfSlots(S))


\* remove_slot for each of the slots S.
Release(S) ==
  /\ entry' = [s \in Slots |-> IF s \in S THEN NoHook ELSE entry[s]]
  /\ native' = {n \in native : ~(n.slot \in S /\ n.id = entry[n.slot])}
  /\ archive' = Newest(archive \o InOrderOfSlots(S))

Remove(h) ==
  /\ \E s \in Slots : entry[s] = h /\ Release({s})
  /\ UNCHANGED <<hookVars, restarts>>

Expired(s) == entry[s] # NoHook /\ ttl[entry[s]] = 0

\* The game thread calls it after every batch of commands.
ClearExpired ==
  /\ \E s \in Slots : Expired(s)
  /\ Release({s \in Slots : Expired(s)})
  /\ UNCHANGED <<hookVars, restarts>>

TickHooks == ttl' = [h \in Hooks |-> IF ttl[h] > 0 THEN ttl[h] - 1 ELSE 0]

\* The game ends, and its successor starts with empty tables.
ForgetAll ==
  /\ restarts < MaxRestarts /\ restarts' = restarts + 1
  /\ entry' = [s \in Slots |-> NoHook] /\ native' = {} /\ archive' = <<>>
  /\ UNCHANGED hookVars

-----------------------------------------------------------------------------
(* on_pre, on_post                                                         *)

Event(n, when, c) == [method |-> n.method, phase |-> when, content |-> c]

ObjectsSeen == UNION {{captured[h][i].content : i \in 1..Len(captured[h])} : h \in Hooks}

\* put_managed draws a new object_ref for every capture.
Drawable(c) == c \in Values \/ c \notin ObjectsSeen

Record(h, e) ==
  \/ /\ Len(captured[h]) < MaxEvents
     /\ captured' = [captured EXCEPT ![h] = Append(@, e)]
     /\ UNCHANGED dropped
  \/ /\ Len(captured[h]) >= MaxEvents
     /\ dropped' = [dropped EXCEPT ![h] = TRUE]
     /\ UNCHANGED captured

\* Seeded fault: an observed call renews the hook, as a use renews an object.
OnPreRenewing(n, c) ==
  LET h == entry[n.slot] IN
  /\ h # NoHook /\ phase[h] # "post" /\ Drawable(c)
  /\ Record(h, Event(n, "pre", c))
  /\ ttl' = [ttl EXCEPT ![h] = Ttl]
  /\ UNCHANGED <<tableVars, method, phase, restarts>>

\* The steps of a call that is not sampled change nothing.
OnPre(n, c) ==
  LET h == entry[n.slot] IN
  /\ h # NoHook /\ phase[h] # "post" /\ Drawable(c)
  /\ Record(h, Event(n, "pre", c))
  /\ UNCHANGED <<tableVars, method, phase, ttl, restarts>>

OnPost(n, c) ==
  LET h == entry[n.slot] IN
  /\ h # NoHook /\ phase[h] # "pre" /\ Drawable(c)
  /\ Record(h, Event(n, "post", c))
  /\ UNCHANGED <<tableVars, method, phase, ttl, restarts>>

Observe == \E n \in native, c \in Contents : OnPre(n, c) \/ OnPost(n, c)

-----------------------------------------------------------------------------
(* The component by itself: any caller may install and remove.             *)

Tick == TickHooks /\ UNCHANGED <<tableVars, method, phase, captured, dropped, restarts>>

ManagerNext ==
  \/ \E h \in Hooks, m \in Methods, p \in Phases : Install(h, m, p)
  \/ \E h \in Hooks, m \in Methods : InstallFails(h, m)
  \/ \E h \in Hooks : Remove(h)
  \/ ClearExpired \/ Tick \/ ForgetAll \/ Observe

ManagerSpec == ManagerInit /\ [][ManagerNext]_managerVars

-----------------------------------------------------------------------------
(* Properties.                                                             *)

\* Type invariant: no hook is in two slots, none is both installed and
\* archived, none holds more events than it may, and nothing is known of a
\* hook that was never installed.
ManagerTypeOK ==
  /\ entry \in [Slots -> Hooks \cup {NoHook}]
  /\ \A s, t \in Slots : (entry[s] = entry[t] /\ entry[s] # NoHook) => s = t
  /\ native \subseteq [slot : Slots, method : Methods, id : Hooks]
  /\ archive \in Seq(Hooks) /\ Len(archive) <= ArchiveSize
  /\ Cardinality(Archived) = Len(archive)
  /\ Archived \cap Installed = {}
  /\ method \in [Hooks -> Methods \cup {NoMethod}]
  /\ phase \in [Hooks -> Phases \cup {"both"}]
  /\ ttl \in [Hooks -> 0..Ttl]
  /\ \A h \in Hooks :
       captured[h] \in Seq([method : Methods, phase : {"pre", "post"}, content : Contents])
  /\ \A h \in Hooks :
       Len(captured[h]) <= MaxEvents /\ (dropped[h] => Len(captured[h]) = MaxEvents)
  /\ dropped \in [Hooks -> BOOLEAN]
  /\ \A h \in Hooks : method[h] = NoMethod =>
       (h \notin Installed \cup Archived /\ captured[h] = <<>>)
  /\ restarts \in 0..MaxRestarts

\* A hook only shows calls of the method it was installed on, however often
\* its slot was lent before: a callback does not know its hook.  That is, as
\* long as no install has failed and left its callbacks without an owner.
EventsAreOfTheMethod ==
  (\A n \in native : method[n.id] # NoMethod) =>
    \A h \in Installed \cup Archived :
      \A i \in 1..Len(captured[h]) : captured[h][i].method = method[h]


\* The events of a removed hook are kept, and stay readable until ArchiveSize
\* others have been removed after it, unless the game ends.
ArchiveKeepsTheNewest ==
  [][restarts' = restarts =>
       /\ \A h \in Installed \ Installed' : h \in Archived' \/ Len(archive') = ArchiveSize
       /\ \A i \in 1..Len(archive) : archive[i] \notin Archived' =>
            (Len(archive') = ArchiveSize /\ \A k \in 1..i : archive[k] \notin Archived')
    ]_managerVars

\* No hook outlives its ttl for good, however busy its method is.
HooksExpire == \A h \in Hooks : h \in Installed ~> h \notin Installed
=============================================================================
