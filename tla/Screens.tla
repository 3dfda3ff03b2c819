------------------------------ MODULE Screens ------------------------------
(***************************************************************************)
(* One browser tab of a signed-in user: the screen it shows and one entry  *)
(* of its query cache (React Query with the options of lib/providers.tsx). *)
(* Entries do not influence each other, so the entry that is watched is    *)
(* chosen at the start.  What the server holds of the entry's tables is a  *)
(* clock that every change of one of them advances; an entry is the clock  *)
(* its data was read at.  The tab's own changes are sent from its screens, *)
(* those of other users happen on their own.                               *)
(***************************************************************************)
EXTENDS Pages, Integers

CONSTANT MaxClock       \* bound on the number of changes

ASSUME MaxClockAssumption == MaxClock \in Nat

VARIABLES role,         \* of the signed-in user
          watched,      \* the query hook whose cache entry is modelled
          views,        \* the screens the role may open, as the entry meets them
          screen,       \* the screen shown
          now,          \* the clock of the watched tables on the server
          entry,        \* the cache entry
          sent,         \* the mutation that is not answered yet, if any
          due           \* the clock the entry owes the user

screensVars == <<role, watched, views, screen, now, entry, sent, due>>

NoClock == -1           \* no data, or no fetch in flight
Waiting == -2           \* in flight, not handled by the server yet
Nothing == [done |-> NoClock]

\* What matters of a mutation to an entry.  A checkout and an exchange count
\* the use of discounts, which useCheckout and useAdjustOrderSale do not
\* announce to the list of discounts: that list owes them nothing.
CountsUse(m, query) == m.call[1] = "orders" /\ query.key[1] = "discounts"

Effect(m, query) ==
  LET touches == Writes(m.call) \intersect UNION {Reads(call) : call \in query.calls} # {}
  IN [tells   |-> Told(m.tells, query.key),
      touches |-> touches,
      visible |-> touches /\ ~CountsUse(m, query)]

Matters(effect) == effect.tells \/ effect.touches

\* A screen as the entry meets it, and what it sends that is refused.
View(r, page, query) ==
  [shown   |-> query \in Queries(page),
   effects |-> {e \in {Effect(m, query) : m \in Mutations(page)} : Matters(e)},
   refused |-> {call \in Calls(page) : ~Admitted(r, call)}]

MayOpen(r) == {n \in DOMAIN Screens(r) : canAccessPath(r, Screens(r)[n].route)}
Home(r)    == {n \in MayOpen(r) : Screens(r)[n].route = getDefaultRouteForRole(r)}

\* Screens that neither show the entry nor change its tables are alike: only
\* the one a role lands on is visited, and those that send refused calls.
Views(r, query) ==
  LET view == [n \in MayOpen(r) |-> View(r, Screens(r)[n], query)]
      near == {n \in MayOpen(r) : \/ n \in Home(r)
                                  \/ view[n].shown
                                  \/ view[n].effects # {} \/ view[n].refused # {}}
  IN [n \in near |-> view[n]]

Mounted(n) == views[n].shown

------------------------------------------------------------------------------
EmptyEntry == [data |-> NoClock, fetch |-> NoClock, invalid |-> FALSE, old |-> FALSE,
               failed |-> FALSE, overtaken |-> FALSE]

ScreensInit ==
  /\ role \in AnyRole
  /\ watched \in UNION {Queries(Screens(role)[n]) : n \in MayOpen(role)}
  /\ views = Views(role, watched)
  /\ screen \in Home(role)
  /\ now = 0
  /\ entry = [EmptyEntry EXCEPT !.fetch = IF Mounted(screen) THEN Waiting ELSE NoClock]
  /\ sent = Nothing
  /\ due = 0

\* A fetch begins; the answer of one it replaces is dropped.
Refetched == [entry EXCEPT !.fetch = Waiting, !.overtaken = FALSE]

\* A mounting query refetches when it has no data or stale data, and joins a
\* fetch that is already in flight.
OnMount ==
  IF entry.fetch = NoClock /\ (entry.data = NoClock \/ entry.invalid \/ entry.old)
  THEN Refetched ELSE entry

Visit(s) ==
  /\ s # screen
  /\ screen' = s
  /\ entry' = IF Mounted(s) /\ ~Mounted(screen) THEN OnMount ELSE entry
  /\ UNCHANGED <<role, watched, views, now, sent, due>>

\* The server answers a fetch with what it holds.
ServerReads ==
  /\ entry.fetch = Waiting
  /\ entry' = [entry EXCEPT !.fetch = now]
  /\ UNCHANGED <<role, watched, views, screen, now, sent, due>>

FetchArrives ==
  /\ entry.fetch >= 0
  /\ entry' = [entry EXCEPT !.data = entry.fetch, !.fetch = NoClock,
                            !.invalid = FALSE, !.old = FALSE, !.failed = FALSE]
  /\ UNCHANGED <<role, watched, views, screen, now, sent, due>>

\* Refused, or lost together with its retry: the page shows the error.
FetchFails ==
  /\ entry.fetch # NoClock
  /\ entry' = [entry EXCEPT !.fetch = NoClock, !.failed = TRUE]
  /\ UNCHANGED <<role, watched, views, screen, now, sent, due>>

\* staleTime has passed; data no page shows is forgotten after a while.
Ages ==
  /\ entry.data # NoClock /\ ~entry.old
  /\ entry' = [entry EXCEPT !.old = TRUE]
  /\ UNCHANGED <<role, watched, views, screen, now, sent, due>>

Forgotten ==
  /\ ~Mounted(screen) /\ entry.fetch = NoClock /\ entry # EmptyEntry
  /\ entry' = EmptyEntry
  /\ UNCHANGED <<role, watched, views, screen, now, sent, due>>

\* Another user, or this one in another tab, changes the tables.
Elsewhere ==
  /\ now < MaxClock
  /\ now' = now + 1
  /\ UNCHANGED <<role, watched, views, screen, entry, sent, due>>

------------------------------------------------------------------------------
\* A button of the screen sends a mutation; `here' is whether the entry is on
\* that screen and shows what the mutation changes.
SendMutation(effect) ==
  /\ sent = Nothing
  /\ sent' = [tells   |-> effect.tells,
              touches |-> effect.touches,
              here    |-> Mounted(screen) /\ effect.visible,
              done    |-> Waiting]
  /\ UNCHANGED <<role, watched, views, screen, now, entry, due>>

ServerChanges ==
  /\ sent # Nothing /\ sent.done = Waiting
  /\ now < MaxClock
  /\ now' = IF sent.touches THEN now + 1 ELSE now
  /\ sent' = [sent EXCEPT !.done = now']
  /\ UNCHANGED <<role, watched, views, screen, entry, due>>

\* refetchType: 'none'.
MarkedOnly == [entry EXCEPT !.invalid = TRUE, !.overtaken = entry.overtaken \/ entry.fetch # NoClock]

\* invalidateQueries: an entry on the screen is fetched anew, except that a
\* first load in flight is left to end, as is a fetch nobody watches.
Invalidated ==
  LET marked == [entry EXCEPT !.invalid = TRUE] IN
  IF Mounted(screen) /\ (entry.fetch = NoClock \/ entry.data # NoClock)
  THEN [marked EXCEPT !.fetch = Waiting, !.overtaken = FALSE]
  ELSE [marked EXCEPT !.overtaken = entry.overtaken \/ entry.fetch # NoClock]

MutationAnswered ==
  /\ sent # Nothing /\ sent.done # Waiting
  /\ entry' = IF sent.tells THEN Invalidated ELSE entry
  /\ due' = IF sent.tells \/ sent.here THEN sent.done ELSE due
  /\ sent' = Nothing
  /\ UNCHANGED <<role, watched, views, screen, now>>

\* Refused by the server, or its answer lost: nothing is invalidated.
MutationFails ==
  /\ sent # Nothing
  /\ sent' = Nothing
  /\ UNCHANGED <<role, watched, views, screen, now, entry, due>>

ScreensNext ==
  \/ \E s \in DOMAIN views : Visit(s)
  \/ ServerReads \/ FetchArrives \/ FetchFails \/ Ages \/ Forgotten \/ Elsewhere
  \/ \E effect \in views[screen].effects : SendMutation(effect)
  \/ ServerChanges \/ MutationAnswered \/ MutationFails

ScreensSpec == ScreensInit /\ [][ScreensNext]_screensVars

------------------------------------------------------------------------------
(* What the controllers and the pages promise each other: a screen a role  *)
(* may open never sends a call the server has no handler for or refuses to *)
(* that role (route-access.ts against the @Roles of the controllers).      *)
PagesAreServed == views[screen].refused = {}

(* Every mutation announces the entries shown on the screen it is sent     *)
(* from whose tables it changes: the keys of its hook fit the components   *)
(* around it, the discounts a sale uses apart (CountsUse).                 *)
ScreensAnnounced ==
  \A n \in DOMAIN views :
    views[n].shown => \A effect \in views[n].effects : effect.visible => effect.tells

(* After a mutation of this tab was answered, a screen never shows, as     *)
(* settled data, what was read before it: neither on the screen that sent  *)
(* it nor on one that is opened later (the keys of the mutation hooks).    *)
OwnChangesShow ==
  Mounted(screen) /\ entry.fetch = NoClock /\ ~entry.failed
    => entry.data >= due \/ entry.overtaken
==============================================================================
