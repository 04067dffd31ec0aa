-------------------------- MODULE Bootstrap_proofs --------------------------
(***************************************************************************)
(* What an attempt of the reconciler that succeeds has brought about, for  *)
(* any forest of menus, any tenants and any manifests.                     *)
(***************************************************************************)
EXTENDS Bootstrap, TLAPS

-----------------------------------------------------------------------------
(* The row of the application exists once anything depends on it, and an   *)
(* attempt knows no later version than the row has.                        *)
RowFirst ==
  /\ app.declared \/ (\E c \in Codes : draft[c].version > 0) => app.version > 0
  /\ run.app.version <= app.version /\ run.app.published <= app.published
  /\ run.app.declared => run.app.version > 0
  /\ run.pc \in {"menus", "upsert", "grant", "done"} => app.version > 0

(* What an attempt has listed and what it has done, as long as no other    *)
(* client writes.                                                          *)
Listing == {"grants", "application", "menus", "upsert"}

ApplicationKnown ==
  /\ run.pc \in Listing => run.app = app
  /\ run.pc \in {"menus", "upsert", "grant", "done"} => applicationEqual(app)

GrantsKnown ==
  \A t \in Tenants :
    /\ run.pc \in {"application", "menus", "upsert"} => run.grants[t] = grant[t]
    /\ run.pc = "grants" /\ t \notin run.tenants => run.grants[t] = grant[t]
    /\ run.pc = "grant" /\ t \in run.tenants => run.grants[t] = grant[t]
    /\ (run.pc = "grant" /\ t \notin run.tenants) \/ run.pc = "done" => grant[t].active

Declares(c) ==
  /\ Live(c) /\ draft[c].content = manifest.menus[c]
  /\ draft[c].status \in {"active", ""}

MenusKnown ==
  /\ run.pc = "upsert" =>
       /\ \A c \in run.todo : run.menus[c] = IF Live(c) THEN draft[c] ELSE NoMenu
       /\ \A c \in DOMAIN manifest.menus \ run.todo : Declares(c)
  /\ run.pc \in {"grant", "done"} =>
       app.published > 0 /\ \A c \in DOMAIN manifest.menus : Declares(c)

Alone == run.alone => ApplicationKnown /\ GrantsKnown /\ MenusKnown

BootstrapInv ==
  /\ TypeOK /\ RowFirst /\ run.todo \subseteq DOMAIN manifest.menus /\ Alone
  /\ DraftIsTree

-----------------------------------------------------------------------------
(* The release shows the draft, or the attempt has yet to publish.         *)
Synced == \A c \in Codes : Live(c) => release[c] = draft[c].content

Uninterrupted ==
  ~ disturbed =>
    /\ Synced \/ app.published = 0 \/ (run.pc = "upsert" /\ run.changed)
    /\ run.pc \in {"grant", "done"} => Synced

-----------------------------------------------------------------------------
LEMMA Successor == \A n \in Nat : n + 1 \in Nat
  OBVIOUS

LEMMA Positive == 1 > 0 /\ \A n \in Nat : n + 1 > 0
  OBVIOUS

LEMMA DeclaredMenus ==
  ASSUME manifest \in Manifests
  PROVE  /\ DOMAIN manifest.menus \subseteq Codes /\ DOMAIN manifest.menus # {}
         /\ manifest.route \in Routes \cup {NoRoute}
         /\ \A c \in DOMAIN manifest.menus :
              /\ manifest.menus[c] \in Contents
              /\ Parent[c] \in DOMAIN manifest.menus \cup {NoCode}
  <1>1. manifest \in Manifest
    BY ManifestsAssumption
  <1>2. PICK S \in (SUBSET Codes) \ {{}} : manifest.menus \in [S -> Contents]
    BY <1>1 DEF Manifest
  <1> QED BY <1>1, <1>2 DEF Manifest

(* The fields of an attempt, and those of an attempt that has ended.       *)
LEMMA RunFields ==
  ASSUME run \in Run
  PROVE  /\ run.pc \in {"idle", "grants", "application", "menus", "upsert", "grant", "done"}
         /\ run.app \in AppRow /\ run.grants \in [Tenants -> GrantRow]
         /\ run.menus \in [Codes -> MenuRow]
         /\ run.todo \in SUBSET Codes /\ run.tenants \in SUBSET Tenants
         /\ run.changed \in BOOLEAN /\ run.reports \in BOOLEAN
         /\ run.settled \in BOOLEAN /\ run.alone \in BOOLEAN
  BY DEF Run

LEMMA Rows ==
  /\ NoApp \in AppRow /\ NoMenu \in MenuRow /\ NoGrant \in GrantRow
  /\ NoApp.version = 0 /\ NoApp.published = 0 /\ ~ NoApp.declared /\ NoApp.route = NoRoute
  BY DEF NoApp, NoMenu, NoGrant, AppRow, MenuRow, GrantRow

LEMMA IdleFields ==
  /\ IdleRun \in Run
  /\ IdleRun.pc = "idle" /\ IdleRun.app = NoApp /\ IdleRun.todo = {} /\ IdleRun.tenants = {}
  /\ IdleRun.alone /\ ~ IdleRun.changed
  <1>1. IdleRun \in Run
    <2> DEFINE g == [t \in Tenants |-> NoGrant]
               m == [c \in Codes |-> NoMenu]
    <2>1. g \in [Tenants -> GrantRow] /\ m \in [Codes -> MenuRow]
      BY Rows
    <2>2. IdleRun = [pc |-> "idle", app |-> NoApp, grants |-> g, menus |-> m,
                     todo |-> {}, tenants |-> {}, changed |-> FALSE,
                     reports |-> FALSE, settled |-> FALSE, alone |-> TRUE]
      BY DEF IdleRun
    <2> HIDE DEF g, m
    <2> QED BY <2>1, <2>2, Rows DEF Run
  <1> QED BY <1>1 DEF IdleRun

LEMMA TypeInit == Init => TypeOK
  <1> SUFFICES ASSUME Init PROVE TypeOK
    OBVIOUS
  <1>1. draft \in [Codes -> MenuRow] /\ grant \in [Tenants -> GrantRow]
        /\ release \in [Codes -> Contents \cup {Absent}]
    BY Rows DEF Init
  <1>2. app \in AppRow /\ ~ app.version > 0 /\ run \in Run
    BY Rows, IdleFields DEF Init
  <1>3. {retries, crashes, edits, rollouts, reruns} \subseteq Nat
    BY DEF Init
  <1>4. manifest \in Manifests /\ settled \in BOOLEAN /\ disturbed \in BOOLEAN
    BY DEF Init
  <1> QED BY <1>1, <1>2, <1>3, <1>4 DEF TypeOK

(* A publication moves the version and counts.                             *)
LEMMA PublishTypes ==
  ASSUME TypeOK, app.version > 0, Publish
  PROVE  /\ app' \in AppRow /\ app'.published < app'.version
         /\ release' \in [Codes -> Contents \cup {Absent}]
         /\ app'.version = app.version + 1 /\ app'.declared = app.declared
         /\ app'.published = app.published + 1 /\ app'.route = app.route
         /\ disturbed' = FALSE
  <1>1. app' \in AppRow /\ app'.version = app.version + 1
        /\ app'.declared = app.declared /\ app'.published = app.published + 1
        /\ app'.route = app.route
    <2> DEFINE v == app.version + 1
               n == app.published + 1
    <2>1. app \in AppRow /\ v \in Nat /\ n \in Nat
      BY DEF TypeOK, AppRow
    <2>2. app' = [app EXCEPT !.version = v, !.published = n]
      BY <2>1 DEF Publish, NextVersion
    <2> HIDE DEF v, n
    <2>3. app' \in AppRow /\ app'.version = v /\ app'.declared = app.declared
          /\ app'.published = n /\ app'.route = app.route
      BY <2>1, <2>2 DEF AppRow
    <2> QED BY <2>3 DEF v, n
  <1>2. release' \in [Codes -> Contents \cup {Absent}]
    BY DEF TypeOK, Publish, MenuRow
  <1> QED BY <1>1, <1>2 DEF TypeOK, AppRow, Publish

(* What a call writes in the row of a menu.                                *)
LEMMA MenuTypes ==
  ASSUME TypeOK, NEW c \in Codes, NEW content \in Contents, NEW status \in {"active", "", "disabled"}
  PROVE  /\ InsertMenu(c, content) => draft' \in [Codes -> MenuRow]
         /\ UpdateMenu(c, content, status) => draft' \in [Codes -> MenuRow]
  <1> DEFINE new == [version |-> 1, content |-> content, status |-> "active"]
             v == draft[c].version + 1
             old == [version |-> v, content |-> content, status |-> status]
  <1>1. draft \in [Codes -> MenuRow] /\ draft[c].version \in Nat
    BY DEF TypeOK, MenuRow
  <1>2. new \in MenuRow /\ old \in MenuRow
    <2>1. v \in Nat
      BY <1>1, Successor
    <2> HIDE DEF v
    <2> QED BY <2>1 DEF MenuRow
  <1>3. InsertMenu(c, content) => draft' = [draft EXCEPT ![c] = new]
    BY DEF InsertMenu
  <1>4. UpdateMenu(c, content, status) => draft' = [draft EXCEPT ![c] = old]
    BY <1>1 DEF UpdateMenu, NextVersion
  <1> HIDE DEF new, old
  <1> QED BY <1>1, <1>2, <1>3, <1>4

-----------------------------------------------------------------------------
(* Types, step by step.                                                    *)
LEMMA TypeStep ==
  ASSUME TypeOK, RowFirst, run.todo \subseteq DOMAIN manifest.menus, [Next]_vars
  PROVE  TypeOK'
  <1>0. /\ run \in Run /\ app \in AppRow /\ draft \in [Codes -> MenuRow]
        /\ grant \in [Tenants -> GrantRow] /\ manifest \in Manifests
        /\ release \in [Codes -> Contents \cup {Absent}]
        /\ retries \in Nat /\ crashes \in Nat /\ edits \in Nat
        /\ rollouts \in Nat /\ reruns \in Nat /\ settled \in BOOLEAN
        /\ disturbed \in BOOLEAN /\ manifest.route \in Routes \cup {NoRoute}
        /\ app.version \in Nat /\ app.published \in Nat
        /\ app.version > 0 => app.published < app.version
    BY DeclaredMenus DEF TypeOK, AppRow
  <1>i. IdleRun \in Run
    BY IdleFields
  <1>1. CASE Start
    <2>1. run' \in Run
      <3> DEFINE pc == IF Tenants = {} THEN "application" ELSE "grants"
      <3>1. pc \in {"grants", "application"}
        OBVIOUS
      <3>2. run' = [IdleRun EXCEPT !.pc = pc, !.app = app, !.tenants = Tenants, !.settled = settled]
        BY <1>1 DEF Start
      <3> HIDE DEF pc
      <3> QED BY <1>0, <1>i, <3>1, <3>2 DEF Run
    <2> QED BY <1>0, <1>1, <2>1 DEF Start, server, bounds, flags, TypeOK
  <1>2. CASE CreateApplication
    <2>1. app' \in AppRow /\ app'.version = 1 /\ app'.published = 0
      BY <1>0, <1>2, Rows DEF CreateApplication, AppRow
    <2>2. run' \in Run
      BY <1>0, <1>2, <2>1 DEF CreateApplication, Run
    <2> QED BY <1>0, <1>2, <2>1, <2>2 DEF CreateApplication, bounds, flags, TypeOK
  <1>3. CASE UpdateApplication
    <2>1. app' \in AppRow /\ app'.version = app.version + 1 /\ app'.published = app.published
      <3> DEFINE v == app.version + 1
      <3>1. v \in Nat /\ app' = [app EXCEPT !.version = v, !.route = manifest.route, !.declared = TRUE]
        BY <1>0, <1>3 DEF UpdateApplication, NextVersion
      <3> HIDE DEF v
      <3>2. app' \in AppRow /\ app'.version = v /\ app'.published = app.published
        BY <1>0, <3>1 DEF AppRow
      <3> QED BY <3>2 DEF v
    <2>2. run' \in Run
      BY <1>0, <1>3, <2>1 DEF UpdateApplication, Run
    <2>3. app.version > 0
      BY <1>3, <1>0, RunFields DEF UpdateApplication, AcceptsApplication, AppRow
    <2> QED BY <1>0, <1>3, <2>1, <2>2, <2>3 DEF UpdateApplication, bounds, flags, TypeOK
  <1>4. CASE KeepApplication
    <2>1. run' \in Run
      BY <1>0, <1>4 DEF KeepApplication, Run
    <2> QED BY <1>0, <1>4, <2>1 DEF KeepApplication, server, bounds, flags, TypeOK
  <1>5. CASE ListMenus
    <2>1. run' \in Run
      <3> DEFINE listed == [c \in Codes |-> IF Live(c) THEN draft[c] ELSE NoMenu]
                 todo == {c \in DOMAIN manifest.menus : ~ menuEqual(listed[c], manifest.menus[c])}
      <3>1. listed \in [Codes -> MenuRow] /\ todo \in SUBSET Codes
        BY <1>0, Rows, DeclaredMenus
      <3>2. run' = [run EXCEPT !.menus = listed, !.pc = "upsert", !.todo = todo]
        BY <1>5 DEF ListMenus
      <3> HIDE DEF listed, todo
      <3> QED BY <1>0, <3>1, <3>2 DEF Run
    <2> QED BY <1>0, <1>5, <2>1 DEF ListMenus, server, bounds, flags, TypeOK
  <1>6. CASE PublishMenus
    <2>1. run' \in Run
      BY <1>0, <1>6 DEF PublishMenus, Run
    <2>2. app.version > 0
      BY <1>6 DEF PublishMenus, RowFirst
    <2> QED BY <1>0, <1>6, <2>1, <2>2, PublishTypes DEF PublishMenus, bounds, TypeOK
  <1>7. CASE KeepRelease
    <2>1. run' \in Run
      BY <1>0, <1>7 DEF KeepRelease, Run
    <2> QED BY <1>0, <1>7, <2>1 DEF KeepRelease, server, bounds, flags, TypeOK
  <1>8. CASE Succeed
    <2>1. run' \in Run
      BY <1>0, <1>8 DEF Succeed, Run
    <2> QED BY <1>0, <1>8, <2>1, RunFields DEF Succeed, server, bounds, flags, TypeOK
  <1>9. CASE Fail
    BY <1>0, <1>9, <1>i DEF Fail, Stop, server, bounds, flags, TypeOK
  <1>10. ASSUME NEW t \in Tenants, ListGrants(t) PROVE TypeOK'
    <2>1. run' \in Run
      <3> DEFINE g == [run.grants EXCEPT ![t] = grant[t]]
                 pc == IF run.tenants = {t} THEN "application" ELSE "grants"
                 ts == run.tenants \ {t}
      <3>1. g \in [Tenants -> GrantRow] /\ pc \in {"application", "grants"} /\ ts \in SUBSET Tenants
        BY <1>0, RunFields
      <3>2. run' = [run EXCEPT !.grants = g, !.tenants = ts, !.pc = pc]
        BY <1>10 DEF ListGrants
      <3> HIDE DEF g, pc, ts
      <3> QED BY <1>0, <3>1, <3>2 DEF Run
    <2> QED BY <1>0, <1>10, <2>1 DEF ListGrants, server, bounds, flags, TypeOK
  <1>11. ASSUME NEW t \in Tenants, Grant(t) PROVE TypeOK'
    <2>1. run' \in Run
      BY <1>0, <1>11 DEF Grant, Run
    <2>2. grant' \in [Tenants -> GrantRow]
      <3> DEFINE row == [version |-> grant[t].version + 1, active |-> TRUE]
      <3>1. row \in GrantRow /\ grant' = [grant EXCEPT ![t] = row]
        BY <1>0, <1>11 DEF Grant, GrantRow
      <3> HIDE DEF row
      <3> QED BY <1>0, <3>1
    <2> QED BY <1>0, <1>11, <2>1, <2>2 DEF Grant, bounds, flags, TypeOK
  <1>12. ASSUME NEW t \in Tenants, KeepGrant(t) PROVE TypeOK'
    <2>1. run' \in Run
      BY <1>0, <1>12 DEF KeepGrant, Run
    <2> QED BY <1>0, <1>12, <2>1 DEF KeepGrant, server, bounds, flags, TypeOK
  <1>13. ASSUME NEW c \in Codes, UpsertMenu(c) PROVE TypeOK'
    <2>1. run' \in Run
      BY <1>0, <1>13 DEF UpsertMenu, Run
    <2>2. manifest.menus[c] \in Contents
      BY <1>0, <1>13, DeclaredMenus DEF UpsertMenu, NextInOrder
    <2>3. draft' \in [Codes -> MenuRow]
      BY <1>0, <1>13, <2>2, MenuTypes DEF UpsertMenu
    <2> QED BY <1>0, <1>13, <2>1, <2>3 DEF UpsertMenu, bounds, flags, TypeOK
  <1>14. CASE Crash
    <2>1. crashes' \in Nat /\ retries' \in Nat
      BY <1>0, <1>14 DEF Crash, Stop
    <2> QED BY <1>0, <1>14, <1>i, <2>1 DEF Crash, Stop, server, TypeOK
  <1>15. CASE Rerun
    <2>1. reruns' \in Nat
      BY <1>0, <1>15 DEF Rerun
    <2> QED BY <1>0, <1>15, <1>i, <2>1 DEF Rerun, server, flags, TypeOK
  <1>16. CASE RollOut
    <2>1. app' \in AppRow /\ app'.version = app.version /\ app'.published = app.published
      BY <1>0, <1>16 DEF RollOut, AppRow
    <2>2. rollouts' \in Nat /\ retries' \in Nat
      BY <1>0, <1>16 DEF RollOut
    <2> QED BY <1>0, <1>16, <1>i, <2>1, <2>2 DEF RollOut, TypeOK
  <1>17. ASSUME NEW kind, Edited(kind)
         PROVE  /\ run' \in Run /\ edits' \in Nat /\ settled' = FALSE
                /\ UNCHANGED <<manifest, retries, crashes, rollouts, reruns>>
    <2>1. run' \in Run
      BY <1>0, <1>17 DEF Edited, Run
    <2>2. edits' \in Nat
      BY <1>0, <1>17 DEF Edited
    <2> QED BY <1>17, <2>1, <2>2 DEF Edited
  <1>18. ASSUME NEW c \in Codes, NEW content \in Contents,
                NEW status \in {"active", "", "disabled"}, EditMenu(c, content, status)
         PROVE  TypeOK'
    <2>1. draft' \in [Codes -> MenuRow]
      BY <1>0, <1>18, MenuTypes DEF EditMenu
    <2> QED BY <1>0, <1>17, <1>18, <2>1 DEF EditMenu, TypeOK
  <1>19. ASSUME NEW c \in Codes, DeleteMenu(c) PROVE TypeOK'
    <2>1. draft' \in [Codes -> MenuRow]
      <3> DEFINE v == draft[c].version + 1
                 row == [draft[c] EXCEPT !.status = "deleted", !.version = v]
      <3>1. draft[c] \in MenuRow
        BY <1>0
      <3>2. draft[c].version \in Nat
        BY <3>1 DEF MenuRow
      <3>3. draft' = [draft EXCEPT ![c] = row]
        BY <1>19, <1>0 DEF DeleteMenu, NextVersion
      <3>4. v \in Nat
        BY <3>2, Successor
      <3> HIDE DEF v
      <3>5. row \in MenuRow
        BY <3>1, <3>4 DEF MenuRow
      <3> HIDE DEF row
      <3> QED BY <1>0, <3>3, <3>5
    <2> QED BY <1>0, <1>17, <1>19, <2>1 DEF DeleteMenu, TypeOK
  <1>20. ASSUME NEW t \in Tenants, RevokeGrant(t) PROVE TypeOK'
    <2>2. grant' \in [Tenants -> GrantRow]
      <3> DEFINE row == [version |-> grant[t].version + 1, active |-> FALSE]
      <3>1. row \in GrantRow /\ grant' = [grant EXCEPT ![t] = row]
        BY <1>0, <1>20 DEF RevokeGrant, GrantRow
      <3> HIDE DEF row
      <3> QED BY <1>0, <3>1
    <2> QED BY <1>0, <1>17, <1>20, <2>2 DEF RevokeGrant, TypeOK
  <1>21. ASSUME NEW route \in Routes \cup {NoRoute}, EditApplication(route) PROVE TypeOK'
    <2>1. app' \in AppRow /\ app'.version = app.version + 1 /\ app'.published = app.published
      <3> DEFINE v == app.version + 1
      <3>1. v \in Nat /\ app' = [app EXCEPT !.version = v, !.route = route, !.declared = FALSE]
        BY <1>0, <1>21 DEF EditApplication, NextVersion
      <3> HIDE DEF v
      <3>2. app' \in AppRow /\ app'.version = v /\ app'.published = app.published
        BY <1>0, <3>1 DEF AppRow
      <3> QED BY <3>2 DEF v
    <2>2. app'.published < app'.version
      BY <1>0, <1>21, <2>1 DEF EditApplication
    <2> QED BY <1>0, <1>17, <1>21, <2>1, <2>2 DEF EditApplication, TypeOK
  <1>22. CASE PublishByOperator
    <2>1. app.version > 0
      BY <1>22 DEF PublishByOperator
    <2> QED BY <1>0, <1>17, <1>22, <2>1, PublishTypes DEF PublishByOperator, TypeOK
  <1>23. CASE UNCHANGED vars
    BY <1>0, <1>23 DEF vars, server, bounds, flags, TypeOK
  <1> QED BY <1>1, <1>2, <1>3, <1>4, <1>5, <1>6, <1>7, <1>8, <1>9, <1>10, <1>11, <1>12,
             <1>13, <1>14, <1>15, <1>16, <1>18, <1>19, <1>20, <1>21, <1>22, <1>23
          DEF Next, Step, Others

-----------------------------------------------------------------------------
(* The fields of the attempt that a step may change.                       *)
Only(fields) ==
  /\ "pc" \notin fields => run'.pc = run.pc
  /\ "app" \notin fields => run'.app = run.app
  /\ "grants" \notin fields => run'.grants = run.grants
  /\ "menus" \notin fields => run'.menus = run.menus
  /\ "todo" \notin fields => run'.todo = run.todo
  /\ "tenants" \notin fields => run'.tenants = run.tenants
  /\ "changed" \notin fields => run'.changed = run.changed
  /\ "alone" \notin fields => run'.alone = run.alone

LEMMA Moves ==
  ASSUME TypeOK
  PROVE  /\ CreateApplication => run'.app = app' /\ Only({"app"})
         /\ UpdateApplication => run'.app = app' /\ run'.pc = "menus" /\ Only({"app", "pc"})
         /\ KeepApplication => run'.pc = "menus" /\ Only({"pc"})
         /\ PublishMenus \/ KeepRelease =>
              run'.pc = "grant" /\ run'.tenants = Tenants /\ Only({"pc", "tenants"})
         /\ Succeed => run'.pc = "done" /\ Only({"pc"})
         /\ \A t \in Tenants :
              Grant(t) \/ KeepGrant(t) =>
                run'.tenants = run.tenants \ {t} /\ Only({"tenants"})
         /\ \A c \in Codes :
              UpsertMenu(c) =>
                /\ run'.todo = run.todo \ {c} /\ run'.changed
                /\ Only({"todo", "changed"})
         /\ \A kind : Edited(kind) => ~ run'.alone /\ Only({"alone"})
  <1>0. run \in Run
    BY DEF TypeOK
  <1>1. CreateApplication => run'.app = app' /\ Only({"app"})
    BY <1>0 DEF CreateApplication, Only, Run
  <1>2. UpdateApplication => run'.app = app' /\ run'.pc = "menus" /\ Only({"app", "pc"})
    BY <1>0 DEF UpdateApplication, Only, Run
  <1>3. KeepApplication => run'.pc = "menus" /\ Only({"pc"})
    BY <1>0 DEF KeepApplication, Only, Run
  <1>4. PublishMenus \/ KeepRelease =>
          run'.pc = "grant" /\ run'.tenants = Tenants /\ Only({"pc", "tenants"})
    BY <1>0 DEF PublishMenus, KeepRelease, Only, Run
  <1>5. Succeed => run'.pc = "done" /\ Only({"pc"})
    BY <1>0 DEF Succeed, Only, Run
  <1>6. ASSUME NEW t \in Tenants, Grant(t) \/ KeepGrant(t)
        PROVE  run'.tenants = run.tenants \ {t} /\ Only({"tenants"})
    BY <1>0, <1>6 DEF Grant, KeepGrant, Only, Run
  <1>7. ASSUME NEW c \in Codes, UpsertMenu(c)
        PROVE  run'.todo = run.todo \ {c} /\ run'.changed /\ Only({"todo", "changed"})
    BY <1>0, <1>7 DEF UpsertMenu, Only, Run
  <1>8. ASSUME NEW kind, Edited(kind)
        PROVE  ~ run'.alone /\ Only({"alone"})
    BY <1>0, <1>8 DEF Edited, Only, Run
  <1> QED BY <1>1, <1>2, <1>3, <1>4, <1>5, <1>6, <1>7, <1>8

LEMMA StartMoves ==
  ASSUME TypeOK, Start
  PROVE  /\ run'.pc = IF Tenants = {} THEN "application" ELSE "grants"
         /\ run'.app = app /\ run'.tenants = Tenants /\ run'.todo = {}
         /\ run'.alone /\ ~ run'.changed
  <1> DEFINE pc == IF Tenants = {} THEN "application" ELSE "grants"
  <1>1. run' = [IdleRun EXCEPT !.pc = pc, !.app = app, !.tenants = Tenants, !.settled = settled]
    BY DEF Start
  <1> HIDE DEF pc
  <1>2. /\ run'.pc = pc /\ run'.app = app /\ run'.tenants = Tenants /\ run'.todo = {}
        /\ run'.alone /\ ~ run'.changed
    BY <1>1, IdleFields DEF Run
  <1> QED BY <1>2 DEF pc

LEMMA ListGrantsMoves ==
  ASSUME TypeOK, NEW t \in Tenants, ListGrants(t)
  PROVE  /\ run'.pc = IF run.tenants = {t} THEN "application" ELSE "grants"
         /\ run'.tenants = run.tenants \ {t}
         /\ run'.grants = [run.grants EXCEPT ![t] = grant[t]]
         /\ Only({"pc", "tenants", "grants"})
  <1> DEFINE pc == IF run.tenants = {t} THEN "application" ELSE "grants"
             ts == run.tenants \ {t}
             g == [run.grants EXCEPT ![t] = grant[t]]
  <1>1. run' = [run EXCEPT !.grants = g, !.tenants = ts, !.pc = pc]
    BY DEF ListGrants
  <1> HIDE DEF pc, ts, g
  <1>2. run \in Run
    BY DEF TypeOK
  <1>3. /\ run'.pc = pc /\ run'.tenants = ts /\ run'.grants = g
        /\ Only({"pc", "tenants", "grants"})
    BY <1>1, <1>2 DEF Run, Only
  <1> QED BY <1>3 DEF pc, ts, g

LEMMA ListMenusMoves ==
  ASSUME TypeOK, ListMenus
  PROVE  /\ run'.pc = "upsert" /\ Only({"pc", "menus", "todo"})
         /\ run'.menus = [c \in Codes |-> IF Live(c) THEN draft[c] ELSE NoMenu]
         /\ run'.todo = {c \in DOMAIN manifest.menus : ~ menuEqual(run'.menus[c], manifest.menus[c])}
  <1> DEFINE listed == [c \in Codes |-> IF Live(c) THEN draft[c] ELSE NoMenu]
             todo == {c \in DOMAIN manifest.menus : ~ menuEqual(listed[c], manifest.menus[c])}
  <1>1. run' = [run EXCEPT !.menus = listed, !.pc = "upsert", !.todo = todo]
    BY DEF ListMenus
  <1> HIDE DEF listed, todo
  <1>2. run \in Run
    BY DEF TypeOK
  <1>3. run'.pc = "upsert" /\ run'.menus = listed /\ run'.todo = todo
    BY <1>1, <1>2 DEF Run
  <1>4. Only({"pc", "menus", "todo"})
    BY <1>1, <1>2 DEF Run, Only
  <1> QED BY <1>3, <1>4 DEF listed, todo

-----------------------------------------------------------------------------
(* What each call does to the row of the application.                      *)
LEMMA AppMoves ==
  ASSUME TypeOK
  PROVE  /\ CreateApplication =>
              /\ app'.version = 1 /\ app'.published = 0 /\ ~ app'.declared
              /\ app.version = 0
         /\ UpdateApplication =>
              /\ app'.version = app.version + 1 /\ applicationEqual(app)'
              /\ app'.published = app.published /\ app.version > 0
         /\ \A route \in Routes \cup {NoRoute} :
              EditApplication(route) =>
                /\ app'.version = app.version + 1 /\ ~ app'.declared
                /\ app'.published = app.published /\ app.version > 0
         /\ RollOut =>
              app'.version = app.version /\ app'.published = app.published
  <1>0. app \in AppRow /\ run.app \in AppRow
    BY RunFields DEF TypeOK
  <1> DEFINE v == app.version + 1
  <1>1. CreateApplication =>
          app'.version = 1 /\ app'.published = 0 /\ ~ app'.declared /\ app.version = 0
    BY Rows DEF CreateApplication, AcceptsCreate, AcceptsApplication, NoApp
  <1>2. UpdateApplication =>
          /\ app' = [app EXCEPT !.version = v, !.route = manifest.route, !.declared = TRUE]
          /\ app.version > 0 /\ manifest' = manifest
    BY DEF UpdateApplication, AcceptsApplication, NextVersion
  <1>3. ASSUME NEW route, EditApplication(route)
        PROVE  /\ app' = [app EXCEPT !.version = v, !.route = route, !.declared = FALSE]
               /\ app.version > 0
    BY <1>3 DEF EditApplication, NextVersion
  <1>4. RollOut => app'.version = app.version /\ app'.published = app.published
    BY <1>0 DEF RollOut, AppRow
  <1> HIDE DEF v
  <1>5. UpdateApplication =>
          /\ app'.version = v /\ applicationEqual(app)'
          /\ app'.published = app.published /\ app.version > 0
    BY <1>0, <1>2 DEF AppRow, applicationEqual
  <1>6. ASSUME NEW route, EditApplication(route)
        PROVE  /\ app'.version = v /\ ~ app'.declared
               /\ app'.published = app.published /\ app.version > 0
    BY <1>0, <1>3, <1>6 DEF AppRow
  <1> QED BY <1>1, <1>4, <1>5, <1>6 DEF v

LEMMA RowInit == Init => RowFirst /\ run.todo \subseteq DOMAIN manifest.menus
  BY Rows, IdleFields DEF Init, RowFirst, NoMenu

LEMMA RowStep ==
  ASSUME TypeOK, RowFirst, run.todo \subseteq DOMAIN manifest.menus, [Next]_vars
  PROVE  RowFirst' /\ run'.todo \subseteq DOMAIN manifest'.menus
  <1>0. /\ app.version \in Nat /\ run.app.version \in Nat
        /\ app.published \in Nat /\ run.app.published \in Nat
        /\ run.app.declared \in BOOLEAN /\ app.declared \in BOOLEAN
        /\ \A c \in Codes : draft[c].version \in Nat
    BY RunFields DEF TypeOK, AppRow, MenuRow
  <1> USE DEF RowFirst
  <1>i. ASSUME run' = IdleRun, app'.version = app.version, app'.published = app.published,
               app'.declared => app.declared, draft' = draft
        PROVE  RowFirst' /\ run'.todo \subseteq DOMAIN manifest'.menus
    <2>1. run'.pc = "idle" /\ run'.app = NoApp /\ run'.todo = {}
      BY <1>i, IdleFields
    <2> QED BY <1>0, <1>i, <2>1, Rows
  <1>1. CASE Start
    <2>1. app' = app /\ draft' = draft /\ manifest' = manifest
      BY <1>1 DEF Start, server
    <2> QED BY <1>0, <1>1, <2>1, StartMoves
  <1>2. CASE CreateApplication
    <2>1. draft' = draft /\ manifest' = manifest /\ run.pc = "application"
      BY <1>2 DEF CreateApplication
    <2> QED BY <1>0, <1>2, <2>1, Moves, AppMoves DEF Only
  <1>3. CASE UpdateApplication
    <2>1. draft' = draft /\ manifest' = manifest
      BY <1>3 DEF UpdateApplication
    <2>2. run'.app = app' /\ run'.pc = "menus" /\ run'.todo = run.todo
      BY <1>3, Moves DEF Only
    <2>3. app'.version = app.version + 1 /\ app' \in AppRow
      BY <1>3, AppMoves, TypeStep DEF TypeOK
    <2> QED BY <1>0, <2>1, <2>2, <2>3 DEF AppRow
  <1>4. CASE KeepApplication
    <2>1. draft' = draft /\ manifest' = manifest /\ app' = app /\ run.app.version > 0
      BY <1>4 DEF KeepApplication, server
    <2> QED BY <1>0, <1>4, <2>1, Moves DEF Only
  <1>5. CASE ListMenus
    <2>1. draft' = draft /\ manifest' = manifest /\ app' = app /\ run.pc = "menus"
      BY <1>5 DEF ListMenus, server
    <2> QED BY <1>0, <1>5, <2>1, ListMenusMoves DEF Only
  <1>6. CASE PublishMenus \/ KeepRelease
    <2>1. draft' = draft /\ manifest' = manifest /\ run.pc = "upsert"
      BY <1>6 DEF PublishMenus, KeepRelease, server
    <2>2. /\ app'.version = app.version + 1 \/ app' = app
          /\ app'.declared = app.declared
          /\ app'.published = app.published + 1 \/ app' = app
      BY <1>6, <2>1, PublishTypes DEF PublishMenus, KeepRelease, server
    <2>3. run'.pc = "grant" /\ run'.app = run.app /\ run'.todo = run.todo
      BY <1>6, Moves DEF Only
    <2> QED BY <1>0, <2>1, <2>2, <2>3
  <1>8. CASE Succeed
    <2>1. draft' = draft /\ manifest' = manifest /\ app' = app /\ run.pc = "grant"
      BY <1>8 DEF Succeed, server
    <2> QED BY <1>0, <1>8, <2>1, Moves DEF Only
  <1>9. CASE Fail \/ Crash \/ Rerun
    BY <1>9, <1>i DEF Fail, Crash, Stop, Rerun, server
  <1>10. ASSUME NEW t \in Tenants, ListGrants(t)
         PROVE  RowFirst' /\ run'.todo \subseteq DOMAIN manifest'.menus
    <2>1. draft' = draft /\ manifest' = manifest /\ app' = app
      BY <1>10 DEF ListGrants, server
    <2> QED BY <1>0, <1>10, <2>1, ListGrantsMoves DEF Only
  <1>11. ASSUME NEW t \in Tenants, Grant(t) \/ KeepGrant(t)
         PROVE  RowFirst' /\ run'.todo \subseteq DOMAIN manifest'.menus
    <2>1. draft' = draft /\ manifest' = manifest /\ app' = app
      BY <1>11 DEF Grant, KeepGrant, server
    <2> QED BY <1>0, <1>11, <2>1, Moves DEF Only
  <1>13. ASSUME NEW c \in Codes, UpsertMenu(c)
         PROVE  RowFirst' /\ run'.todo \subseteq DOMAIN manifest'.menus
    <2>1. manifest' = manifest /\ app' = app /\ run.pc = "upsert"
      BY <1>13 DEF UpsertMenu
    <2> QED BY <1>0, <1>13, <2>1, Moves DEF Only
  <1>16. CASE RollOut
    <2>1. app'.version = app.version /\ app'.published = app.published
      BY <1>16, AppMoves
    <2>2. app'.declared => app.declared
      BY <1>16 DEF RollOut, TypeOK, AppRow
    <2> QED BY <1>16, <1>i, <2>1, <2>2 DEF RollOut
  <1>17. ASSUME NEW kind, Edited(kind), app' = app \/ app'.version > app.version,
                app' = app \/ app'.published \in {app.published, app.published + 1},
                app'.declared => app.declared,
                draft' = draft \/ app.version > 0
         PROVE  RowFirst' /\ run'.todo \subseteq DOMAIN manifest'.menus
    <2>1. manifest' = manifest
      BY <1>17 DEF Edited
    <2>2. run'.pc = run.pc /\ run'.app = run.app /\ run'.todo = run.todo
      BY <1>17, Moves DEF Only
    <2>3. CASE app' = app
      BY <1>0, <1>17, <2>1, <2>2, <2>3
    <2>4. CASE app'.version > app.version
      <3>1. app'.version \in Nat
        BY TypeStep DEF TypeOK, AppRow
      <3> QED BY <1>0, <1>17, <2>1, <2>2, <2>4, <3>1
    <2> QED BY <1>17, <2>3, <2>4
  <1>18. ASSUME NEW c \in Codes, NEW content \in Contents,
                NEW status \in {"active", "", "disabled"}, EditMenu(c, content, status)
         PROVE  RowFirst' /\ run'.todo \subseteq DOMAIN manifest'.menus
    BY <1>17, <1>18 DEF EditMenu
  <1>19. ASSUME NEW c \in Codes, DeleteMenu(c)
         PROVE  RowFirst' /\ run'.todo \subseteq DOMAIN manifest'.menus
    BY <1>17, <1>19 DEF DeleteMenu, Live
  <1>20. ASSUME NEW t \in Tenants, RevokeGrant(t)
         PROVE  RowFirst' /\ run'.todo \subseteq DOMAIN manifest'.menus
    BY <1>17, <1>20 DEF RevokeGrant
  <1>21. ASSUME NEW route \in Routes \cup {NoRoute}, EditApplication(route)
         PROVE  RowFirst' /\ run'.todo \subseteq DOMAIN manifest'.menus
    <2>1. app'.version > app.version /\ ~ app'.declared /\ app'.published = app.published
      BY <1>0, <1>21, AppMoves
    <2> QED BY <1>17, <1>21, <2>1 DEF EditApplication
  <1>22. CASE PublishByOperator
    <2>1. app.version > 0
      BY <1>22 DEF PublishByOperator
    <2>2. /\ app'.version > app.version /\ app'.declared = app.declared
          /\ app'.published = app.published + 1
      <3>1. Publish
        BY <1>22 DEF PublishByOperator
      <3>2. /\ app'.version = app.version + 1 /\ app'.declared = app.declared
            /\ app'.published = app.published + 1
        BY <2>1, <3>1, PublishTypes
      <3> QED BY <1>0, <3>2
    <2> QED BY <1>17, <1>22, <2>2 DEF PublishByOperator
  <1>23. CASE UNCHANGED vars
    BY <1>23 DEF vars, server, bounds
  <1> QED BY <1>1, <1>2, <1>3, <1>4, <1>5, <1>6, <1>8, <1>9, <1>10, <1>11,
             <1>13, <1>16, <1>18, <1>19, <1>20, <1>21, <1>22, <1>23
          DEF Next, Step, Others

-----------------------------------------------------------------------------
(* As long as nobody else writes, the lists stay true and every call does  *)
(* its part.                                                               *)
LEMMA AloneInit == Init => Alone
  BY IdleFields DEF Init, Alone, ApplicationKnown, GrantsKnown, MenusKnown, Listing

(* An upserted menu is live and as declared, and the others are untouched. *)
LEMMA Upserted ==
  ASSUME TypeOK, NEW c \in Codes, UpsertMenu(c)
  PROVE  (\A d \in Codes \ {c} : draft'[d] = draft[d]) /\ Declares(c)'
  <1> DEFINE new == [version |-> 1, content |-> manifest.menus[c], status |-> "active"]
             v == draft[c].version + 1
             old == [version |-> v, content |-> manifest.menus[c], status |-> ""]
  <1>0. draft \in [Codes -> MenuRow] /\ draft[c].version \in Nat /\ manifest' = manifest
    BY DEF TypeOK, MenuRow, UpsertMenu
  <1>1. \/ draft' = [draft EXCEPT ![c] = new]
        \/ draft' = [draft EXCEPT ![c] = old]
    BY <1>0 DEF UpsertMenu, InsertMenu, UpdateMenu, NextVersion
  <1>2. v \in Nat /\ v > 0
    BY <1>0, Successor, Positive
  <1> HIDE DEF v
  <1>3. /\ new.version = 1 /\ new.content = manifest.menus[c] /\ new.status = "active"
        /\ old.version = v /\ old.content = manifest.menus[c] /\ old.status = ""
    OBVIOUS
  <1> HIDE DEF new, old
  <1>4. draft'[c] = new \/ draft'[c] = old
    BY <1>0, <1>1
  <1>5. \A d \in Codes \ {c} : draft'[d] = draft[d]
    BY <1>0, <1>1
  <1>6. /\ draft'[c].version > 0 /\ draft'[c].content = manifest.menus[c]
        /\ draft'[c].status \in {"active", ""}
    <2>1. CASE draft'[c] = new
      BY <1>3, <2>1, Positive
    <2>2. CASE draft'[c] = old
      BY <1>2, <1>3, <2>2
    <2> QED BY <1>4, <2>1, <2>2
  <1> QED BY <1>0, <1>5, <1>6 DEF Declares, Live

LEMMA AloneStep ==
  ASSUME BootstrapInv, [Next]_vars
  PROVE  Alone'
  <1>0. /\ TypeOK /\ RowFirst /\ run.todo \subseteq DOMAIN manifest.menus /\ Alone
        /\ run.grants \in [Tenants -> GrantRow] /\ grant \in [Tenants -> GrantRow]
        /\ run.tenants \in SUBSET Tenants /\ run.todo \in SUBSET Codes
        /\ DOMAIN manifest.menus \subseteq Codes
    BY RunFields, DeclaredMenus DEF BootstrapInv, TypeOK
  <1>d. ASSUME draft' = draft, manifest' = manifest
        PROVE  \A c \in Codes : (Live(c) <=> Live(c)') /\ (Declares(c) <=> Declares(c)')
    BY <1>d DEF Live, Declares
  <1>i. ASSUME run' = IdleRun PROVE Alone'
    <2>1. run'.pc = "idle"
      BY <1>i, IdleFields
    <2> QED BY <2>1 DEF Alone, ApplicationKnown, GrantsKnown, MenusKnown, Listing
  <1>e. ASSUME NEW kind, Edited(kind) PROVE Alone'
    BY <1>0, <1>e, Moves DEF Alone
  <1>1. CASE Start
    <2>1. UNCHANGED <<manifest, server>>
      BY <1>1 DEF Start
    <2>2. ApplicationKnown'
      BY <1>0, <1>1, <2>1, StartMoves DEF ApplicationKnown, server
    <2>3. GrantsKnown'
      BY <1>0, <1>1, <2>1, StartMoves DEF GrantsKnown
    <2>4. MenusKnown'
      BY <1>0, <1>1, <2>1, StartMoves DEF MenusKnown
    <2> QED BY <2>2, <2>3, <2>4 DEF Alone
  <1>2. CASE CreateApplication
    <2>1. run.pc = "application" /\ UNCHANGED <<manifest, draft, release, grant>>
      BY <1>2 DEF CreateApplication
    <2>2. run'.app = app' /\ Only({"app"})
      BY <1>0, <1>2, Moves
    <2>3. ApplicationKnown'
      BY <2>1, <2>2 DEF ApplicationKnown, Only
    <2>4. run.alone => GrantsKnown'
      BY <1>0, <2>1, <2>2 DEF GrantsKnown, Only, Alone
    <2>5. MenusKnown'
      BY <2>1, <2>2 DEF MenusKnown, Only
    <2> QED BY <2>2, <2>3, <2>4, <2>5 DEF Alone, Only
  <1>3. CASE UpdateApplication
    <2>1. run.pc = "application" /\ UNCHANGED <<manifest, draft, release, grant>>
      BY <1>3 DEF UpdateApplication
    <2>2. run'.app = app' /\ run'.pc = "menus" /\ Only({"app", "pc"})
      BY <1>0, <1>3, Moves
    <2>3. ApplicationKnown'
      BY <1>0, <1>3, <2>1, <2>2, AppMoves DEF ApplicationKnown, Only, applicationEqual
    <2>4. run.alone => GrantsKnown'
      BY <1>0, <2>1, <2>2 DEF GrantsKnown, Only, Alone
    <2>5. MenusKnown'
      BY <2>1, <2>2 DEF MenusKnown, Only
    <2> QED BY <2>2, <2>3, <2>4, <2>5 DEF Alone, Only
  <1>4. CASE KeepApplication
    <2>1. run.pc = "application" /\ applicationEqual(run.app) /\ UNCHANGED <<manifest, server>>
      BY <1>4 DEF KeepApplication
    <2>2. run'.pc = "menus" /\ Only({"pc"})
      BY <1>0, <1>4, Moves
    <2>3. run.alone => ApplicationKnown'
      BY <1>0, <2>1, <2>2 DEF ApplicationKnown, applicationEqual, Only, Alone, Listing, server
    <2>4. run.alone => GrantsKnown'
      BY <1>0, <2>1, <2>2 DEF GrantsKnown, Only, Alone, server
    <2>5. MenusKnown'
      BY <2>1, <2>2 DEF MenusKnown, Only
    <2> QED BY <2>2, <2>3, <2>4, <2>5 DEF Alone, Only
  <1>5. CASE ListMenus
    <2>1. run.pc = "menus" /\ UNCHANGED <<manifest, server>>
      BY <1>5 DEF ListMenus
    <2>2. run'.pc = "upsert" /\ Only({"pc", "menus", "todo"})
      BY <1>0, <1>5, ListMenusMoves
    <2>3. run.alone => ApplicationKnown'
      BY <1>0, <2>1, <2>2 DEF ApplicationKnown, applicationEqual, Only, Alone, Listing, server
    <2>4. run.alone => GrantsKnown'
      BY <1>0, <2>1, <2>2 DEF GrantsKnown, Only, Alone, server
    <2>5. MenusKnown'
      <3>1. \A c \in Codes : run'.menus[c] = IF Live(c) THEN draft[c] ELSE NoMenu
        BY <1>0, <1>5, ListMenusMoves
      <3>2. \A c \in DOMAIN manifest.menus \ run'.todo : menuEqual(run'.menus[c], manifest.menus[c])
        BY <1>0, <1>5, ListMenusMoves
      <3>3. \A c \in DOMAIN manifest.menus \ run'.todo : Declares(c)
        <4> SUFFICES ASSUME NEW c \in DOMAIN manifest.menus \ run'.todo PROVE Declares(c)
          OBVIOUS
        <4>1. menuEqual(run'.menus[c], manifest.menus[c]) /\ c \in Codes
          BY <1>0, <3>2
        <4>2. CASE Live(c)
          <5>1. run'.menus[c] = draft[c]
            BY <3>1, <4>1, <4>2
          <5> QED BY <4>1, <4>2, <5>1 DEF menuEqual, Declares
        <4>3. CASE ~ Live(c)
          <5>1. run'.menus[c] = NoMenu
            BY <3>1, <4>1, <4>3
          <5> QED BY <4>1, <5>1 DEF menuEqual, NoMenu
        <4> QED BY <4>2, <4>3
      <3>4. run'.todo \subseteq Codes
        BY <1>0, <1>5, ListMenusMoves
      <3>5. draft' = draft /\ manifest' = manifest
        BY <2>1 DEF server
      <3>6. \A c \in run'.todo : run'.menus[c] = (IF Live(c) THEN draft[c] ELSE NoMenu)'
        BY <3>1, <3>4, <3>5, <1>d
      <3>7. \A c \in DOMAIN manifest'.menus \ run'.todo : Declares(c)'
        BY <1>0, <3>3, <3>5, <1>d
      <3> QED BY <2>2, <3>6, <3>7 DEF MenusKnown
    <2> QED BY <2>2, <2>3, <2>4, <2>5 DEF Alone, Only
  <1>6. CASE PublishMenus \/ KeepRelease
    <2>1. /\ run.pc = "upsert" /\ run.todo = {}
          /\ UNCHANGED <<manifest, draft, grant>>
      BY <1>6 DEF PublishMenus, KeepRelease, server
    <2>2. run'.pc = "grant" /\ run'.tenants = Tenants /\ Only({"pc", "tenants"})
      BY <1>0, <1>6, Moves
    <2>3. /\ app'.declared = app.declared /\ app'.route = app.route
          /\ run.alone => app'.published > 0
      <3>1. CASE PublishMenus
        <4>1. app.version > 0 /\ Publish
          BY <1>0, <2>1, <3>1 DEF RowFirst, PublishMenus
        <4>2. /\ app'.declared = app.declared /\ app'.route = app.route
              /\ app'.published = app.published + 1
          BY <1>0, <4>1, PublishTypes
        <4>3. app.published \in Nat
          BY <1>0 DEF TypeOK, AppRow
        <4> QED BY <4>2, <4>3
      <3>2. CASE KeepRelease
        BY <1>0, <3>2 DEF KeepRelease, NeedsPublish, Alone, ApplicationKnown, Listing,
                         server, TypeOK, AppRow
      <3> QED BY <1>6, <3>1, <3>2
    <2>4. run.alone => ApplicationKnown'
      BY <1>0, <2>1, <2>2, <2>3 DEF ApplicationKnown, applicationEqual, Only, Alone, Listing
    <2>5. run.alone => GrantsKnown'
      BY <1>0, <2>1, <2>2 DEF GrantsKnown, Only, Alone
    <2>6. run.alone => MenusKnown'
      BY <1>0, <1>d, <2>1, <2>2, <2>3 DEF MenusKnown, Only, Alone
    <2> QED BY <2>2, <2>4, <2>5, <2>6 DEF Alone, Only
  <1>8. CASE Succeed
    <2>1. run.pc = "grant" /\ run.tenants = {} /\ UNCHANGED <<manifest, server>>
      BY <1>8 DEF Succeed
    <2>2. run'.pc = "done" /\ Only({"pc"})
      BY <1>0, <1>8, Moves
    <2>3. run.alone => ApplicationKnown'
      BY <1>0, <2>1, <2>2 DEF ApplicationKnown, applicationEqual, Only, Alone, Listing, server
    <2>4. run.alone => GrantsKnown'
      BY <1>0, <2>1, <2>2 DEF GrantsKnown, Only, Alone, server
    <2>5. run.alone => MenusKnown'
      BY <1>0, <1>d, <2>1, <2>2 DEF MenusKnown, Only, Alone, server
    <2> QED BY <2>2, <2>3, <2>4, <2>5 DEF Alone, Only
  <1>9. CASE Fail \/ Crash \/ Rerun \/ RollOut
    BY <1>9, <1>i DEF Fail, Crash, Stop, Rerun, RollOut
  <1>10. ASSUME NEW t \in Tenants, ListGrants(t) PROVE Alone'
    <2>1. run.pc = "grants" /\ t \in run.tenants /\ UNCHANGED <<manifest, server>>
      BY <1>10 DEF ListGrants
    <2>2. /\ run'.pc = IF run.tenants = {t} THEN "application" ELSE "grants"
          /\ run'.tenants = run.tenants \ {t}
          /\ run'.grants = [run.grants EXCEPT ![t] = grant[t]]
          /\ Only({"pc", "tenants", "grants"})
      BY <1>0, <1>10, ListGrantsMoves
    <2>3. run.alone => ApplicationKnown'
      BY <1>0, <2>1, <2>2 DEF ApplicationKnown, applicationEqual, Only, Alone, Listing, server
    <2>4. run.alone => GrantsKnown'
      <3>1. SUFFICES ASSUME run.alone PROVE GrantsKnown'
        OBVIOUS
      <3>2. GrantsKnown /\ grant' = grant
        BY <1>0, <2>1, <3>1 DEF Alone, server
      <3>3. \A u \in Tenants : u \notin run'.tenants => run'.grants[u] = grant[u]
        <4>1. ASSUME NEW u \in Tenants, u \notin run'.tenants PROVE run'.grants[u] = grant[u]
          <5>1. CASE u = t
            BY <1>0, <2>2, <5>1
          <5>2. CASE u # t
            <6>1. run.grants[u] = grant[u]
              BY <2>1, <2>2, <3>2, <4>1, <5>2 DEF GrantsKnown
            <6> QED BY <1>0, <2>2, <5>2, <6>1
          <5> QED BY <5>1, <5>2
        <4> QED BY <4>1
      <3>4. \/ run'.pc = "application" /\ run'.tenants = {}
            \/ run'.pc = "grants"
        BY <2>2
      <3> QED BY <3>2, <3>3, <3>4 DEF GrantsKnown
    <2>5. MenusKnown'
      BY <2>2 DEF MenusKnown
    <2> QED BY <2>2, <2>3, <2>4, <2>5 DEF Alone, Only
  <1>11. ASSUME NEW t \in Tenants, Grant(t) \/ KeepGrant(t) PROVE Alone'
    <2>1. run.pc = "grant" /\ t \in run.tenants /\ UNCHANGED <<manifest, app, draft>>
      BY <1>11 DEF Grant, KeepGrant, server
    <2>2. run'.tenants = run.tenants \ {t} /\ Only({"tenants"})
      BY <1>0, <1>11, Moves
    <2>3. run.alone => ApplicationKnown'
      BY <1>0, <2>1, <2>2 DEF ApplicationKnown, applicationEqual, Only, Alone, Listing
    <2>4. /\ \A u \in Tenants \ {t} : grant'[u] = grant[u]
          /\ run.alone => grant'[t].active
      <3>1. CASE Grant(t)
        BY <1>0, <3>1 DEF Grant
      <3>2. CASE KeepGrant(t)
        BY <1>0, <2>1, <3>2 DEF KeepGrant, Alone, GrantsKnown, server
      <3> QED BY <1>11, <3>1, <3>2
    <2>5. run.alone => GrantsKnown'
      BY <1>0, <2>1, <2>2, <2>4 DEF GrantsKnown, Only, Alone
    <2>6. run.alone => MenusKnown'
      BY <1>0, <1>d, <2>1, <2>2 DEF MenusKnown, Only, Alone
    <2> QED BY <2>2, <2>3, <2>5, <2>6 DEF Alone, Only
  <1>13. ASSUME NEW c \in Codes, UpsertMenu(c) PROVE Alone'
    <2>1. /\ run.pc = "upsert" /\ c \in run.todo
          /\ UNCHANGED <<manifest, app, release, grant>>
      BY <1>13 DEF UpsertMenu, NextInOrder
    <2>2. run'.todo = run.todo \ {c} /\ Only({"todo", "changed"})
      BY <1>0, <1>13, Moves
    <2>3. run.alone => ApplicationKnown'
      BY <1>0, <2>1, <2>2 DEF ApplicationKnown, applicationEqual, Only, Alone, Listing
    <2>4. run.alone => GrantsKnown'
      BY <1>0, <2>1, <2>2 DEF GrantsKnown, Only, Alone
    <2>5. (\A d \in Codes \ {c} : draft'[d] = draft[d]) /\ Declares(c)'
      BY <1>0, <1>13, <2>1, Upserted DEF UpsertMenu
    <2>6. \A d \in Codes \ {c} : (Live(d)' <=> Live(d)) /\ (Declares(d)' <=> Declares(d))
      BY <2>1, <2>5 DEF Live, Declares
    <2>7. run.alone => MenusKnown'
      <3>1. SUFFICES ASSUME run.alone PROVE MenusKnown'
        OBVIOUS
      <3>2. MenusKnown /\ run'.pc = "upsert" /\ run'.menus = run.menus
        BY <1>0, <2>1, <2>2, <3>1 DEF Alone, Only
      <3>3. \A d \in run'.todo : run'.menus[d] = (IF Live(d) THEN draft[d] ELSE NoMenu)'
        BY <1>0, <2>1, <2>2, <2>5, <2>6, <3>2 DEF MenusKnown
      <3>4. \A d \in DOMAIN manifest'.menus \ run'.todo : Declares(d)'
        BY <1>0, <2>1, <2>2, <2>5, <2>6, <3>2 DEF MenusKnown
      <3> QED BY <3>2, <3>3, <3>4 DEF MenusKnown
    <2> QED BY <2>2, <2>3, <2>4, <2>7 DEF Alone, Only
  <1>18. CASE Others
    BY <1>e, <1>18 DEF Others, EditMenu, DeleteMenu, RevokeGrant, EditApplication,
                       PublishByOperator
  <1>23. CASE UNCHANGED vars
    <2>1. UNCHANGED <<manifest, app, draft, grant, run>>
      BY <1>23 DEF vars, server
    <2> QED BY <1>0, <1>d, <2>1
            DEF Alone, ApplicationKnown, applicationEqual, GrantsKnown, MenusKnown, Listing
  <1> QED BY <1>1, <1>2, <1>3, <1>4, <1>5, <1>6, <1>8, <1>9, <1>10, <1>11,
             <1>13, <1>18, <1>23
          DEF Next, Step

-----------------------------------------------------------------------------
(* A menu is written under a live parent and deleted without children, so  *)
(* the draft stays a tree.                                                 *)
LEMMA TreeStep ==
  ASSUME TypeOK, DraftIsTree, [Next]_vars
  PROVE  DraftIsTree'
  <1>0. draft \in [Codes -> MenuRow] /\ \A c \in Codes : draft[c].version \in Nat
    BY DEF TypeOK, MenuRow
  <1>k. ASSUME draft' = draft PROVE DraftIsTree'
    <2>1. \A c \in Codes : Live(c)' <=> Live(c)
      BY <1>k DEF Live
    <2> QED BY <2>1 DEF DraftIsTree
  <1>w. ASSUME NEW c \in Codes, ParentAccepted(c), NEW row, draft' = [draft EXCEPT ![c] = row],
               row.version > 0, row.status # "deleted"
        PROVE  DraftIsTree'
    <2>1. Live(c)' /\ \A d \in Codes : Live(d) => Live(d)'
      BY <1>0, <1>w DEF Live
    <2>2. \A d \in Codes \ {c} : Live(d)' => Live(d)
      BY <1>0, <1>w DEF Live
    <2> QED BY <1>w, <2>1, <2>2 DEF DraftIsTree, ParentAccepted
  <1>1. ASSUME NEW c \in Codes, NEW content, NEW status \in {"active", "", "disabled"},
               ParentAccepted(c), InsertMenu(c, content) \/ UpdateMenu(c, content, status)
        PROVE  DraftIsTree'
    <2> DEFINE v == draft[c].version + 1
               new == [version |-> 1, content |-> content, status |-> "active"]
               old == [version |-> v, content |-> content, status |-> status]
    <2>1. v > 0
      BY <1>0, Positive
    <2>2. draft' = [draft EXCEPT ![c] = new] \/ draft' = [draft EXCEPT ![c] = old]
      BY <1>0, <1>1 DEF InsertMenu, UpdateMenu, NextVersion
    <2> HIDE DEF v
    <2>3. /\ new.version = 1 /\ new.status = "active"
          /\ old.version = v /\ old.status # "deleted"
      OBVIOUS
    <2> HIDE DEF new, old
    <2>4. CASE draft' = [draft EXCEPT ![c] = new]
      <3>1. new.version > 0 /\ new.status # "deleted"
        BY <2>3, Positive
      <3> QED BY <1>1, <1>w, <2>4, <3>1
    <2>5. CASE draft' = [draft EXCEPT ![c] = old]
      <3>1. old.version > 0 /\ old.status # "deleted"
        BY <2>1, <2>3
      <3> QED BY <1>1, <1>w, <2>5, <3>1
    <2> QED BY <2>2, <2>4, <2>5
  <1>2. ASSUME NEW c \in Codes, UpsertMenu(c) PROVE DraftIsTree'
    BY <1>1, <1>2 DEF UpsertMenu, AcceptsMenu, validateMenu
  <1>3. ASSUME NEW c \in Codes, NEW content, NEW status \in {"active", "", "disabled"},
               EditMenu(c, content, status)
        PROVE  DraftIsTree'
    BY <1>1, <1>3 DEF EditMenu, validateMenu
  <1>4. ASSUME NEW c \in Codes, DeleteMenu(c) PROVE DraftIsTree'
    <2> DEFINE row == [draft[c] EXCEPT !.status = "deleted", !.version = draft[c].version + 1]
    <2>1. draft' = [draft EXCEPT ![c] = row] /\ ~ \E d \in Codes : Parent[d] = c /\ Live(d)
      BY <1>0, <1>4 DEF DeleteMenu, NextVersion
    <2>2. row.status = "deleted"
      BY <1>0 DEF MenuRow
    <2> HIDE DEF row
    <2>3. ~ Live(c)' /\ \A d \in Codes \ {c} : Live(d)' <=> Live(d)
      BY <1>0, <2>1, <2>2 DEF Live
    <2> QED BY <2>1, <2>3 DEF DraftIsTree
  <1>5. ASSUME NEW t \in Tenants,
               ListGrants(t) \/ Grant(t) \/ KeepGrant(t) \/ RevokeGrant(t)
        PROVE  DraftIsTree'
    BY <1>5, <1>k DEF ListGrants, Grant, KeepGrant, RevokeGrant, server
  <1>6. ASSUME NEW route, EditApplication(route) PROVE DraftIsTree'
    BY <1>6, <1>k DEF EditApplication
  <1>7. CASE \/ Start \/ CreateApplication \/ UpdateApplication \/ KeepApplication
             \/ ListMenus \/ PublishMenus \/ KeepRelease \/ Succeed \/ Fail
    BY <1>7, <1>k DEF Start, CreateApplication, UpdateApplication, KeepApplication,
       ListMenus, PublishMenus, KeepRelease, Succeed, Fail, server
  <1>8. CASE Crash \/ Rerun \/ RollOut \/ PublishByOperator \/ UNCHANGED vars
    BY <1>8, <1>k DEF Crash, Rerun, RollOut, PublishByOperator, vars, server
  <1> QED BY <1>2, <1>3, <1>4, <1>5, <1>6, <1>7, <1>8 DEF Next, Step, Others

-----------------------------------------------------------------------------
LEMMA InvInit == Init => BootstrapInv
  <1>1. Init => DraftIsTree
    BY Rows DEF Init, DraftIsTree, Live, NoMenu
  <1> QED BY <1>1, TypeInit, RowInit, AloneInit DEF BootstrapInv

LEMMA InvStep == BootstrapInv /\ [Next]_vars => BootstrapInv'
  BY TypeStep, RowStep, AloneStep, TreeStep DEF BootstrapInv

LEMMA BootstrapCorrect == Spec => []BootstrapInv
  BY InvInit, InvStep, PTL DEF Spec

(* Every variable keeps its type and every publication has moved the       *)
(* version of the application: nothing is published of an application that *)
(* has no row, since a menu is only ever written under one (TypeOK;        *)
(* createApplication, UpsertMenu, PublishMenus).                           *)
THEOREM BootstrapTypeCorrect == Spec => []TypeOK
  <1>1. BootstrapInv => TypeOK
    BY DEF BootstrapInv
  <1> QED BY <1>1, BootstrapCorrect, PTL

(* An attempt that succeeds while nobody else writes leaves what is        *)
(* declared, wherever earlier attempts have died and whatever clients      *)
(* wrote before it (Reconciler.Apply).                                     *)
THEOREM SuccessDeclaresAlways == Spec => []SuccessDeclares
  <1>1. BootstrapInv => SuccessDeclares
    BY DEF BootstrapInv, Alone, ApplicationKnown, GrantsKnown, MenusKnown, Declares,
           SuccessDeclares
  <1> QED BY <1>1, BootstrapCorrect, PTL

(* An attempt with which nobody interferes is refused nothing, unless what *)
(* Blocked names is the case: a manifest the service refuses, by itself or *)
(* next to the undeclared menus of the draft, or the code of a deleted     *)
(* menu.  The versions, parents and routes of its calls follow from its    *)
(* own lists and calls, so a Job needs its retries for interference only   *)
(* (reconcileMenus, expected_version; validateMenu, PublishMenus).         *)
NotRefused == run.alone /\ ~ Blocked => ~ Refused

(* Without a clash, the routes that menus have are free of each other.     *)
LEMMA FreeWithoutClash ==
  ASSUME ~ RoutesClash, NEW view,
         \A c \in Codes : view[c] # Absent => Path[c][view[c]] \in Claims(c)
  PROVE  RoutesFree(view)
  BY DEF RoutesClash, RoutesFree

LEMMA DraftClaims ==
  \A c \in Codes : RoutedDraft[c] # Absent => Path[c][RoutedDraft[c]] \in Claims(c)
  BY DEF Claims

LEMMA AcceptedAlone ==
  ASSUME BootstrapInv, run.alone, ~ Blocked
  PROVE  ~ Refused
  <1>0. /\ TypeOK /\ run.todo \subseteq DOMAIN manifest.menus /\ DOMAIN manifest.menus \subseteq Codes
        /\ ApplicationKnown /\ GrantsKnown /\ MenusKnown /\ DOMAIN manifest.menus # {}
        /\ run.tenants \in SUBSET Tenants /\ DraftIsTree
        /\ \A c \in DOMAIN manifest.menus : Parent[c] \in DOMAIN manifest.menus \cup {NoCode}
    BY RunFields, DeclaredMenus DEF BootstrapInv, Alone, TypeOK
  <1>b. /\ CodeAccepted /\ ~ RoutesClash /\ NamesLeaf(manifest.route, Intended)
        /\ \A c \in DOMAIN manifest.menus :
             /\ manifest.menus[c] \notin Malformed /\ draft[c].status # "deleted"
             /\ Parent[c] # NoCode => manifest.menus[Parent[c]] \in Pages
    BY DEF Blocked, ManifestRefused, CodeTaken
  <1>p. \A c \in DOMAIN manifest.menus : manifest.menus[c] \in Actions => Parent[c] # NoCode
    <2>1. manifest \in Manifest
      BY <1>0, ManifestsAssumption DEF TypeOK
    <2> QED BY <2>1 DEF Manifest
  <1>1. ASSUME run.pc = "application" \/ run.pc = "upsert" PROVE AcceptsApplication(run)
    BY <1>0, <1>1 DEF ApplicationKnown, Listing, AcceptsApplication
  <1>c. ASSUME run.pc = "application" PROVE AcceptsCreate(run)
    BY <1>1, <1>b, <1>c DEF AcceptsCreate
  <1>2. ASSUME run.pc = "upsert", NEW c \in NextInOrder(run) PROVE AcceptsMenu(run, c)
    <2>1. c \in DOMAIN manifest.menus /\ c \in run.todo /\ c \in Codes /\ Parent[c] \notin run.todo
      BY <1>0, <1>2 DEF NextInOrder
    <2>2. ParentAccepted(c)
      <3>1. CASE Parent[c] = NoCode
        BY <3>1 DEF ParentAccepted
      <3>2. CASE Parent[c] # NoCode
        <4>1. Parent[c] \in DOMAIN manifest.menus \ run.todo
          BY <1>0, <2>1, <3>2
        <4>2. Declares(Parent[c]) /\ manifest.menus[Parent[c]] \in Pages
          BY <1>0, <1>2, <1>b, <2>1, <3>2, <4>1 DEF MenusKnown
        <4> QED BY <1>0, <4>1, <4>2 DEF ParentAccepted, Declares
      <3> QED BY <3>1, <3>2
    <2>3. validateMenu(c, manifest.menus[c], "")
      <3> DEFINE new == IF Routed("", manifest.menus[c]) THEN manifest.menus[c] ELSE Absent
                 view == [RoutedDraft EXCEPT ![c] = new]
      <3>1. new # Absent => Path[c][new] \in Claims(c)
        BY <2>1 DEF Claims, Declared, Routed
      <3> HIDE DEF new
      <3>2. view[c] = new /\ \A d \in Codes \ {c} : view[d] = RoutedDraft[d]
        BY <2>1 DEF RoutedDraft
      <3> HIDE DEF view
      <3>3. \A d \in Codes : view[d] # Absent => Path[d][view[d]] \in Claims(d)
        BY <3>1, <3>2, DraftClaims
      <3>4. RoutesFree(view)
        BY <1>b, <3>3, FreeWithoutClash
      <3> QED BY <1>0, <1>b, <1>p, <2>1, <2>2, <3>4 DEF validateMenu, view, new
    <2>4. run.menus[c] = IF Live(c) THEN draft[c] ELSE NoMenu
      BY <1>0, <1>2, <2>1 DEF MenusKnown
    <2>5. draft[c].version \in Nat
      BY <1>0, <2>1 DEF TypeOK, MenuRow
    <2>6. CASE Live(c)
      BY <2>3, <2>4, <2>5, <2>6 DEF AcceptsMenu, ExpectedVersion, Live
    <2>7. CASE ~ Live(c)
      <3>1. draft[c].version = 0
        BY <1>b, <2>1, <2>5, <2>7 DEF Live
      <3>2. run.menus[c] = NoMenu /\ NoMenu.version = 0
        BY <2>4, <2>7 DEF NoMenu
      <3>3. ExpectedVersion(run, c) = 0
        BY <3>2 DEF ExpectedVersion
      <3> QED BY <2>3, <3>1, <3>3 DEF AcceptsMenu
    <2> QED BY <2>6, <2>7
  <1>3. ASSUME run.pc = "upsert", run.todo = {} PROVE AcceptsPublish(run)
    <2>1. \A c \in DOMAIN manifest.menus : Declares(c)
      BY <1>0, <1>3 DEF MenusKnown
    <2>2. \E c \in Codes : Live(c)
      BY <1>0, <2>1 DEF Declares
    <2>3. RoutesFree(RoutedDraft)
      BY <1>b, DraftClaims, FreeWithoutClash
    <2>4. Intended = RoutedDraft
      <3>1. ASSUME NEW c \in Codes PROVE Intended[c] = RoutedDraft[c]
        <4>1. CASE c \in DOMAIN manifest.menus
          <5>1. /\ Live(c) /\ draft[c].content = manifest.menus[c]
                /\ draft[c].status \in {"active", ""}
            BY <2>1, <4>1 DEF Declares
          <5> QED BY <4>1, <5>1 DEF Intended, Declared, RoutedDraft, Routed
        <4>2. CASE c \notin DOMAIN manifest.menus
          BY <4>2 DEF Intended, Declared
        <4> QED BY <4>1, <4>2
      <3>2. /\ Intended = [c \in Codes |-> Intended[c]]
            /\ RoutedDraft = [c \in Codes |-> RoutedDraft[c]]
        BY DEF Intended, RoutedDraft
      <3> QED BY <3>1, <3>2
    <2>5. app.route = manifest.route
      BY <1>0, <1>3 DEF ApplicationKnown, applicationEqual
    <2> QED BY <1>0, <1>1, <1>3, <1>b, <2>2, <2>3, <2>4, <2>5 DEF AcceptsPublish, Publishable
  <1>4. ASSUME run.pc = "grant", NEW t \in run.tenants PROVE AcceptsGrant(run, t)
    BY <1>0, <1>4 DEF GrantsKnown, AcceptsGrant
  <1> QED BY <1>1, <1>c, <1>2, <1>3, <1>4 DEF Refused

THEOREM NotRefusedAlways == Spec => []NotRefused
  <1>1. BootstrapInv => NotRefused
    BY AcceptedAlone DEF NotRefused
  <1> QED BY <1>1, BootstrapCorrect, PTL

-----------------------------------------------------------------------------
(* Publishing, as long as no attempt stops before it and nobody else       *)
(* writes a menu.                                                          *)
LEMMA PublishSyncs ==
  ASSUME TypeOK, Publish, draft' = draft
  PROVE  Synced'
  <1>1. \A c \in Codes : Live(c)' <=> Live(c)
    BY DEF Live
  <1>2. \A c \in Codes : release'[c] = IF Live(c) THEN draft[c].content ELSE Absent
    BY DEF Publish
  <1> QED BY <1>1, <1>2 DEF Synced

LEMMA UninterruptedInit == Init => Uninterrupted
  BY Rows, IdleFields DEF Init, Uninterrupted

LEMMA UninterruptedStep ==
  ASSUME BootstrapInv, Uninterrupted, [Next]_vars
  PROVE  Uninterrupted'
  <1> DEFINE Waits(r) == r.pc = "upsert" /\ r.changed
  <1>0. /\ TypeOK /\ RowFirst /\ draft \in [Codes -> MenuRow]
        /\ app.published \in Nat /\ run.app.published \in Nat
    BY RunFields DEF BootstrapInv, TypeOK, AppRow
  <1>u. ASSUME ~ disturbed
        PROVE  /\ Synced \/ app.published = 0 \/ Waits(run)
               /\ run.pc \in {"grant", "done"} => Synced
    BY <1>u DEF Uninterrupted
  (* Steps that publish nothing and write no menu.                         *)
  <1>k. ASSUME UNCHANGED <<draft, release>>,
               ~ disturbed' => ~ disturbed /\ (Waits(run) => Waits(run')),
               app'.published = app.published,
               ~ disturbed /\ run'.pc \in {"grant", "done"} => Synced
        PROVE  Uninterrupted'
    <2>1. Synced' <=> Synced
      <3>1. \A c \in Codes : Live(c)' <=> Live(c)
        BY <1>k DEF Live
      <3> QED BY <1>k, <3>1 DEF Synced
    <2>2. SUFFICES ASSUME ~ disturbed'
                   PROVE  /\ Synced' \/ app'.published = 0 \/ Waits(run')
                          /\ run'.pc \in {"grant", "done"} => Synced'
      BY DEF Uninterrupted
    <2>3. ~ disturbed /\ (Waits(run) => Waits(run'))
      BY <1>k, <2>2
    <2>4. Synced \/ app.published = 0 \/ Waits(run)
      BY <1>u, <2>3
    <2> QED BY <1>k, <2>1, <2>3, <2>4
  <1>p. ASSUME Publish, draft' = draft PROVE Uninterrupted'
    <2>1. Synced'
      BY <1>0, <1>p, PublishSyncs
    <2> QED BY <2>1 DEF Uninterrupted
  <1>1. CASE Start
    <2>1. run.pc = "idle" /\ UNCHANGED <<server, flags>>
      BY <1>1 DEF Start
    <2>2. run'.pc \in {"grants", "application"}
      BY <1>0, <1>1, StartMoves
    <2> QED BY <1>k, <2>1, <2>2 DEF server, flags
  <1>2. CASE CreateApplication
    <2>1. run.pc = "application"
      BY <1>2 DEF CreateApplication
    <2>2. app'.published = 0 /\ Only({"app"})
      BY <1>0, <1>2, Moves, AppMoves
    <2>3. run'.pc = "application"
      BY <2>1, <2>2 DEF Only
    <2> QED BY <2>2, <2>3 DEF Uninterrupted
  <1>3. CASE UpdateApplication
    <2>1. run.pc = "application" /\ UNCHANGED <<draft, release, flags>>
      BY <1>3 DEF UpdateApplication
    <2>2. app'.published = app.published /\ run'.pc = "menus"
      BY <1>0, <1>3, Moves, AppMoves
    <2> QED BY <1>k, <2>1, <2>2 DEF flags
  <1>4. CASE KeepApplication
    <2>1. run.pc = "application" /\ UNCHANGED <<server, flags>>
      BY <1>4 DEF KeepApplication
    <2>2. run'.pc = "menus"
      BY <1>0, <1>4, Moves
    <2> QED BY <1>k, <2>1, <2>2 DEF flags, server
  <1>5. CASE ListMenus
    <2>1. run.pc = "menus" /\ UNCHANGED <<server, flags>>
      BY <1>5 DEF ListMenus
    <2>2. run'.pc = "upsert"
      BY <1>0, <1>5, ListMenusMoves
    <2> QED BY <1>k, <2>1, <2>2 DEF flags, server
  <1>6. CASE PublishMenus \/ PublishByOperator
    BY <1>6, <1>p DEF PublishMenus, PublishByOperator
  <1>7. CASE KeepRelease
    <2>1. /\ run.pc = "upsert" /\ ~ run.changed /\ run.app.published # 0
          /\ UNCHANGED <<server, flags>>
      BY <1>7 DEF KeepRelease, NeedsPublish
    <2>2. run'.pc = "grant"
      BY <1>0, <1>7, Moves
    <2>3. app.published # 0
      BY <1>0, <2>1 DEF RowFirst
    <2>4. ~ disturbed => Synced
      BY <1>u, <2>1, <2>3
    <2> QED BY <1>k, <2>1, <2>2, <2>4 DEF flags, server
  <1>8. CASE Succeed
    <2>1. run.pc = "grant" /\ UNCHANGED <<server, disturbed>>
      BY <1>8 DEF Succeed
    <2>2. run'.pc = "done"
      BY <1>0, <1>8, Moves
    <2> QED BY <1>k, <1>u, <2>1, <2>2 DEF server
  <1>9. CASE Fail \/ Crash
    <2>1. UNCHANGED server /\ Stop
      BY <1>9 DEF Fail, Crash
    <2>2. run'.pc = "idle"
      BY <2>1, IdleFields DEF Stop
    <2>3. ~ disturbed' => ~ disturbed /\ ~ Waits(run)
      BY <1>0, <2>1 DEF Stop
    <2> QED BY <1>k, <2>1, <2>2, <2>3 DEF server
  <1>10. ASSUME NEW t \in Tenants, ListGrants(t) PROVE Uninterrupted'
    <2>1. run.pc = "grants" /\ UNCHANGED <<server, flags>>
      BY <1>10 DEF ListGrants
    <2>2. run'.pc \in {"application", "grants"}
      BY <1>0, <1>10, ListGrantsMoves
    <2> QED BY <1>k, <2>1, <2>2 DEF flags, server
  <1>11. ASSUME NEW t \in Tenants, Grant(t) \/ KeepGrant(t) PROVE Uninterrupted'
    <2>1. run.pc = "grant" /\ UNCHANGED <<app, draft, release, flags>>
      BY <1>11 DEF Grant, KeepGrant, server
    <2>2. Only({"tenants"})
      BY <1>0, <1>11, Moves
    <2> QED BY <1>k, <1>u, <2>1, <2>2 DEF Only, flags
  <1>13. ASSUME NEW c \in Codes, UpsertMenu(c) PROVE Uninterrupted'
    <2>1. run.pc = "upsert" /\ UNCHANGED <<app, release, flags>>
      BY <1>13 DEF UpsertMenu
    <2>2. run'.changed /\ run'.pc = "upsert"
      BY <1>0, <1>13, <2>1, Moves DEF Only
    <2> QED BY <2>2 DEF Uninterrupted
  <1>15. CASE Rerun \/ RollOut
    <2>1. /\ run.pc \in {"idle", "done"} /\ run' = IdleRun
          /\ UNCHANGED <<draft, release, disturbed>>
      BY <1>15 DEF Rerun, RollOut, server, flags
    <2>2. app'.published = app.published
      BY <1>0, <1>15, AppMoves DEF Rerun, server
    <2> QED BY <1>k, <2>1, <2>2, IdleFields
  <1>e. ASSUME NEW kind, Edited(kind)
        PROVE  run'.pc = run.pc /\ run'.changed = run.changed
    BY <1>0, <1>e, Moves DEF Only
  <1>18. ASSUME NEW c \in Codes, NEW content, NEW status, EditMenu(c, content, status)
         PROVE  Uninterrupted'
    BY <1>18 DEF EditMenu, Uninterrupted
  <1>19. ASSUME NEW c \in Codes, DeleteMenu(c) PROVE Uninterrupted'
    <2>1. UNCHANGED <<app, release, disturbed>> /\ run'.pc = run.pc /\ run'.changed = run.changed
      BY <1>19, <1>e DEF DeleteMenu
    <2>2. \A d \in Codes : Live(d)' => Live(d) /\ draft'[d].content = draft[d].content
      <3> DEFINE row == [draft[c] EXCEPT !.status = "deleted", !.version = NextVersion(@)]
      <3>1. draft' = [draft EXCEPT ![c] = row]
        BY <1>0, <1>19 DEF DeleteMenu
      <3>2. row.status = "deleted"
        BY <1>0 DEF MenuRow
      <3> HIDE DEF row
      <3> QED BY <1>0, <3>1, <3>2 DEF Live
    <2>3. Synced => Synced'
      BY <2>1, <2>2 DEF Synced
    <2> QED BY <1>u, <2>1, <2>3 DEF Uninterrupted
  <1>20. ASSUME NEW t \in Tenants, RevokeGrant(t) PROVE Uninterrupted'
    <2>1. UNCHANGED <<app, draft, release, disturbed>> /\ run'.pc = run.pc /\ run'.changed = run.changed
      BY <1>20, <1>e DEF RevokeGrant
    <2> QED BY <1>k, <1>u, <2>1
  <1>21. ASSUME NEW route \in Routes \cup {NoRoute}, EditApplication(route) PROVE Uninterrupted'
    <2>1. UNCHANGED <<draft, release, disturbed>> /\ run'.pc = run.pc /\ run'.changed = run.changed
      BY <1>21, <1>e DEF EditApplication
    <2>2. app'.published = app.published
      BY <1>0, <1>21, AppMoves
    <2> QED BY <1>k, <1>u, <2>1, <2>2
  <1>23. CASE UNCHANGED vars
    <2>1. UNCHANGED <<server, run, flags>>
      BY <1>23 DEF vars
    <2> QED BY <1>k, <1>u, <2>1 DEF server, flags
  <1> QED BY <1>1, <1>2, <1>3, <1>4, <1>5, <1>6, <1>7, <1>8, <1>9, <1>10, <1>11,
             <1>13, <1>15, <1>18, <1>19, <1>20, <1>21, <1>23
          DEF Next, Step, Others

(* A Job that has succeeded shows the tenants what its manifest declares,  *)
(* over any number of manifests, reruns, refusals and deaths, unless,      *)
(* since the last publication, an attempt has stopped between its upserts  *)
(* and its publication or another client has written a menu                *)
(* (Reconciler.Apply, menuChanged).                                        *)
THEOREM UninterruptedPublishesAlways == Spec => []UninterruptedPublishes
  <1>1. Init => Uninterrupted
    BY UninterruptedInit
  <1>2. BootstrapInv /\ Uninterrupted /\ [Next]_vars => Uninterrupted'
    BY UninterruptedStep
  <1>3. BootstrapInv /\ Uninterrupted => UninterruptedPublishes
    <2> SUFFICES ASSUME BootstrapInv, Uninterrupted, run.pc = "done", run.alone, ~ disturbed
                 PROVE  \A c \in DOMAIN manifest.menus : release[c] = manifest.menus[c]
      BY DEF UninterruptedPublishes
    <2>1. MenusKnown /\ Synced /\ DOMAIN manifest.menus \subseteq Codes
      BY DeclaredMenus DEF BootstrapInv, TypeOK, Alone, Uninterrupted
    <2> QED BY <2>1 DEF MenusKnown, Synced, Declares
  <1> QED BY <1>1, <1>2, <1>3, BootstrapCorrect, PTL DEF Spec
=============================================================================
