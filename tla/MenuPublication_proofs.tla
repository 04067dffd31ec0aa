----------------------- MODULE MenuPublication_proofs -----------------------
(***************************************************************************)
(* What holds of MenuPublication for every set of applications, menus and  *)
(* workers and every bound; for every Lookahead, unless a theorem says 0.  *)
(* The theorems on drafts are about finitely many menus of one application.*)
(***************************************************************************)
EXTENDS MenuPublication, MenuRules_proofs, FiniteSetTheorems, SequenceTheorems, TLAPS

(* A session's program counter fixes the fields the session has.           *)
LEMMA SessionFields ==
  ASSUME NEW s \in Session
  PROVE  /\ s.pc = "update" => /\ s.app \in Apps /\ s.expected \in Nat
                               /\ s.route \in DefaultRoutes /\ s.published \in Nat
         /\ s.pc = "insert" => s.app \in Apps /\ s.item \in Draft
         /\ s.pc = "rewrite" => /\ s.id \in Menus /\ s.expected \in Nat
                                /\ s.item \in Draft
         /\ s.pc = "delete" => s.id \in Menus /\ s.expected \in Nat
         /\ s.pc = "locked" => s.app \in Apps /\ s.expected \in Nat
         /\ s.pc = "publish" => /\ s.app \in Apps /\ s.expected \in Nat
                                /\ s.number \in Nat /\ s.route \in DefaultRoutes
         /\ s.pc = "commit" => /\ s.app \in Apps /\ s.expected \in Nat
                               /\ s.number \in Nat /\ s.items \subseteq MenuItem
         /\ s.pc = "unlock" => s.app \in Apps
         /\ s.pc = "navigate" => s.app \in Apps /\ s.number \in Nat
  BY DEF Session, Idle

(* A draft row is released as a menu item.                                 *)
LEMMA DraftItems ==
  ASSUME TypeOK, NEW a \in Apps
  PROVE  ListDraftMenus(a) \subseteq MenuItem
  BY DEF TypeOK, ListDraftMenus, MenuItem, MenuRow, Live

LEMMA InitTypeOK == Init => TypeOK
  <1> SUFFICES ASSUME Init PROVE TypeOK
    OBVIOUS
  <1>1. app \in [Apps -> AppRow]
    <2>1. (CHOOSE r \in DefaultRoutes : TRUE) \in DefaultRoutes
      BY PublicationAssumption
    <2>2. QED
      BY <2>1 DEF Init, AppRow
  <1>2. menu \in [Menus -> MenuRow]
    <2>1. (CHOOSE a \in Apps : TRUE) \in Apps
      BY PublicationAssumption
    <2>2. (CHOOSE t \in Types \ {"action"} : TRUE) \in Types \ {"action"}
      BY MenusAssumption
    <2>3. NoRow.item \in Draft
      BY <2>2, MenusAssumption DEF NoRow, Draft, AllPaths
    <2>4. NoRow \in MenuRow
      BY <2>1, <2>3 DEF NoRow, MenuRow
    <2>5. QED
      BY <2>4 DEF Init
  <1>3. QED
    BY <1>1, <1>2 DEF Init, TypeOK, Session, Idle

(* Moving a worker to a well-typed session keeps every session typed.      *)
LEMMA BecomesTyped ==
  ASSUME TypeOK, NEW w \in Workers, NEW s \in Session, Becomes(w, s)
  PROVE  session' \in [Workers -> Session]
  BY DEF TypeOK, Becomes

LEMMA NextTypeOK == TypeOK /\ [Next]_vars => TypeOK'
  <1> SUFFICES ASSUME TypeOK, [Next]_vars PROVE TypeOK'
    OBVIOUS
  <1>0. /\ app \in [Apps -> AppRow] /\ menu \in [Menus -> MenuRow]
        /\ releases \subseteq Release /\ outbox \subseteq Event
        /\ lock \in [Apps -> Workers \cup {NoWorker}]
        /\ session \in [Workers -> Session]
    BY DEF TypeOK
  <1>idle. Idle \in Session
    BY DEF Session
  <1>1. ASSUME NEW a \in Apps, NEW route \in DefaultRoutes,
               CreateApplication(a, route)
        PROVE  TypeOK'
    BY <1>0, <1>1 DEF CreateApplication, AddEvent, AppRow, Event, TypeOK
  <1>2. ASSUME NEW a \in Apps, LeaseExpires(a)
        PROVE  TypeOK'
    BY <1>0, <1>2 DEF LeaseExpires, TypeOK
  <1>3. ASSUME NEW w \in Workers, NEW a \in Apps, NEW route \in DefaultRoutes,
               ReadForUpdate(w, a, route)
        PROVE  TypeOK'
    <2>1. PICK e \in Expected(app[a].version, MaxAppVersion) :
            Becomes(w, [pc |-> "update", app |-> a, expected |-> e,
                        route |-> route, published |-> app[a].published])
      BY <1>3 DEF ReadForUpdate
    <2>2. [pc |-> "update", app |-> a, expected |-> e, route |-> route,
           published |-> app[a].published] \in Session
      BY <1>0, PublicationAssumption DEF Session, Expected, AppRow
    <2>3. QED
      BY <2>1, <2>2, <1>0, <1>3, BecomesTyped DEF ReadForUpdate, TypeOK
  <1>4. ASSUME NEW w \in Workers, NEW a \in Apps, NEW d \in Draft,
               NEW named \in Menus \cup {NoMenu}, ValidateInsert(w, a, d, named)
        PROVE  TypeOK'
    <2>1. [d EXCEPT !.active = TRUE] \in Draft
      BY DEF Draft
    <2>2. [pc |-> "insert", app |-> a, item |-> [d EXCEPT !.active = TRUE]]
             \in Session
      BY <2>1 DEF Session
    <2>3. QED
      BY <2>2, <1>0, <1>4, BecomesTyped DEF ValidateInsert, TypeOK
  <1>5. ASSUME NEW w \in Workers, NEW a \in Apps, NEW d \in Draft,
               NEW id \in Menus, ValidateRewrite(w, a, id, d)
        PROVE  TypeOK'
    <2>1. PICK e \in Expected(menu[id].version, MaxMenuVersion) :
            Becomes(w, [pc |-> "rewrite", id |-> id, expected |-> e, item |-> d])
      BY <1>5 DEF ValidateRewrite
    <2>2. [pc |-> "rewrite", id |-> id, expected |-> e, item |-> d] \in Session
      BY <1>0, PublicationAssumption DEF Session, Expected, MenuRow
    <2>3. QED
      BY <2>1, <2>2, <1>0, <1>5, BecomesTyped DEF ValidateRewrite, TypeOK
  <1>6. ASSUME NEW w \in Workers, NEW id \in Menus, CheckDelete(w, id)
        PROVE  TypeOK'
    <2>1. PICK e \in Expected(menu[id].version, MaxMenuVersion) :
            Becomes(w, [pc |-> "delete", id |-> id, expected |-> e])
      BY <1>6 DEF CheckDelete
    <2>2. [pc |-> "delete", id |-> id, expected |-> e] \in Session
      BY <1>0, PublicationAssumption DEF Session, Expected, MenuRow
    <2>3. QED
      BY <2>1, <2>2, <1>0, <1>6, BecomesTyped DEF CheckDelete, TypeOK
  <1>7. ASSUME NEW w \in Workers, NEW a \in Apps, TryPublishLock(w, a)
        PROVE  TypeOK'
    <2>1. PICK e \in Expected(app[a].version, MaxAppVersion) :
            Becomes(w, [pc |-> "locked", app |-> a, expected |-> e])
      BY <1>7 DEF TryPublishLock
    <2>2. [pc |-> "locked", app |-> a, expected |-> e] \in Session
      BY <1>0, PublicationAssumption DEF Session, Expected, AppRow
    <2>3. session' \in [Workers -> Session]
      BY <2>1, <2>2, BecomesTyped
    <2>4. QED
      BY <2>3, <1>0, <1>7 DEF TryPublishLock, TypeOK
  <1>8. ASSUME NEW w \in Workers, NEW a \in Apps, ReadForNavigation(w, a)
        PROVE  TypeOK'
    <2>1. [pc |-> "navigate", app |-> a, number |-> app[a].published] \in Session
      BY <1>0 DEF Session, AppRow
    <2>2. QED
      BY <2>1, <1>0, <1>8, BecomesTyped DEF ReadForNavigation, TypeOK
  <1>9. ASSUME NEW w \in Workers, UpdateApplication(w)
        PROVE  TypeOK'
    <2>1. session[w] \in Session /\ session[w].pc = "update"
      BY <1>0, <1>9 DEF UpdateApplication
    <2>2. /\ session[w].app \in Apps /\ session[w].expected \in Nat
          /\ session[w].route \in DefaultRoutes /\ session[w].published \in Nat
      BY <2>1, SessionFields
    <2>3. app' \in [Apps -> AppRow]
      BY <2>2, <1>0, <1>9 DEF UpdateApplication, AppRow
    <2>4. outbox' \subseteq Event
      BY <2>2, <1>0, <1>9 DEF UpdateApplication, AddEvent, Event
    <2>5. session' \in [Workers -> Session]
      BY <1>9, <1>idle, BecomesTyped DEF UpdateApplication
    <2>6. QED
      BY <2>3, <2>4, <2>5, <1>0, <1>9 DEF UpdateApplication, TypeOK
  <1>10. ASSUME NEW w \in Workers, InsertMenu(w)
         PROVE  TypeOK'
    <2>1. session[w].app \in Apps /\ session[w].item \in Draft
      BY <1>0, <1>10, SessionFields DEF InsertMenu
    <2>2. menu' \in [Menus -> MenuRow]
      BY <2>1, <1>0, <1>10 DEF InsertMenu, MenuRow
    <2>3. QED
      BY <2>2, <1>0, <1>10, <1>idle, BecomesTyped DEF InsertMenu, TypeOK
  <1>11. ASSUME NEW w \in Workers, RewriteMenu(w)
         PROVE  TypeOK'
    <2>1. session[w].id \in Menus /\ session[w].item \in Draft
      BY <1>0, <1>11, SessionFields DEF RewriteMenu
    <2>2. menu' \in [Menus -> MenuRow]
      BY <2>1, <1>0, <1>11 DEF RewriteMenu, MenuRow
    <2>3. QED
      BY <2>2, <1>0, <1>11, <1>idle, BecomesTyped DEF RewriteMenu, TypeOK
  <1>12. ASSUME NEW w \in Workers, DeleteMenu(w)
         PROVE  TypeOK'
    <2>1. session[w].id \in Menus
      BY <1>0, <1>12, SessionFields DEF DeleteMenu
    <2>2. menu' \in [Menus -> MenuRow]
      BY <2>1, <1>0, <1>12 DEF DeleteMenu, MenuRow
    <2>3. QED
      BY <2>2, <1>0, <1>12, <1>idle, BecomesTyped DEF DeleteMenu, TypeOK
  <1>13. ASSUME NEW w \in Workers, ReadForPublish(w)
         PROVE  TypeOK'
    <2>1. session[w].app \in Apps /\ session[w].expected \in Nat
      BY <1>0, <1>13, SessionFields DEF ReadForPublish
    <2>2. [pc |-> "publish", app |-> session[w].app,
           expected |-> session[w].expected, number |-> NextNumber(session[w].app),
           route |-> app[session[w].app].route] \in Session
      BY <2>1, <1>0 DEF Session, NextNumber, AppRow
    <2>3. QED
      BY <2>2, <1>0, <1>13, BecomesTyped DEF ReadForPublish, TypeOK
  <1>14. ASSUME NEW w \in Workers, ValidateDraft(w)
         PROVE  TypeOK'
    <2>1. /\ session[w].app \in Apps /\ session[w].expected \in Nat
          /\ session[w].number \in Nat
      BY <1>0, <1>14, SessionFields DEF ValidateDraft
    <2>2. [pc |-> "commit", app |-> session[w].app,
           expected |-> session[w].expected, number |-> session[w].number,
           items |-> ListDraftMenus(session[w].app)] \in Session
      BY <2>1, DraftItems DEF Session
    <2>3. QED
      BY <2>2, <1>0, <1>14, BecomesTyped DEF ValidateDraft, TypeOK
  <1>15. ASSUME NEW w \in Workers, CommitRelease(w)
         PROVE  TypeOK'
    <2>1. /\ session[w].app \in Apps /\ session[w].expected \in Nat
          /\ session[w].number \in Nat /\ session[w].items \subseteq MenuItem
      BY <1>0, <1>15, SessionFields DEF CommitRelease
    <2>2. app' \in [Apps -> AppRow]
      BY <2>1, <1>0, <1>15 DEF CommitRelease, AppRow
    <2>3. releases' \subseteq Release
      BY <2>1, <1>0, <1>15 DEF CommitRelease, CreateRelease, Release
    <2>4. outbox' \subseteq Event
      BY <2>1, <1>0, <1>15 DEF CommitRelease, AddEvent, Event
    <2>5. [pc |-> "unlock", app |-> session[w].app] \in Session
      BY <2>1 DEF Session
    <2>6. session' \in [Workers -> Session]
      BY <2>5, <1>15, BecomesTyped DEF CommitRelease
    <2>7. QED
      BY <2>2, <2>3, <2>4, <2>6, <1>0, <1>15 DEF CommitRelease, TypeOK
  <1>16. ASSUME NEW w \in Workers, Unlock(w)
         PROVE  TypeOK'
    <2>1. session' \in [Workers -> Session]
      BY <1>16, <1>idle, BecomesTyped DEF Unlock
    <2>2. QED
      BY <2>1, <1>0, <1>16 DEF Unlock, TypeOK
  <1>17. ASSUME NEW w \in Workers, ServeNavigation(w)
         PROVE  TypeOK'
    BY <1>0, <1>17, <1>idle, BecomesTyped DEF ServeNavigation, TypeOK
  <1>18. ASSUME NEW w \in Workers, Abort(w)
         PROVE  TypeOK'
    <2>1. session[w].pc \in {"locked", "publish", "commit"} =>
            [pc |-> "unlock", app |-> session[w].app] \in Session
      BY <1>0, SessionFields DEF Session
    <2>2. QED
      BY <2>1, <1>0, <1>18, <1>idle, BecomesTyped DEF Abort, TypeOK
  <1>19. ASSUME NEW w \in Workers, Crash(w)
         PROVE  TypeOK'
    BY <1>0, <1>19, <1>idle, BecomesTyped DEF Crash, TypeOK
  <1>20. CASE UNCHANGED vars
    BY <1>0, <1>20 DEF vars, TypeOK
  <1>21. QED
    BY <1>1, <1>2, <1>3, <1>4, <1>5, <1>6, <1>7, <1>8, <1>9, <1>10, <1>11, <1>12,
       <1>13, <1>14, <1>15, <1>16, <1>17, <1>18, <1>19, <1>20
       DEF Next, Request, Step

(* In every state of every behaviour the rows, the lock and what each      *)
(* handler has read so far have their types.                               *)
THEOREM TypeCorrect == Spec => []TypeOK
  BY InitTypeOK, NextTypeOK, PTL DEF Spec

-----------------------------------------------------------------------------
(***************************************************************************)
(* Numbering.  The commit needs its number to be the next one.  A worker   *)
(* computed it from published_release as it was at an earlier read, and    *)
(* published_release never decreases, so the number is at most the next    *)
(* one; UNIQUE(application_id, release_number) excludes the smaller ones.  *)
(* Neither the publish lock nor the version in the WHERE clause is used.   *)
(***************************************************************************)
NumbersRead ==
  \A w \in Workers :
    LET s == session[w] IN
    /\ s.pc \in {"publish", "commit"} =>
         s.number \in 1 .. (app[s.app].published + 1)
    /\ s.pc = "navigate" => s.number \in 1 .. app[s.app].published

UnbornUnpublished == \A a \in Apps : ~ Exists(a) => app[a].published = 0

NumberingInv == ReleaseNumbering /\ NumbersRead /\ UnbornUnpublished

LEMMA InitNumbering == Init => NumberingInv
  <1> SUFFICES ASSUME Init PROVE NumberingInv
    OBVIOUS
  <1>1. ReleaseNumbering
    BY DEF Init, ReleaseNumbering
  <1>2. NumbersRead
    BY DEF Init, NumbersRead, Idle
  <1>3. UnbornUnpublished
    BY DEF Init, UnbornUnpublished
  <1>4. QED
    BY <1>1, <1>2, <1>3 DEF NumberingInv

(* A worker that moves to a session whose number is one it may have read   *)
(* keeps NumbersRead, as long as no published_release decreases.           *)
LEMMA NumbersKept ==
  ASSUME TypeOK, NumbersRead, NEW w \in Workers, NEW s \in Session,
         Becomes(w, s), app' \in [Apps -> AppRow],
         s.pc \in {"publish", "commit"} =>
           s.number \in 1 .. (app'[s.app].published + 1),
         s.pc = "navigate" => s.number \in 1 .. app'[s.app].published,
         \A a \in Apps : app[a].published <= app'[a].published
  PROVE  NumbersRead'
  <1> SUFFICES ASSUME NEW v \in Workers
               PROVE  LET t == session'[v] IN
                      /\ t.pc \in {"publish", "commit"} =>
                           t.number \in 1 .. (app'[t.app].published + 1)
                      /\ t.pc = "navigate" => t.number \in 1 .. app'[t.app].published
    BY DEF NumbersRead
  <1>1. CASE v = w
    BY <1>1 DEF TypeOK, Becomes
  <1>2. CASE v # w
    <2>1. session'[v] = session[v] /\ session[v] \in Session
      BY <1>2 DEF TypeOK, Becomes
    <2>2. app \in [Apps -> AppRow]
      BY DEF TypeOK
    <2>3. QED
      BY <2>1, <2>2, SessionFields DEF NumbersRead, AppRow
  <1>3. QED
    BY <1>1, <1>2

(* A step of a worker that neither creates an application nor publishes.   *)
LEMMA QuietStep ==
  ASSUME TypeOK, NumberingInv, UNCHANGED releases, app' \in [Apps -> AppRow],
         \A a \in Apps : /\ app'[a].published = app[a].published
                         /\ app'[a].version >= app[a].version,
         NEW w \in Workers, NEW s \in Session, Becomes(w, s),
         s.pc \in {"publish", "commit"} =>
           s.number \in 1 .. (app'[s.app].published + 1),
         s.pc = "navigate" => s.number \in 1 .. app'[s.app].published
  PROVE  NumberingInv'
  <1>0. app \in [Apps -> AppRow]
    BY DEF TypeOK
  <1>1. ReleaseNumbering'
    BY DEF NumberingInv, ReleaseNumbering
  <1>2. NumbersRead'
    BY <1>0, NumbersKept DEF NumberingInv, AppRow
  <1>3. UnbornUnpublished'
    BY <1>0 DEF NumberingInv, UnbornUnpublished, Exists, AppRow
  <1>4. QED
    BY <1>1, <1>2, <1>3 DEF NumberingInv

(* The number a commit inserts is the next one.                            *)
LEMMA CommitTakesNextNumber ==
  ASSUME TypeOK, NumberingInv, NEW w \in Workers, CommitRelease(w)
  PROVE  session[w].number = app[session[w].app].published + 1
  <1>1. session[w].app \in Apps /\ session[w].number \in Nat
    BY SessionFields DEF TypeOK, CommitRelease
  <1>2. session[w].number \in 1 .. (app[session[w].app].published + 1)
    BY DEF NumberingInv, NumbersRead, CommitRelease
  <1>3. session[w].number \notin 1 .. app[session[w].app].published
    BY <1>1 DEF NumberingInv, ReleaseNumbering, CommitRelease, CreateRelease
  <1>4. app[session[w].app].published \in Nat
    BY <1>1 DEF TypeOK, AppRow
  <1>5. QED
    BY <1>1, <1>2, <1>3, <1>4

LEMMA NextNumbering ==
  TypeOK /\ TypeOK' /\ NumberingInv /\ [Next]_vars => NumberingInv'
  <1> SUFFICES ASSUME TypeOK, TypeOK', NumberingInv, [Next]_vars
               PROVE  NumberingInv'
    OBVIOUS
  <1>0. /\ app \in [Apps -> AppRow] /\ app' \in [Apps -> AppRow]
        /\ releases \subseteq Release /\ session \in [Workers -> Session]
        /\ ReleaseNumbering /\ NumbersRead /\ UnbornUnpublished
    BY DEF TypeOK, NumberingInv
  <1>idle. Idle \in Session /\ Idle.pc = "idle"
    BY DEF Session, Idle
  <1>same. ASSUME UNCHANGED app
           PROVE  \A a \in Apps : /\ app'[a].published = app[a].published
                                  /\ app'[a].version >= app[a].version
    BY <1>0, <1>same DEF AppRow
  <1>1. ASSUME NEW a \in Apps, NEW route \in DefaultRoutes,
               CreateApplication(a, route)
        PROVE  NumberingInv'
    <2>1. app[a].published = 0
      BY <1>0, <1>1 DEF CreateApplication, UnbornUnpublished
    <2>2. \A b \in Apps : app'[b].published = app[b].published
      BY <2>1, <1>0, <1>1 DEF CreateApplication
    <2>3. ReleaseNumbering'
      BY <2>2, <1>0, <1>1 DEF CreateApplication, ReleaseNumbering
    <2>4. NumbersRead'
      BY <2>2, <1>0, <1>1, SessionFields DEF CreateApplication, NumbersRead
    <2>5. UnbornUnpublished'
      BY <1>0, <1>1 DEF CreateApplication, UnbornUnpublished, Exists
    <2>6. QED
      BY <2>3, <2>4, <2>5 DEF NumberingInv
  <1>2. ASSUME NEW a \in Apps, LeaseExpires(a)
        PROVE  NumberingInv'
    BY <1>0, <1>2 DEF LeaseExpires, ReleaseNumbering, NumbersRead,
                      UnbornUnpublished, Exists, NumberingInv
  <1>3. ASSUME NEW w \in Workers, NEW a \in Apps, NEW route \in DefaultRoutes,
               ReadForUpdate(w, a, route)
        PROVE  NumberingInv'
    <2>1. PICK s : Becomes(w, s) /\ s.pc = "update"
      BY <1>3 DEF ReadForUpdate
    <2>2. s \in Session
      BY <2>1, <1>0 DEF Becomes, TypeOK
    <2>3. QED
      BY <2>1, <2>2, <1>3, <1>0, <1>same, QuietStep DEF ReadForUpdate
  <1>4. ASSUME NEW w \in Workers, NEW a \in Apps, NEW d \in Draft,
               NEW named \in Menus \cup {NoMenu},
               ValidateInsert(w, a, d, named)
        PROVE  NumberingInv'
    <2>1. PICK s : Becomes(w, s) /\ s.pc = "insert"
      BY <1>4 DEF ValidateInsert
    <2>2. s \in Session
      BY <2>1, <1>0 DEF Becomes, TypeOK
    <2>3. QED
      BY <2>1, <2>2, <1>4, <1>0, <1>same, QuietStep DEF ValidateInsert
  <1>5. ASSUME NEW w \in Workers, NEW a \in Apps, NEW d \in Draft,
               NEW id \in Menus,
               ValidateRewrite(w, a, id, d)
        PROVE  NumberingInv'
    <2>1. PICK s : Becomes(w, s) /\ s.pc = "rewrite"
      BY <1>5 DEF ValidateRewrite
    <2>2. s \in Session
      BY <2>1, <1>0 DEF Becomes, TypeOK
    <2>3. QED
      BY <2>1, <2>2, <1>5, <1>0, <1>same, QuietStep DEF ValidateRewrite
  <1>6. ASSUME NEW w \in Workers, NEW id \in Menus,
               CheckDelete(w, id)
        PROVE  NumberingInv'
    <2>1. PICK s : Becomes(w, s) /\ s.pc = "delete"
      BY <1>6 DEF CheckDelete
    <2>2. s \in Session
      BY <2>1, <1>0 DEF Becomes, TypeOK
    <2>3. QED
      BY <2>1, <2>2, <1>6, <1>0, <1>same, QuietStep DEF CheckDelete
  <1>7. ASSUME NEW w \in Workers, NEW a \in Apps,
               TryPublishLock(w, a)
        PROVE  NumberingInv'
    <2>1. PICK s : Becomes(w, s) /\ s.pc = "locked"
      BY <1>7 DEF TryPublishLock
    <2>2. s \in Session
      BY <2>1, <1>0 DEF Becomes, TypeOK
    <2>3. QED
      BY <2>1, <2>2, <1>7, <1>0, <1>same, QuietStep DEF TryPublishLock
  <1>8. ASSUME NEW w \in Workers, NEW a \in Apps, ReadForNavigation(w, a)
        PROVE  NumberingInv'
    <2> DEFINE s == [pc |-> "navigate", app |-> a, number |-> app[a].published]
    <2>1. Becomes(w, s) /\ UNCHANGED <<app, releases>>
      BY <1>8 DEF ReadForNavigation
    <2>2. s \in Session
      BY <1>0 DEF Session, AppRow
    <2>3. s.number \in 1 .. app'[s.app].published
      BY <1>8, <1>0 DEF ReadForNavigation, AppRow
    <2>4. s.pc = "navigate"
      OBVIOUS
    <2> HIDE DEF s
    <2>5. QED
      BY <2>1, <2>2, <2>3, <2>4, <1>0, <1>same, QuietStep
  <1>9. ASSUME NEW w \in Workers, UpdateApplication(w)
        PROVE  NumberingInv'
    <2>1. session[w].app \in Apps
      BY <1>0, <1>9, SessionFields DEF UpdateApplication
    <2>2. \A a \in Apps : /\ app'[a].published = app[a].published
                          /\ app'[a].version >= app[a].version
      BY <2>1, <1>0, <1>9 DEF UpdateApplication, AppRow
    <2>3. Becomes(w, Idle) /\ UNCHANGED releases
      BY <1>9 DEF UpdateApplication
    <2>4. QED
      BY <2>2, <2>3, <1>0, <1>idle, QuietStep
  <1>10. ASSUME NEW w \in Workers, InsertMenu(w)
         PROVE  NumberingInv'
    <2>1. Becomes(w, Idle) /\ UNCHANGED <<app, releases>>
      BY <1>10 DEF InsertMenu
    <2>2. QED
      BY <2>1, <1>0, <1>idle, <1>same, QuietStep
  <1>11. ASSUME NEW w \in Workers, RewriteMenu(w)
         PROVE  NumberingInv'
    <2>1. Becomes(w, Idle) /\ UNCHANGED <<app, releases>>
      BY <1>11 DEF RewriteMenu
    <2>2. QED
      BY <2>1, <1>0, <1>idle, <1>same, QuietStep
  <1>12. ASSUME NEW w \in Workers, DeleteMenu(w)
         PROVE  NumberingInv'
    <2>1. Becomes(w, Idle) /\ UNCHANGED <<app, releases>>
      BY <1>12 DEF DeleteMenu
    <2>2. QED
      BY <2>1, <1>0, <1>idle, <1>same, QuietStep
  <1>13. ASSUME NEW w \in Workers, ReadForPublish(w)
         PROVE  NumberingInv'
    <2>1. session[w].app \in Apps
      BY <1>0, <1>13, SessionFields DEF ReadForPublish
    <2>2. PICK s : Becomes(w, s) /\ s.pc = "publish" /\ s.app = session[w].app
                   /\ s.number = app[s.app].published + 1
      BY <1>13 DEF ReadForPublish, NextNumber
    <2>3. s \in Session
      BY <2>2, <1>0 DEF Becomes, TypeOK
    <2>4. UNCHANGED <<app, releases>>
      BY <1>13 DEF ReadForPublish
    <2>5. s.number \in 1 .. (app'[s.app].published + 1)
      BY <2>1, <2>2, <2>4, <1>0 DEF AppRow
    <2>6. QED
      BY <2>2, <2>3, <2>4, <2>5, <1>0, <1>same, QuietStep
  <1>14. ASSUME NEW w \in Workers, ValidateDraft(w)
         PROVE  NumberingInv'
    <2>1. session[w].number \in 1 .. (app[session[w].app].published + 1)
      BY <1>0, <1>14 DEF ValidateDraft, NumbersRead
    <2>2. PICK s : Becomes(w, s) /\ s.pc = "commit" /\ s.app = session[w].app
                   /\ s.number = session[w].number
      BY <1>14 DEF ValidateDraft
    <2>3. s \in Session
      BY <2>2, <1>0 DEF Becomes, TypeOK
    <2>4. UNCHANGED <<app, releases>>
      BY <1>14 DEF ValidateDraft
    <2>5. QED
      BY <2>1, <2>2, <2>3, <2>4, <1>0, <1>same, QuietStep
  <1>15. ASSUME NEW w \in Workers, CommitRelease(w)
         PROVE  NumberingInv'
    <2> DEFINE a == session[w].app
               n == session[w].number
    <2>1. a \in Apps /\ n = app[a].published + 1 /\ app[a].published \in Nat
      <3>1. a \in Apps
        BY <1>0, <1>15, SessionFields DEF CommitRelease
      <3>2. QED
        BY <3>1, <1>0, <1>15, CommitTakesNextNumber DEF AppRow
    <2>2. /\ app' = [app EXCEPT ![a].version = @ + 1, ![a].published = n]
          /\ ~ \E r \in releases : r.app = a /\ r.number = n
          /\ releases' = releases
               \cup {[app |-> a, number |-> n, items |-> session[w].items]}
          /\ Exists(a) /\ Becomes(w, [pc |-> "unlock", app |-> a])
      BY <1>15 DEF CommitRelease, CreateRelease, AtVersion
    <2> HIDE DEF a, n
    <2>3. \A b \in Apps : app'[b].published = IF b = a THEN n ELSE app[b].published
      BY <2>1, <2>2, <1>0 DEF AppRow
    <2>4. ASSUME NEW b \in Apps
          PROVE  {r.number : r \in {q \in releases' : q.app = b}}
                   = 1 .. app'[b].published
      <3>1. {r.number : r \in {q \in releases : q.app = b}} = 1 .. app[b].published
        BY <1>0 DEF ReleaseNumbering
      <3>2. CASE b = a
        <4>1. {r.number : r \in {q \in releases' : q.app = b}}
                = {r.number : r \in {q \in releases : q.app = b}} \cup {n}
          <5> DEFINE new == [app |-> a, number |-> n, items |-> session[w].items]
          <5>1. new.app = b /\ new.number = n
            BY <3>2
          <5>2. releases' = releases \cup {new}
            BY <2>2
          <5> HIDE DEF new
          <5>3. QED
            BY <5>1, <5>2
        <4>2. (1 .. app[a].published) \cup {n} = 1 .. n
          BY <2>1
        <4>3. QED
          BY <3>1, <3>2, <4>1, <4>2, <2>3
      <3>3. CASE b # a
        <4>1. {q \in releases' : q.app = b} = {q \in releases : q.app = b}
          BY <3>3, <2>2
        <4>2. QED
          BY <3>1, <3>3, <4>1, <2>3
      <3>4. QED
        BY <3>2, <3>3
    <2>5. ReleaseNumbering'
      BY <2>2, <2>4, <1>0 DEF ReleaseNumbering
    <2>6. NumbersRead'
      <3>1. \A b \in Apps : app[b].published <= app'[b].published
        BY <2>1, <2>3, <1>0 DEF AppRow
      <3>2. [pc |-> "unlock", app |-> a] \in Session
        BY <2>1 DEF Session
      <3>3. QED
        BY <3>1, <3>2, <2>2, <1>0, NumbersKept
    <2>7. UnbornUnpublished'
      BY <2>1, <2>2, <1>0 DEF UnbornUnpublished, Exists, AppRow
    <2>8. QED
      BY <2>5, <2>6, <2>7 DEF NumberingInv
  <1>16. ASSUME NEW w \in Workers, Unlock(w)
         PROVE  NumberingInv'
    <2>1. Becomes(w, Idle) /\ UNCHANGED <<app, releases>>
      BY <1>16 DEF Unlock
    <2>2. QED
      BY <2>1, <1>0, <1>idle, <1>same, QuietStep
  <1>17. ASSUME NEW w \in Workers, ServeNavigation(w)
         PROVE  NumberingInv'
    <2>1. Becomes(w, Idle) /\ UNCHANGED <<app, releases>>
      BY <1>17 DEF ServeNavigation
    <2>2. QED
      BY <2>1, <1>0, <1>idle, <1>same, QuietStep
  <1>18. ASSUME NEW w \in Workers, Abort(w)
         PROVE  NumberingInv'
    <2>1. PICK s : Becomes(w, s) /\ s.pc \in {"idle", "unlock"}
      BY <1>18 DEF Abort, Idle
    <2>2. s \in Session
      BY <2>1, <1>0 DEF Becomes, TypeOK
    <2>3. UNCHANGED <<app, releases>>
      BY <1>18 DEF Abort
    <2>4. QED
      BY <2>1, <2>2, <2>3, <1>0, <1>same, QuietStep
  <1>19. ASSUME NEW w \in Workers, Crash(w)
         PROVE  NumberingInv'
    <2>1. Becomes(w, Idle) /\ UNCHANGED <<app, releases>>
      BY <1>19 DEF Crash
    <2>2. QED
      BY <2>1, <1>0, <1>idle, <1>same, QuietStep
  <1>20. CASE UNCHANGED vars
    BY <1>0, <1>20 DEF vars, ReleaseNumbering, NumbersRead, UnbornUnpublished,
                       Exists, NumberingInv
  <1>21. QED
    BY <1>1, <1>2, <1>3, <1>4, <1>5, <1>6, <1>7, <1>8, <1>9, <1>10, <1>11, <1>12,
       <1>13, <1>14, <1>15, <1>16, <1>17, <1>18, <1>19, <1>20
       DEF Next, Request, Step

(* NumberingInv is an invariant, on the types.                             *)
LEMMA NumberingInvariant == Spec => [](TypeOK /\ NumberingInv)
  BY InitTypeOK, NextTypeOK, InitNumbering, NextNumbering, PTL DEF Spec

(* The releases of an application are numbered 1 .. published_release      *)
(* without gap or repetition: UNIQUE(application_id, release_number) and   *)
(* the monotone published_release suffice, whatever the leases do.         *)
THEOREM NumberingCorrect == Spec => []ReleaseNumbering
  BY NumberingInvariant, PTL DEF NumberingInv

(* A reader that has seen published_release = n finds release n.           *)
THEOREM NavigationCorrect == Spec => []NavigationFindsRelease
  <1>1. TypeOK /\ NumberingInv => NavigationFindsRelease
    <2> SUFFICES ASSUME TypeOK, NumberingInv, NEW w \in Workers,
                        session[w].pc = "navigate"
                 PROVE  \E r \in releases : /\ r.app = session[w].app
                                            /\ r.number = session[w].number
      BY DEF NavigationFindsRelease
    <2>1. session[w].app \in Apps
      BY SessionFields DEF TypeOK
    <2>2. session[w].number \in 1 .. app[session[w].app].published
      BY DEF NumberingInv, NumbersRead
    <2>3. session[w].number \in
            {r.number : r \in {q \in releases : q.app = session[w].app}}
      BY <2>1, <2>2 DEF NumberingInv, ReleaseNumbering
    <2>4. QED
      BY <2>3
  <1>2. QED
    BY <1>1, NumberingInvariant, PTL

-----------------------------------------------------------------------------
(***************************************************************************)
(* Well-formed releases.  The items a commit inserts are the ones its own  *)
(* handler validated, whatever has happened to the draft since.            *)
(***************************************************************************)
ValidatedCommits ==
  \A w \in Workers : session[w].pc = "commit" =>
    session[w].items # {} /\ WellFormed(session[w].items)

WellFormedInv == ReleaseWellFormed /\ ValidatedCommits

(* A worker that moves to a session that is no commit, or a commit of      *)
(* validated items, keeps ValidatedCommits.                                *)
LEMMA CommitsKept ==
  ASSUME TypeOK, ValidatedCommits, NEW w \in Workers, NEW s, Becomes(w, s),
         s.pc = "commit" => s.items # {} /\ WellFormed(s.items)
  PROVE  ValidatedCommits'
  <1> SUFFICES ASSUME NEW v \in Workers, session'[v].pc = "commit"
               PROVE  session'[v].items # {} /\ WellFormed(session'[v].items)
    BY DEF ValidatedCommits, WellFormed, validateMenuTree, validateMenuRoutes
  <1>1. session'[v] = IF v = w THEN s ELSE session[v]
    BY DEF TypeOK, Becomes
  <1>2. CASE v = w
    BY <1>1, <1>2
  <1>3. CASE v # w
    BY <1>1, <1>3 DEF ValidatedCommits
  <1>4. QED
    BY <1>2, <1>3

LEMMA NextWellFormed == TypeOK /\ WellFormedInv /\ [Next]_vars => WellFormedInv'
  <1> SUFFICES ASSUME TypeOK, WellFormedInv, [Next]_vars PROVE WellFormedInv'
    OBVIOUS
  <1>0. ReleaseWellFormed /\ ValidatedCommits
    BY DEF WellFormedInv
  <1>1. ASSUME NEW w \in Workers, ValidateDraft(w)
        PROVE  WellFormedInv'
    <2>1. PICK s : Becomes(w, s) /\ s.items # {} /\ WellFormed(s.items)
      BY <1>1 DEF ValidateDraft, Publishable, WellFormed
    <2>2. ValidatedCommits'
      BY <2>1, <1>0, CommitsKept
    <2>3. releases' = releases
      BY <1>1 DEF ValidateDraft
    <2>4. QED
      BY <2>2, <2>3, <1>0 DEF ReleaseWellFormed, WellFormedInv
  <1>2. ASSUME NEW w \in Workers, CommitRelease(w)
        PROVE  WellFormedInv'
    <2>1. session[w].items # {} /\ WellFormed(session[w].items)
      BY <1>0, <1>2 DEF CommitRelease, ValidatedCommits
    <2>2. PICK s : Becomes(w, s) /\ s.pc = "unlock"
      BY <1>2 DEF CommitRelease
    <2>3. ValidatedCommits'
      BY <2>2, <1>0, CommitsKept
    <2>4. \A r \in releases' : r \in releases \/ r.items = session[w].items
      BY <1>2 DEF CommitRelease, CreateRelease
    <2>5. QED
      BY <2>1, <2>3, <2>4, <1>0 DEF ReleaseWellFormed, WellFormedInv
  <1>3. ASSUME NEW w \in Workers, NEW s, Becomes(w, s), s.pc # "commit",
               UNCHANGED releases
        PROVE  WellFormedInv'
    <2>1. ValidatedCommits'
      BY <1>3, <1>0, CommitsKept
    <2>2. QED
      BY <2>1, <1>3, <1>0 DEF ReleaseWellFormed, WellFormedInv
  <1>4. ASSUME UNCHANGED <<releases, session>>
        PROVE  WellFormedInv'
    BY <1>4, <1>0 DEF ReleaseWellFormed, ValidatedCommits, WellFormedInv
  <1>5. ASSUME NEW w \in Workers, Request(w)
        PROVE  WellFormedInv'
    <2> DEFINE Reads == UNCHANGED releases /\ \E s : Becomes(w, s) /\ s.pc # "commit"
    <2>1. ASSUME NEW a \in Apps, NEW route \in DefaultRoutes,
                 ReadForUpdate(w, a, route)
          PROVE  Reads
      BY <2>1 DEF ReadForUpdate
    <2>2. ASSUME NEW a \in Apps, NEW d \in Draft, NEW named \in Menus \cup {NoMenu},
                 ValidateInsert(w, a, d, named)
          PROVE  Reads
      BY <2>2 DEF ValidateInsert
    <2>3. ASSUME NEW a \in Apps, NEW d \in Draft, NEW id \in Menus,
                 ValidateRewrite(w, a, id, d)
          PROVE  Reads
      BY <2>3 DEF ValidateRewrite
    <2>4. ASSUME NEW id \in Menus, CheckDelete(w, id)
          PROVE  Reads
      BY <2>4 DEF CheckDelete
    <2>5. ASSUME NEW a \in Apps, TryPublishLock(w, a)
          PROVE  Reads
      BY <2>5 DEF TryPublishLock
    <2>6. ASSUME NEW a \in Apps, ReadForNavigation(w, a)
          PROVE  Reads
      BY <2>6 DEF ReadForNavigation
    <2>7. Reads
      BY <1>5, <2>1, <2>2, <2>3, <2>4, <2>5, <2>6 DEF Request
    <2>8. QED
      BY <2>7, <1>3
  <1>6. ASSUME NEW w \in Workers,
               \/ UpdateApplication(w) \/ InsertMenu(w) \/ RewriteMenu(w)
               \/ DeleteMenu(w) \/ ReadForPublish(w) \/ Unlock(w)
               \/ ServeNavigation(w) \/ Abort(w) \/ Crash(w)
        PROVE  WellFormedInv'
    <2>1. UNCHANGED releases /\ \E s : Becomes(w, s) /\ s.pc # "commit"
      BY <1>6 DEF UpdateApplication, InsertMenu, RewriteMenu, DeleteMenu,
                  ReadForPublish, Unlock, ServeNavigation, Abort, Crash, Idle
    <2>2. QED
      BY <2>1, <1>3
  <1>7. ASSUME NEW a \in Apps,
               \/ LeaseExpires(a)
               \/ \E route \in DefaultRoutes : CreateApplication(a, route)
        PROVE  WellFormedInv'
    BY <1>7, <1>4 DEF LeaseExpires, CreateApplication
  <1>8. CASE UNCHANGED vars
    BY <1>8, <1>4 DEF vars
  <1>9. QED
    BY <1>1, <1>2, <1>5, <1>6, <1>7, <1>8 DEF Next, Step

(* Every release is a non-empty forest of menus with one menu per route,   *)
(* for any interleaving of upserts, deletes and publications.              *)
THEOREM WellFormedCorrect == Spec => []ReleaseWellFormed
  <1>1. Init => WellFormedInv
    BY DEF Init, Idle, WellFormedInv, ReleaseWellFormed, ValidatedCommits
  <1>2. WellFormedInv => ReleaseWellFormed
    BY DEF WellFormedInv
  <1>3. QED
    BY InitTypeOK, NextTypeOK, <1>1, <1>2, NextWellFormed, PTL DEF Spec

(* No step changes or drops a release.                                     *)
THEOREM Immutable == Spec => ReleasesImmutable
  <1>1. [Next]_vars => [releases \subseteq releases']_vars
    <2> SUFFICES ASSUME Next PROVE releases \subseteq releases'
      OBVIOUS
    <2>1. ASSUME NEW w \in Workers, Request(w)
          PROVE  releases \subseteq releases'
      BY <2>1 DEF Request, ReadForUpdate, ValidateInsert, ValidateRewrite,
                  CheckDelete, TryPublishLock, ReadForNavigation
    <2>2. ASSUME NEW w \in Workers, CommitRelease(w)
          PROVE  releases \subseteq releases'
      BY <2>2 DEF CommitRelease, CreateRelease
    <2>3. ASSUME NEW w \in Workers, Step(w) \/ Crash(w), ~ CommitRelease(w)
          PROVE  releases \subseteq releases'
      BY <2>3 DEF Step, UpdateApplication, InsertMenu, RewriteMenu, DeleteMenu,
                  ReadForPublish, ValidateDraft, Unlock, ServeNavigation, Abort,
                  Crash
    <2>4. ASSUME NEW a \in Apps,
                 \/ LeaseExpires(a)
                 \/ \E route \in DefaultRoutes : CreateApplication(a, route)
          PROVE  releases \subseteq releases'
      BY <2>4 DEF CreateApplication, LeaseExpires
    <2>5. QED
      BY <2>1, <2>2, <2>3, <2>4 DEF Next
  <1>2. QED
    BY <1>1, PTL DEF Spec, ReleasesImmutable

-----------------------------------------------------------------------------
(***************************************************************************)
(* The refinement of ReleaseLog.  A commit appends to the log of its       *)
(* application, since its number is the next one, and every other step     *)
(* leaves all logs alone.                                                  *)
(***************************************************************************)
ItemsOf(a, n) == Released(a, n).items
ReleasedLog == [a \in Apps |-> [n \in 1 .. app[a].published |-> ItemsOf(a, n)]]

(* A number that a release has names such a release.                       *)
LEMMA NumberedRelease ==
  ASSUME NEW R, NEW a, NEW n, n \in {r.number : r \in {q \in R : q.app = a}}
  PROVE  LET x == CHOOSE r \in R : r.app = a /\ r.number = n
         IN  x \in R /\ x.app = a /\ x.number = n
  <1>1. \E r \in R : r.app = a /\ r.number = n
    OBVIOUS
  <1>2. QED
    BY <1>1

LEMMA LogTyped ==
  ASSUME TypeOK, ReleaseNumbering, NEW a \in Apps
  PROVE  /\ ReleasedLog[a] \in Seq(SUBSET MenuItem)
         /\ Len(ReleasedLog[a]) = app[a].published
         /\ app[a].published \in Nat
  <1>1. app[a].published \in Nat
    BY DEF TypeOK, AppRow
  <1>2. \A n \in 1 .. app[a].published : Released(a, n) \in releases
    BY NumberedRelease DEF ReleaseNumbering, Released
  <1>3. \A n \in 1 .. app[a].published : ItemsOf(a, n) \in SUBSET MenuItem
    BY <1>2 DEF TypeOK, Release, ItemsOf
  <1>4. ReleasedLog[a] = [n \in 1 .. app[a].published |-> ItemsOf(a, n)]
    BY DEF ReleasedLog
  <1>5. ReleasedLog[a] \in [1 .. app[a].published -> SUBSET MenuItem]
    BY <1>3, <1>4
  <1>6. QED
    BY <1>1, <1>5

(* A step that keeps the releases and every published_release.             *)
LEMMA LogKept ==
  ASSUME UNCHANGED releases, \A a \in Apps : app'[a].published = app[a].published
  PROVE  ReleasedLog' = ReleasedLog
  BY DEF ReleasedLog, ItemsOf, Released

(* A sequence one longer is an Append.                                     *)
LEMMA OneLonger ==
  ASSUME NEW S, NEW s \in Seq(S), NEW x \in S, NEW f, NEW n \in Nat, n = Len(s) + 1,
         f \in [1 .. n -> S], f[n] = x,
         \A i \in 1 .. Len(s) : f[i] = s[i]
  PROVE  f = Append(s, x)
  <1> DEFINE t == Append(s, x)
  <1>1. /\ t \in Seq(S) /\ Len(t) = n /\ t[n] = x
        /\ \A i \in 1 .. Len(s) : t[i] = s[i]
    BY AppendProperties
  <1>2. t = [i \in 1 .. n |-> t[i]]
    <2> HIDE DEF t
    <2>1. QED BY <1>1
  <1>3. \A i \in 1 .. n : i = n \/ i \in 1 .. Len(s)
    OBVIOUS
  <1>4. \A i \in 1 .. n : t[i] = f[i]
    BY <1>1, <1>3
  <1> HIDE DEF t
  <1>5. t = f
    BY <1>2, <1>4
  <1>6. QED
    BY <1>5 DEF t

LEMMA LogGrows ==
  ASSUME TypeOK, TypeOK', NumberingInv, NumberingInv', WellFormedInv,
         NEW w \in Workers, CommitRelease(w)
  PROVE  \E a \in Apps : \E items \in SUBSET MenuItem :
           /\ items # {} /\ WellFormed(items)
           /\ ReleasedLog' = [ReleasedLog EXCEPT ![a] = Append(@, items)]
  <1>1. session[w].app \in Apps /\ session[w].items \in SUBSET MenuItem
    BY SessionFields DEF TypeOK, CommitRelease
  <1>2. PICK a \in Apps, items \in SUBSET MenuItem :
          a = session[w].app /\ items = session[w].items
    BY <1>1
  <1>3. PICK n \in Nat : n = session[w].number /\ n = app[a].published + 1
    BY <1>2, CommitTakesNextNumber DEF TypeOK, AppRow
  <1>4. items # {} /\ WellFormed(items)
    BY <1>2 DEF WellFormedInv, ValidatedCommits, CommitRelease
  <1>5. PICK new : new = [app |-> a, number |-> n, items |-> items]
    OBVIOUS
  <1>6. new.app = a /\ new.number = n /\ new.items = items
    BY <1>5
  <1>7. /\ \A b \in Apps : app'[b].published = IF b = a THEN n ELSE app[b].published
        /\ releases' = releases \cup {new}
    BY <1>2, <1>3, <1>5 DEF CommitRelease, CreateRelease, TypeOK, AppRow
  <1>8. ReleaseNumbering /\ ReleaseNumbering'
    BY DEF NumberingInv
  <1>9. \A b \in Apps : app[b].published \in Nat
    BY DEF TypeOK, AppRow
  <1>10. ASSUME NEW b \in Apps, NEW m \in 1 .. app[b].published
         PROVE  Released(b, m)' = Released(b, m)
    <2>1. /\ Released(b, m) \in releases
          /\ Released(b, m).app = b /\ Released(b, m).number = m
      BY <1>8, NumberedRelease DEF ReleaseNumbering, Released
    <2>2. m \in 1 .. app'[b].published
      BY <1>3, <1>7, <1>9
    <2>3. m \in {r.number : r \in {q \in releases' : q.app = b}}
      BY <1>8, <2>2 DEF ReleaseNumbering
    <2>4. /\ Released(b, m)' \in releases'
          /\ Released(b, m)'.app = b /\ Released(b, m)'.number = m
      BY <2>3, NumberedRelease DEF Released
    <2>5. Released(b, m) \in releases'
      BY <2>1, <1>7
    <2>6. QED
      BY <2>1, <2>4, <2>5, <1>8 DEF ReleaseNumbering
  <1>11. Released(a, n)' = new
    <2>1. new \in releases' /\ n \in {r.number : r \in {q \in releases' : q.app = a}}
      BY <1>6, <1>7
    <2>2. /\ Released(a, n)' \in releases'
          /\ Released(a, n)'.app = a /\ Released(a, n)'.number = n
      BY <2>1, NumberedRelease DEF Released
    <2>3. QED
      BY <2>1, <2>2, <1>6, <1>8 DEF ReleaseNumbering
  <1>12. ReleasedLog'[a] = Append(ReleasedLog[a], items)
    <2>1. ReleasedLog[a] \in Seq(SUBSET MenuItem) /\ Len(ReleasedLog[a]) = app[a].published
      BY <1>8, LogTyped
    <2>2. ReleasedLog'[a] = [m \in 1 .. n |-> ItemsOf(a, m)']
      BY <1>7 DEF ReleasedLog
    <2>3. \A m \in 1 .. app[a].published : ItemsOf(a, m)' = ReleasedLog[a][m]
      BY <1>10 DEF ReleasedLog, ItemsOf
    <2>4. ItemsOf(a, n)' = items
      BY <1>6, <1>11 DEF ItemsOf
    <2>5. \A m \in 1 .. n : m = n \/ m \in 1 .. app[a].published
      BY <1>3, <1>9
    <2>6. n \in 1 .. n /\ \A m \in 1 .. app[a].published : m \in 1 .. n
      BY <1>3, <1>9
    <2>7. \A m \in 1 .. app[a].published : ReleasedLog[a][m] \in SUBSET MenuItem
      BY <2>1
    <2>8. \A m \in 1 .. n : ItemsOf(a, m)' \in SUBSET MenuItem
      BY <2>3, <2>4, <2>5, <2>7
    <2>9. /\ ReleasedLog'[a] \in [1 .. n -> SUBSET MenuItem] /\ ReleasedLog'[a][n] = items
          /\ \A m \in 1 .. app[a].published : ReleasedLog'[a][m] = ReleasedLog[a][m]
      BY <2>2, <2>3, <2>4, <2>6, <2>8
    <2>10. PICK s \in Seq(SUBSET MenuItem) : s = ReleasedLog[a]
      BY <2>1
    <2>11. PICK f : f = ReleasedLog'[a]
      OBVIOUS
    <2>12. /\ n = Len(s) + 1 /\ f \in [1 .. n -> SUBSET MenuItem] /\ f[n] = items
           /\ \A m \in 1 .. Len(s) : f[m] = s[m]
      BY <2>1, <2>9, <2>10, <2>11, <1>3
    <2>13. f = Append(s, items)
      BY <2>12, OneLonger
    <2>14. QED
      BY <2>10, <2>11, <2>13
  <1>13. ASSUME NEW b \in Apps, b # a
         PROVE  ReleasedLog'[b] = ReleasedLog[b]
    BY <1>7, <1>10, <1>13 DEF ReleasedLog, ItemsOf
  <1>14. ReleasedLog' = [ReleasedLog EXCEPT ![a] = Append(@, items)]
    <2>1. ReleasedLog = [b \in Apps |-> ReleasedLog[b]] /\ ReleasedLog' = [b \in Apps |-> ReleasedLog'[b]]
      BY DEF ReleasedLog
    <2>2. QED
      BY <1>12, <1>13, <2>1
  <1>15. QED
    BY <1>4, <1>14

(* ReleaseLog has the rules of MenuRules, as MenuPublication has.          *)
LEMMA RulesAgree ==
  /\ Log!MenuItem = MenuItem
  /\ \A items : Log!WellFormed(items) <=> WellFormed(items)
  <1>1. Log!MenuItem = MenuItem
    BY DEF Log!MenuItem, MenuItem, Log!Item, Item, Log!Draft, Draft, Log!AllPaths, AllPaths
  <1>2. \A S : Log!Cardinality(S) = Cardinality(S)
    BY DEF Log!Cardinality, Cardinality
  <1>3. \A items, m : Log!Chain(items, m) = Chain(items, m)
    BY <1>2 DEF Log!Chain, Chain, Log!Has, Has, Log!ItemOf, ItemOf
  <1>4. \A items : Log!validateMenuTree(items) = validateMenuTree(items)
    BY <1>2, <1>3 DEF Log!validateMenuTree, validateMenuTree
  <1>5. QED
    BY <1>1, <1>4 DEF Log!WellFormed, WellFormed, Log!validateMenuRoutes, validateMenuRoutes,
                      Log!isActiveRouteMenu, isActiveRouteMenu

LEMMA InitLog == Init => Log!Init
  <1> SUFFICES ASSUME Init PROVE Log!Init
    OBVIOUS
  <1>1. \A a \in Apps : app[a].published = 0
    BY DEF Init
  <1>2. \A a \in Apps : [n \in 1 .. app[a].published |-> Released(a, n).items] = <<>>
    BY <1>1
  <1>3. QED
    BY <1>2 DEF Log!Init

LEMMA CommitPublishes ==
  ASSUME TypeOK, TypeOK', NumberingInv, NumberingInv', WellFormedInv,
         NEW w \in Workers, CommitRelease(w)
  PROVE  Log!Next
  <1>1. PICK a \in Apps, items \in SUBSET MenuItem :
           /\ items # {} /\ WellFormed(items)
           /\ ReleasedLog' = [ReleasedLog EXCEPT ![a] = Append(@, items)]
    BY LogGrows
  <1> DEFINE n == Len(ReleasedLog[a]) + 1
  <1>2. ReleasedLog[a] \in Seq(SUBSET MenuItem)
    BY LogTyped DEF NumberingInv
  <1>3. ReleasedLog'[a] = Append(ReleasedLog[a], items)
    BY <1>1 DEF ReleasedLog
  <1>4. n \in DOMAIN ReleasedLog'[a] /\ ReleasedLog'[a][n] = items
    <2>1. PICK s \in Seq(SUBSET MenuItem) : s = ReleasedLog[a]
      BY <1>2
    <2>2. PICK t : t = Append(s, items)
      OBVIOUS
    <2>3. t \in Seq(SUBSET MenuItem) /\ Len(t) = Len(s) + 1 /\ t[Len(s) + 1] = items
      BY <2>2, AppendProperties
    <2>4. Len(s) + 1 \in DOMAIN t
      BY <2>3
    <2>5. QED
      BY <2>1, <2>2, <2>3, <2>4, <1>3
  <1>5. Log!Publish(a)
    BY <1>1, <1>3, <1>4, RulesAgree DEF Log!Publish, ReleasedLog, ItemsOf
  <1>6. QED
    BY <1>5 DEF Log!Next

LEMMA NextLog ==
  TypeOK /\ TypeOK' /\ NumberingInv /\ NumberingInv' /\ WellFormedInv /\ [Next]_vars
    => [Log!Next]_ReleasedLog
  <1> SUFFICES ASSUME TypeOK, TypeOK', NumberingInv, NumberingInv', WellFormedInv, [Next]_vars
               PROVE  Log!Next \/ ReleasedLog' = ReleasedLog
    OBVIOUS
  <1>0. app \in [Apps -> AppRow] /\ session \in [Workers -> Session]
    BY DEF TypeOK
  <1>1. ASSUME NEW w \in Workers, CommitRelease(w)
        PROVE  Log!Next
    BY <1>1, CommitPublishes
  <1>2. ASSUME NEW w \in Workers, UpdateApplication(w)
        PROVE  ReleasedLog' = ReleasedLog
    <2>1. session[w].app \in Apps
      BY <1>0, <1>2, SessionFields DEF UpdateApplication
    <2>2. \A a \in Apps : app'[a].published = app[a].published
      BY <2>1, <1>0, <1>2 DEF UpdateApplication, AppRow
    <2>3. QED
      BY <2>2, <1>2, LogKept DEF UpdateApplication
  <1>3. ASSUME NEW a \in Apps, NEW route \in DefaultRoutes, CreateApplication(a, route)
        PROVE  ReleasedLog' = ReleasedLog
    <2>1. app[a].published = 0
      BY <1>3 DEF CreateApplication, NumberingInv, UnbornUnpublished
    <2>2. \A b \in Apps : app'[b].published = app[b].published
      BY <2>1, <1>0, <1>3 DEF CreateApplication
    <2>3. QED
      BY <2>2, <1>3, LogKept DEF CreateApplication
  <1>4. ASSUME NEW w \in Workers, Request(w)
        PROVE  UNCHANGED <<app, releases>>
    BY <1>4 DEF Request, ReadForUpdate, ValidateInsert, ValidateRewrite,
                CheckDelete, TryPublishLock, ReadForNavigation
  <1>5. ASSUME NEW w \in Workers, Step(w) \/ Crash(w),
               ~ UpdateApplication(w), ~ CommitRelease(w)
        PROVE  UNCHANGED <<app, releases>>
    BY <1>5 DEF Step, InsertMenu, RewriteMenu, DeleteMenu, ReadForPublish,
                ValidateDraft, Unlock, ServeNavigation, Abort, Crash
  <1>6. ASSUME NEW a \in Apps, LeaseExpires(a)
        PROVE  UNCHANGED <<app, releases>>
    BY <1>6 DEF LeaseExpires
  <1>7. ASSUME UNCHANGED <<app, releases>>
        PROVE  ReleasedLog' = ReleasedLog
    BY <1>7, LogKept
  <1>8. CASE UNCHANGED vars
    BY <1>8, <1>7 DEF vars
  <1>9. QED
    BY <1>1, <1>2, <1>3, <1>4, <1>5, <1>6, <1>7, <1>8 DEF Next

(* Drafts, versions, leases and crashes implement an append-only log of    *)
(* well-formed releases per application.                                   *)
THEOREM ReleaseLogImplemented == Spec => ImplementsReleaseLog
  <1>1. Init => WellFormedInv
    BY DEF Init, Idle, WellFormedInv, ReleaseWellFormed, ValidatedCommits
  <1>2. Spec => [](TypeOK /\ NumberingInv /\ WellFormedInv)
    BY InitTypeOK, NextTypeOK, InitNumbering, NextNumbering, <1>1, NextWellFormed, PTL DEF Spec
  <1>3. [Log!Next]_ReleasedLog =>
          [Log!Next]_([a \in Apps |-> [n \in 1 .. app[a].published |-> Released(a, n).items]])
    BY DEF ReleasedLog, ItemsOf
  <1>4. QED
    BY <1>2, <1>3, InitLog, NextLog, PTL DEF Spec, ImplementsReleaseLog, Log!Spec

-----------------------------------------------------------------------------
(***************************************************************************)
(* Events.  A transaction counts as one event only if its event is not in  *)
(* the outbox yet.  A creation finds no event of its application, since it *)
(* finds version 0; an update announces a version above all announced; a   *)
(* publication announces the number it takes, the next one.                *)
(***************************************************************************)
AnnouncedBefore ==
  \A e \in outbox :
    /\ e.kind = "updated" => e.version <= app[e.app].version
    /\ e.kind = "published" => e.release <= app[e.app].published

EventInv == IsFiniteSet(outbox) /\ EveryVersionHasItsEvent /\ AnnouncedBefore

LEMMA InitEvents == Init => EventInv
  BY FS_EmptySet DEF Init, EventInv, EveryVersionHasItsEvent, EventsOf, AnnouncedBefore

(* A transaction of application a whose event is new.                      *)
LEMMA EventStep ==
  ASSUME TypeOK, EventInv, app' \in [Apps -> AppRow], NEW a \in Apps,
         NEW e \in Event, e.app = a, e \notin outbox, outbox' = outbox \cup {e},
         \A b \in Apps : b # a => app'[b] = app[b],
         app'[a].version = app[a].version + 1,
         app'[a].published = IF e.kind = "published" THEN app[a].published + 1
                                                     ELSE app[a].published,
         e.kind = "updated" => e.version <= app'[a].version,
         e.kind = "published" => e.release <= app'[a].published
  PROVE  EventInv'
  <1>0. /\ app \in [Apps -> AppRow] /\ outbox \subseteq Event
        /\ IsFiniteSet(outbox) /\ EveryVersionHasItsEvent /\ AnnouncedBefore
    BY DEF TypeOK, EventInv
  <1>1. IsFiniteSet(outbox')
    BY <1>0, FS_AddElement
  <1>2. ASSUME NEW b \in Apps
        PROVE  /\ app'[b].version = Cardinality({x \in outbox' : x.app = b})
               /\ app'[b].published = Cardinality({x \in outbox' : x.app = b /\ x.kind = "published"})
    <2> DEFINE E == {x \in outbox : x.app = b}
               P == {x \in outbox : x.app = b /\ x.kind = "published"}
    <2>1. app[b].version = Cardinality(E) /\ app[b].published = Cardinality(P)
      BY <1>0 DEF EveryVersionHasItsEvent, EventsOf
    <2>2. IsFiniteSet(E) /\ IsFiniteSet(P) /\ e \notin E /\ e \notin P
      BY <1>0, FS_Subset
    <2>3. /\ {x \in outbox' : x.app = b} = IF b = a THEN E \cup {e} ELSE E
          /\ {x \in outbox' : x.app = b /\ x.kind = "published"}
               = IF b = a /\ e.kind = "published" THEN P \cup {e} ELSE P
      OBVIOUS
    <2> HIDE DEF E, P
    <2>4. /\ Cardinality(E \cup {e}) = Cardinality(E) + 1
          /\ Cardinality(P \cup {e}) = Cardinality(P) + 1
      BY <2>2, FS_AddElement
    <2>5. QED
      BY <2>1, <2>3, <2>4
  <1>3. EveryVersionHasItsEvent'
    BY <1>2 DEF EveryVersionHasItsEvent, EventsOf
  <1>4. AnnouncedBefore'
    <2> SUFFICES ASSUME NEW x \in outbox'
                 PROVE  /\ x.kind = "updated" => x.version <= app'[x.app].version
                        /\ x.kind = "published" => x.release <= app'[x.app].published
      BY DEF AnnouncedBefore
    <2>1. CASE x = e
      BY <2>1
    <2>2. CASE x # e
      <3>1. x \in outbox /\ x \in Event
        BY <2>2, <1>0
      <3>2. x.app \in Apps /\ x.version \in Nat /\ x.release \in Nat
        BY <3>1 DEF Event
      <3>3. /\ app[x.app].version \in Nat /\ app[x.app].published \in Nat
            /\ app'[x.app].version >= app[x.app].version
            /\ app'[x.app].published >= app[x.app].published
        BY <3>2, <1>0 DEF AppRow
      <3>4. /\ x.kind = "updated" => x.version <= app[x.app].version
            /\ x.kind = "published" => x.release <= app[x.app].published
        BY <3>1, <1>0 DEF AnnouncedBefore
      <3>5. app'[x.app].version \in Nat /\ app'[x.app].published \in Nat
        BY <3>2 DEF AppRow
      <3>6. QED
        BY <3>2, <3>3, <3>4, <3>5
    <2>3. QED
      BY <2>1, <2>2
  <1>5. QED
    BY <1>1, <1>3, <1>4 DEF EventInv

LEMMA NextEvents ==
  TypeOK /\ TypeOK' /\ NumberingInv /\ EventInv /\ [Next]_vars => EventInv'
  <1> SUFFICES ASSUME TypeOK, TypeOK', NumberingInv, EventInv, [Next]_vars
               PROVE  EventInv'
    OBVIOUS
  <1>0. /\ app \in [Apps -> AppRow] /\ app' \in [Apps -> AppRow]
        /\ outbox \subseteq Event /\ session \in [Workers -> Session]
        /\ IsFiniteSet(outbox) /\ EveryVersionHasItsEvent /\ AnnouncedBefore
    BY DEF TypeOK, EventInv
  <1>1. ASSUME NEW a \in Apps, NEW route \in DefaultRoutes,
               CreateApplication(a, route)
        PROVE  EventInv'
    <2> DEFINE e == [kind |-> "created", app |-> a, version |-> 1, release |-> 0]
    <2>1. e \in Event /\ e.app = a /\ e.kind = "created"
      BY DEF Event
    <2>2. app[a].version = 0 /\ app[a].published = 0
      BY <1>0, <1>1 DEF CreateApplication, Exists, NumberingInv, UnbornUnpublished, AppRow
    <2>3. {x \in outbox : x.app = a} = {}
      <3>1. Cardinality({x \in outbox : x.app = a}) = 0
        BY <2>2, <1>0 DEF EveryVersionHasItsEvent
      <3>2. IsFiniteSet({x \in outbox : x.app = a})
        BY <1>0, FS_Subset
      <3>3. QED
        BY <3>1, <3>2, FS_EmptySet
    <2>4. e \notin outbox
      BY <2>1, <2>3
    <2>5. outbox' = outbox \cup {e}
      BY <1>1 DEF CreateApplication, AddEvent
    <2>6. /\ \A b \in Apps : b # a => app'[b] = app[b]
          /\ app'[a].version = 1 /\ app'[a].published = 0
      BY <1>0, <1>1 DEF CreateApplication
    <2> HIDE DEF e
    <2>7. QED
      BY <2>1, <2>2, <2>4, <2>5, <2>6, <1>0, EventStep
  <1>2. ASSUME NEW w \in Workers, UpdateApplication(w)
        PROVE  EventInv'
    <2> DEFINE a == session[w].app
               e == [kind |-> "updated", app |-> a, version |-> session[w].expected + 1,
                     release |-> session[w].published]
    <2>1. a \in Apps /\ session[w].expected \in Nat /\ session[w].published \in Nat
      BY <1>0, <1>2, SessionFields DEF UpdateApplication
    <2>2. app[a].version = session[w].expected
      BY <1>2 DEF UpdateApplication, AtVersion
    <2>3. /\ e \in Event /\ e.app = a /\ e.kind = "updated"
          /\ e.version = app[a].version + 1
      BY <2>1, <2>2 DEF Event
    <2>4. outbox' = outbox \cup {e}
      BY <1>2 DEF UpdateApplication, AddEvent
    <2>5. /\ \A b \in Apps : b # a => app'[b] = app[b]
          /\ app'[a].version = app[a].version + 1 /\ app'[a].published = app[a].published
      BY <2>1, <1>0, <1>2 DEF UpdateApplication, AppRow
    <2> HIDE DEF e, a
    <2>6. app[a].version \in Nat
      BY <2>1, <1>0 DEF AppRow
    <2>7. e \notin outbox
      BY <2>3, <2>6, <1>0 DEF AnnouncedBefore
    <2>8. QED
      BY <2>1, <2>3, <2>4, <2>5, <2>6, <2>7, <1>0, EventStep
  <1>3. ASSUME NEW w \in Workers, CommitRelease(w)
        PROVE  EventInv'
    <2> DEFINE a == session[w].app
               e == [kind |-> "published", app |-> a, version |-> 1,
                     release |-> session[w].number]
    <2>1. a \in Apps /\ session[w].number \in Nat
      BY <1>0, <1>3, SessionFields DEF CommitRelease
    <2>2. session[w].number = app[a].published + 1
      BY <1>3, CommitTakesNextNumber
    <2>3. /\ e \in Event /\ e.app = a /\ e.kind = "published"
          /\ e.release = app[a].published + 1
      BY <2>1, <2>2 DEF Event
    <2>4. outbox' = outbox \cup {e}
      BY <1>3 DEF CommitRelease, AddEvent
    <2>5. /\ \A b \in Apps : b # a => app'[b] = app[b]
          /\ app'[a].version = app[a].version + 1
          /\ app'[a].published = app[a].published + 1
      BY <2>1, <2>2, <1>0, <1>3 DEF CommitRelease, AppRow
    <2> HIDE DEF e, a
    <2>6. app[a].published \in Nat
      BY <2>1, <1>0 DEF AppRow
    <2>7. e \notin outbox
      BY <2>3, <2>6, <1>0 DEF AnnouncedBefore
    <2>8. QED
      BY <2>1, <2>3, <2>4, <2>5, <2>6, <2>7, <1>0, EventStep
  <1>4. ASSUME UNCHANGED <<app, outbox>>
        PROVE  EventInv'
    BY <1>4, <1>0 DEF EventInv, EveryVersionHasItsEvent, EventsOf, AnnouncedBefore
  <1>5. ASSUME NEW w \in Workers, Request(w)
        PROVE  UNCHANGED <<app, outbox>>
    BY <1>5 DEF Request, ReadForUpdate, ValidateInsert, ValidateRewrite,
                CheckDelete, TryPublishLock, ReadForNavigation
  <1>6. ASSUME NEW w \in Workers, Step(w) \/ Crash(w),
               ~ UpdateApplication(w), ~ CommitRelease(w)
        PROVE  UNCHANGED <<app, outbox>>
    BY <1>6 DEF Step, InsertMenu, RewriteMenu, DeleteMenu, ReadForPublish,
                ValidateDraft, Unlock, ServeNavigation, Abort, Crash
  <1>7. ASSUME NEW a \in Apps, LeaseExpires(a)
        PROVE  UNCHANGED <<app, outbox>>
    BY <1>7 DEF LeaseExpires
  <1>8. CASE UNCHANGED vars
    BY <1>8, <1>4 DEF vars
  <1>9. QED
    BY <1>1, <1>2, <1>3, <1>4, <1>5, <1>6, <1>7, <1>8 DEF Next

(* Every version of an application has exactly one event, a publication's  *)
(* among them: no write that loses leaves one, and none that wins lacks it.*)
THEOREM EventsCorrect == Spec => []EveryVersionHasItsEvent
  <1>1. EventInv => EveryVersionHasItsEvent
    BY DEF EventInv
  <1>2. QED
    BY InitTypeOK, NextTypeOK, InitNumbering, NextNumbering, InitEvents, NextEvents,
       <1>1, PTL DEF Spec

-----------------------------------------------------------------------------
(***************************************************************************)
(* Clients that send only versions they have read (Lookahead = 0).  When a *)
(* transaction finds the version its client named, nothing has changed the *)
(* row since that client's read, nor since the later one of the handler.   *)
(***************************************************************************)
SoundRead(s) ==
  /\ s.pc \in {"update", "locked", "publish", "commit"} =>
       s.expected <= app[s.app].version
  /\ s.pc = "update" /\ s.expected = app[s.app].version =>
       s.published = app[s.app].published
  /\ s.pc = "publish" /\ s.expected = app[s.app].version =>
       s.route = app[s.app].route
  /\ s.pc = "commit" /\ s.expected = app[s.app].version =>
       validateDefaultRoute(app[s.app].route, s.items)

SoundReads == \A w \in Workers : SoundRead(session[w])

(* A row that changes has a new, higher version.                           *)
RowsMoveOn ==
  \A a \in Apps : /\ app'[a].version >= app[a].version
                  /\ app'[a].version = app[a].version => app'[a] = app[a]

LEMMA SoundReadKept ==
  ASSUME TypeOK, TypeOK', RowsMoveOn, NEW s \in Session, SoundRead(s)
  PROVE  SoundRead(s)'
  <1>1. CASE s.pc \notin {"update", "locked", "publish", "commit"}
    BY <1>1 DEF SoundRead
  <1>2. CASE s.pc \in {"update", "locked", "publish", "commit"}
    <2>1. s.app \in Apps /\ s.expected \in Nat
      BY <1>2, SessionFields
    <2>2. app[s.app].version \in Nat /\ app'[s.app].version \in Nat
      BY <2>1 DEF TypeOK, AppRow
    <2>3. s.expected <= app[s.app].version
      BY <1>2 DEF SoundRead
    <2>4. s.expected <= app'[s.app].version
      BY <2>1, <2>2, <2>3 DEF RowsMoveOn
    <2>5. s.expected = app'[s.app].version =>
            s.expected = app[s.app].version /\ app'[s.app] = app[s.app]
      BY <2>1, <2>2, <2>3 DEF RowsMoveOn
    <2>6. QED
      BY <2>4, <2>5 DEF SoundRead
  <1>3. QED
    BY <1>1, <1>2

LEMMA SoundReadsKept ==
  ASSUME TypeOK, TypeOK', SoundReads, RowsMoveOn,
         NEW w \in Workers, NEW s \in Session, Becomes(w, s), SoundRead(s)'
  PROVE  SoundReads'
  <1> SUFFICES ASSUME NEW v \in Workers PROVE SoundRead(session[v])'
    BY DEF SoundReads
  <1>1. session'[v] = IF v = w THEN s ELSE session[v]
    BY DEF TypeOK, Becomes
  <1>2. CASE v = w
    BY <1>1, <1>2 DEF SoundRead
  <1>3. CASE v # w
    <2>1. PICK t \in Session : t = session[v]
      BY DEF TypeOK
    <2>2. SoundRead(t)
      BY <2>1 DEF SoundReads
    <2>3. SoundRead(t)'
      BY <2>2, SoundReadKept
    <2>4. QED
      BY <1>1, <1>3, <2>1, <2>3 DEF SoundRead
  <1>4. QED
    BY <1>2, <1>3

LEMMA NextRowsMoveOn == TypeOK /\ [Next]_vars => RowsMoveOn
  <1> SUFFICES ASSUME TypeOK, [Next]_vars PROVE RowsMoveOn
    OBVIOUS
  <1>0. app \in [Apps -> AppRow] /\ session \in [Workers -> Session]
    BY DEF TypeOK
  <1>1. ASSUME UNCHANGED app PROVE RowsMoveOn
    BY <1>0, <1>1 DEF RowsMoveOn, AppRow
  <1>2. ASSUME NEW a \in Apps, NEW route \in DefaultRoutes, CreateApplication(a, route)
        PROVE  RowsMoveOn
    BY <1>0, <1>2 DEF CreateApplication, Exists, RowsMoveOn, AppRow
  <1>3. ASSUME NEW w \in Workers, UpdateApplication(w) PROVE RowsMoveOn
    <2>1. session[w].app \in Apps
      BY <1>0, <1>3, SessionFields DEF UpdateApplication
    <2>2. QED
      BY <2>1, <1>0, <1>3 DEF UpdateApplication, RowsMoveOn, AppRow
  <1>4. ASSUME NEW w \in Workers, CommitRelease(w) PROVE RowsMoveOn
    <2>1. session[w].app \in Apps
      BY <1>0, <1>4, SessionFields DEF CommitRelease
    <2>2. QED
      BY <2>1, <1>0, <1>4 DEF CommitRelease, RowsMoveOn, AppRow
  <1>5. ASSUME NEW w \in Workers, Request(w) PROVE UNCHANGED app
    BY <1>5 DEF Request, ReadForUpdate, ValidateInsert, ValidateRewrite,
                CheckDelete, TryPublishLock, ReadForNavigation
  <1>6. ASSUME NEW w \in Workers, Step(w) \/ Crash(w),
               ~ UpdateApplication(w), ~ CommitRelease(w)
        PROVE  UNCHANGED app
    BY <1>6 DEF Step, InsertMenu, RewriteMenu, DeleteMenu, ReadForPublish,
                ValidateDraft, Unlock, ServeNavigation, Abort, Crash
  <1>7. QED
    BY <1>1, <1>2, <1>3, <1>4, <1>5, <1>6 DEF Next, LeaseExpires, vars

LEMMA NextSoundReads ==
  ASSUME Lookahead = 0
  PROVE  TypeOK /\ TypeOK' /\ SoundReads /\ [Next]_vars => SoundReads'
  <1> SUFFICES ASSUME TypeOK, TypeOK', SoundReads, [Next]_vars PROVE SoundReads'
    OBVIOUS
  <1>0. /\ app \in [Apps -> AppRow] /\ session \in [Workers -> Session]
        /\ session' \in [Workers -> Session] /\ RowsMoveOn
    BY NextRowsMoveOn DEF TypeOK
  <1>e. \A a \in Apps : \A e \in Expected(app[a].version, MaxAppVersion) :
          e <= app[a].version
    BY <1>0 DEF Expected, AppRow
  <1>1. ASSUME NEW w \in Workers, NEW s \in Session, Becomes(w, s), SoundRead(s)'
        PROVE  SoundReads'
    BY <1>1, <1>0, SoundReadsKept
  <1>2. ASSUME NEW w \in Workers, NEW s, Becomes(w, s),
               s.pc \notin {"update", "locked", "publish", "commit"}
        PROVE  SoundReads'
    <2>1. s \in Session
      BY <1>2, <1>0 DEF Becomes
    <2>2. SoundRead(s)'
      BY <1>2 DEF SoundRead
    <2>3. QED
      BY <2>1, <2>2, <1>1, <1>2
  <1>3. ASSUME NEW w \in Workers, NEW a \in Apps, NEW route \in DefaultRoutes,
               ReadForUpdate(w, a, route)
        PROVE  SoundReads'
    <2>1. PICK s : /\ Becomes(w, s) /\ s.pc = "update" /\ s.app = a
                   /\ s.expected <= app[a].version /\ s.published = app[a].published
      BY <1>3, <1>e DEF ReadForUpdate
    <2>2. s \in Session
      BY <2>1, <1>0 DEF Becomes
    <2>3. SoundRead(s)'
      BY <2>1, <1>3 DEF SoundRead, ReadForUpdate
    <2>4. QED
      BY <2>1, <2>2, <2>3, <1>1
  <1>4. ASSUME NEW w \in Workers, NEW a \in Apps, TryPublishLock(w, a)
        PROVE  SoundReads'
    <2>1. PICK s : /\ Becomes(w, s) /\ s.pc = "locked" /\ s.app = a
                   /\ s.expected <= app[a].version
      BY <1>4, <1>e DEF TryPublishLock
    <2>2. s \in Session
      BY <2>1, <1>0 DEF Becomes
    <2>3. SoundRead(s)'
      BY <2>1, <1>4 DEF SoundRead, TryPublishLock
    <2>4. QED
      BY <2>1, <2>2, <2>3, <1>1
  <1>5. ASSUME NEW w \in Workers, ReadForPublish(w)
        PROVE  SoundReads'
    <2>1. PICK s : /\ Becomes(w, s) /\ s.pc = "publish" /\ s.app = session[w].app
                   /\ s.expected = session[w].expected /\ s.route = app[s.app].route
      BY <1>5 DEF ReadForPublish
    <2>2. s \in Session
      BY <2>1, <1>0 DEF Becomes
    <2>3. SoundRead(s)'
      BY <2>1, <1>5 DEF SoundReads, SoundRead, ReadForPublish
    <2>4. QED
      BY <2>1, <2>2, <2>3, <1>1
  <1>6. ASSUME NEW w \in Workers, ValidateDraft(w)
        PROVE  SoundReads'
    <2>1. PICK s : /\ Becomes(w, s) /\ s.pc = "commit" /\ s.app = session[w].app
                   /\ s.expected = session[w].expected
                   /\ validateDefaultRoute(session[w].route, s.items)
      BY <1>6 DEF ValidateDraft, Publishable
    <2>2. s \in Session
      BY <2>1, <1>0 DEF Becomes
    <2>3. SoundRead(session[w]) /\ session[w].pc = "publish" /\ app' = app
      BY <1>6 DEF SoundReads, ValidateDraft
    <2>4. /\ s.expected <= app'[s.app].version
          /\ s.expected = app'[s.app].version => session[w].route = app'[s.app].route
      BY <2>1, <2>3 DEF SoundRead
    <2>5. SoundRead(s)'
      BY <2>1, <2>4 DEF SoundRead, validateDefaultRoute
    <2>6. QED
      BY <2>1, <2>2, <2>5, <1>1
  <1>7. ASSUME NEW w \in Workers, Request(w), 
               ~ \E a \in Apps, route \in DefaultRoutes : ReadForUpdate(w, a, route),
               ~ \E a \in Apps : TryPublishLock(w, a)
        PROVE  \E s : Becomes(w, s) /\ s.pc \notin {"update", "locked", "publish", "commit"}
    <2> DEFINE Reads == \E s : Becomes(w, s) /\ s.pc \notin {"update", "locked", "publish", "commit"}
    <2>1. ASSUME NEW a \in Apps, NEW d \in Draft, NEW named \in Menus \cup {NoMenu},
                 ValidateInsert(w, a, d, named)
          PROVE  Reads
      BY <2>1 DEF ValidateInsert
    <2>2. ASSUME NEW a \in Apps, NEW d \in Draft, NEW id \in Menus,
                 ValidateRewrite(w, a, id, d)
          PROVE  Reads
      BY <2>2 DEF ValidateRewrite
    <2>3. ASSUME NEW id \in Menus, CheckDelete(w, id)
          PROVE  Reads
      BY <2>3 DEF CheckDelete
    <2>4. ASSUME NEW a \in Apps, ReadForNavigation(w, a)
          PROVE  Reads
      BY <2>4 DEF ReadForNavigation
    <2>5. QED
      BY <1>7, <2>1, <2>2, <2>3, <2>4 DEF Request
  <1>8. ASSUME NEW w \in Workers,
               \/ UpdateApplication(w) \/ InsertMenu(w) \/ RewriteMenu(w)
               \/ DeleteMenu(w) \/ CommitRelease(w) \/ Unlock(w)
               \/ ServeNavigation(w) \/ Abort(w) \/ Crash(w)
        PROVE  SoundReads'
    <2>1. \E s : Becomes(w, s) /\ s.pc \notin {"update", "locked", "publish", "commit"}
      BY <1>8 DEF UpdateApplication, InsertMenu, RewriteMenu, DeleteMenu, CommitRelease,
                  Unlock, ServeNavigation, Abort, Crash, Idle
    <2>2. QED
      BY <2>1, <1>2
  <1>9. ASSUME UNCHANGED session
        PROVE  SoundReads'
    <2> SUFFICES ASSUME NEW v \in Workers PROVE SoundRead(session[v])'
      BY DEF SoundReads
    <2>1. PICK t \in Session : t = session[v]
      BY <1>0
    <2>2. SoundRead(t)'
      BY <2>1, <1>0, SoundReadKept DEF SoundReads
    <2>3. QED
      BY <2>1, <2>2, <1>9 DEF SoundRead
  <1>10. ASSUME NEW a \in Apps,
                \/ LeaseExpires(a)
                \/ \E route \in DefaultRoutes : CreateApplication(a, route)
         PROVE  UNCHANGED session
    BY <1>10 DEF LeaseExpires, CreateApplication
  <1>11. CASE UNCHANGED vars
    BY <1>11, <1>9 DEF vars
  <1>12. QED
    BY <1>2, <1>3, <1>4, <1>5, <1>6, <1>7, <1>8, <1>9, <1>10, <1>11 DEF Next, Step

LEMMA InitSoundReads == Init => SoundReads
  BY DEF Init, Idle, SoundReads, SoundRead

(* When clients send versions they have read, the default route of an      *)
(* application is a leaf of the release that becomes its published one.    *)
THEOREM DefaultRouteCorrect ==
  ASSUME Lookahead = 0
  PROVE  Spec => DefaultRouteReleased
  <1> DEFINE Serves(a) == app'[a].published # app[a].published =>
               \E r \in releases' :
                 /\ r.app = a /\ r.number = app'[a].published
                 /\ validateDefaultRoute(app'[a].route, r.items)
  <1>1. TypeOK /\ NumberingInv /\ SoundReads /\ [Next]_vars
          => [\A a \in Apps : Serves(a)]_vars
    <2> SUFFICES ASSUME TypeOK, NumberingInv, SoundReads, Next, NEW a \in Apps PROVE Serves(a)
      OBVIOUS
    <2>0. app \in [Apps -> AppRow] /\ session \in [Workers -> Session]
      BY DEF TypeOK
    <2>1. ASSUME NEW w \in Workers, CommitRelease(w)
          PROVE  Serves(a)
      <3>1. session[w].app \in Apps
        BY <2>0, <2>1, SessionFields DEF CommitRelease
      <3>2. /\ \A b \in Apps : b # session[w].app => app'[b] = app[b]
            /\ app'[session[w].app].published = session[w].number
            /\ app'[session[w].app].route = app[session[w].app].route
        BY <3>1, <2>0, <2>1 DEF CommitRelease, AppRow
      <3>3. validateDefaultRoute(app[session[w].app].route, session[w].items)
        BY <2>1 DEF SoundReads, SoundRead, CommitRelease, AtVersion
      <3>4. PICK r \in releases' : /\ r.app = session[w].app /\ r.number = session[w].number
                                   /\ r.items = session[w].items
        <4> DEFINE new == [app |-> session[w].app, number |-> session[w].number,
                           items |-> session[w].items]
        <4>1. new \in releases'
          BY <2>1 DEF CommitRelease, CreateRelease
        <4>2. QED
          BY <4>1
      <3>5. CASE a = session[w].app
        <4>1. validateDefaultRoute(app'[a].route, r.items)
          BY <3>2, <3>3, <3>4, <3>5
        <4>2. QED
          BY <4>1, <3>2, <3>4, <3>5
      <3>6. CASE a # session[w].app
        BY <3>2, <3>6
      <3>7. QED
        BY <3>5, <3>6
    <2>2. ASSUME NEW w \in Workers, UpdateApplication(w)
          PROVE  app'[a].published = app[a].published
      <3>1. session[w].app \in Apps
        BY <2>0, <2>2, SessionFields DEF UpdateApplication
      <3>2. QED
        BY <3>1, <2>0, <2>2 DEF UpdateApplication, AppRow
    <2>3. ASSUME NEW b \in Apps, NEW route \in DefaultRoutes, CreateApplication(b, route)
          PROVE  app'[a].published = app[a].published
      BY <2>0, <2>3 DEF CreateApplication, NumberingInv, UnbornUnpublished
    <2>4. ASSUME NEW w \in Workers, Request(w) PROVE UNCHANGED app
      BY <2>4 DEF Request, ReadForUpdate, ValidateInsert, ValidateRewrite,
                  CheckDelete, TryPublishLock, ReadForNavigation
    <2>5. ASSUME NEW w \in Workers, Step(w) \/ Crash(w),
                 ~ UpdateApplication(w), ~ CommitRelease(w)
          PROVE  UNCHANGED app
      BY <2>5 DEF Step, InsertMenu, RewriteMenu, DeleteMenu, ReadForPublish,
                  ValidateDraft, Unlock, ServeNavigation, Abort, Crash
    <2>6. ASSUME NEW b \in Apps, LeaseExpires(b) PROVE UNCHANGED app
      BY <2>6 DEF LeaseExpires
    <2>7. QED
      BY <2>1, <2>2, <2>3, <2>4, <2>5, <2>6 DEF Next
  <1>2. Spec => [](TypeOK /\ NumberingInv /\ SoundReads)
    BY InitTypeOK, NextTypeOK, InitNumbering, NextNumbering, InitSoundReads, NextSoundReads,
       PTL DEF Spec
  <1>3. QED
    BY <1>1, <1>2, PTL DEF Spec, DefaultRouteReleased

(***************************************************************************)
(* Version v of an application is its creation, the updates up to v and as *)
(* many publications as it had then.                                       *)
(***************************************************************************)
VersionsAccounted ==
  \A a \in Apps : Exists(a) =>
    app[a].version = 1 + app[a].published + Cardinality(EventsOf(a, "updated"))

UpdateInv == UpdatedEventIsCurrent /\ VersionsAccounted

LEMMA UpdatesCounted ==
  ASSUME TypeOK, EventInv, SoundReads, UpdateInv,
         NEW w \in Workers, UpdateApplication(w)
  PROVE  UpdateInv'
  <1>0. /\ app \in [Apps -> AppRow] /\ outbox \subseteq Event /\ IsFiniteSet(outbox)
        /\ session \in [Workers -> Session] /\ AnnouncedBefore
        /\ UpdatedEventIsCurrent /\ VersionsAccounted
    BY DEF TypeOK, EventInv, UpdateInv
  <1>1. /\ session[w].app \in Apps /\ session[w].expected \in Nat
        /\ session[w].published \in Nat
    BY <1>0, SessionFields DEF UpdateApplication
  <1>2. PICK a \in Apps, v \in Nat, p \in Nat :
          a = session[w].app /\ v = app[a].version /\ p = app[a].published
    BY <1>1, <1>0 DEF AppRow
  <1>3. session[w].expected = v /\ session[w].published = p /\ v > 0
    BY <1>2 DEF UpdateApplication, AtVersion, Exists, SoundReads, SoundRead
  <1>4. PICK e : e = [kind |-> "updated", app |-> a, version |-> v + 1, release |-> p]
    OBVIOUS
  <1>5. e.kind = "updated" /\ e.app = a /\ e.version = v + 1 /\ e.release = p
    BY <1>4
  <1>6. outbox' = outbox \cup {e}
    BY <1>2, <1>3, <1>4 DEF UpdateApplication, AddEvent
  <1>7. /\ \A b \in Apps : b # a => app'[b] = app[b]
        /\ app'[a].version = v + 1 /\ app'[a].published = p
    BY <1>2, <1>0 DEF UpdateApplication, AppRow
  <1>8. PICK U : U = EventsOf(a, "updated")
    OBVIOUS
  <1>9. IsFiniteSet(U) /\ \A f \in U : f \in Event /\ f.version \in Nat /\ f.version <= v
    <2>1. U \subseteq outbox
      BY <1>8 DEF EventsOf
    <2>2. \A f \in U : f.kind = "updated" /\ f.app = a
      BY <1>8 DEF EventsOf
    <2>3. QED
      BY <2>1, <2>2, <1>0, <1>2, FS_Subset DEF AnnouncedBefore, Event
  <1>10. e \notin U /\ Cardinality(U) \in Nat /\ Cardinality(U \cup {e}) = Cardinality(U) + 1
    BY <1>2, <1>5, <1>9, FS_AddElement, FS_CardinalityType
  <1>11. v = 1 + p + Cardinality(U)
    BY <1>0, <1>2, <1>3, <1>8 DEF VersionsAccounted, Exists
  <1>12. \A b \in Apps : EventsOf(b, "updated")' =
                            IF b = a THEN U \cup {e} ELSE EventsOf(b, "updated")
    BY <1>5, <1>6, <1>8 DEF EventsOf
  <1>13. VersionsAccounted'
    <2> SUFFICES ASSUME NEW b \in Apps, Exists(b)'
                 PROVE  app'[b].version = 1 + app'[b].published + Cardinality(EventsOf(b, "updated")')
      BY DEF VersionsAccounted
    <2>1. CASE b = a
      <3>1. EventsOf(b, "updated")' = U \cup {e}
        BY <2>1, <1>12
      <3>2. v + 1 = 1 + p + Cardinality(U \cup {e})
        BY <1>10, <1>11
      <3>3. QED
        BY <2>1, <3>1, <3>2, <1>7
    <2>2. CASE b # a
      BY <2>2, <1>0, <1>7, <1>12 DEF VersionsAccounted, Exists
    <2>3. QED
      BY <2>1, <2>2
  <1>14. UpdatedEventIsCurrent'
    <2> SUFFICES ASSUME NEW b \in Apps, NEW x \in EventsOf(b, "updated")'
                 PROVE  x.version = 1 + x.release +
                          Cardinality({f \in EventsOf(b, "updated")' : f.version <= x.version})
      BY DEF UpdatedEventIsCurrent
    <2>1. CASE b # a
      BY <2>1, <1>0, <1>12 DEF UpdatedEventIsCurrent
    <2>2. CASE b = a /\ x = e
      <3>1. {f \in U \cup {e} : f.version <= e.version} = U \cup {e}
        BY <1>2, <1>5, <1>9
      <3>2. EventsOf(b, "updated")' = U \cup {e}
        BY <2>2, <1>12
      <3>3. v + 1 = 1 + p + Cardinality(U \cup {e})
        BY <1>10, <1>11
      <3>4. QED
        BY <2>2, <3>1, <3>2, <3>3, <1>5
    <2>3. CASE b = a /\ x # e
      <3>1. x \in U
        BY <2>3, <1>12
      <3>2. {f \in U \cup {e} : f.version <= x.version} = {f \in U : f.version <= x.version}
        BY <3>1, <1>2, <1>5, <1>9
      <3>3. x.version = 1 + x.release + Cardinality({f \in U : f.version <= x.version})
        BY <3>1, <1>0, <1>8 DEF UpdatedEventIsCurrent
      <3>4. QED
        BY <3>2, <3>3, <2>3, <1>12
    <2>4. QED
      BY <2>1, <2>2, <2>3
  <1>15. QED
    BY <1>13, <1>14 DEF UpdateInv

(* A step that announces no update.                                        *)
LEMMA UpdatesKept ==
  ASSUME UpdateInv,
         \A a \in Apps : EventsOf(a, "updated")' = EventsOf(a, "updated"),
         \A a \in Apps : Exists(a)' =>
           app'[a].version = 1 + app'[a].published + Cardinality(EventsOf(a, "updated"))
  PROVE  UpdateInv'
  BY DEF UpdateInv, UpdatedEventIsCurrent, VersionsAccounted

LEMMA NextUpdates ==
  TypeOK /\ NumberingInv /\ EventInv /\ SoundReads /\ UpdateInv /\ [Next]_vars => UpdateInv'
  <1> SUFFICES ASSUME TypeOK, NumberingInv, EventInv, SoundReads, UpdateInv, [Next]_vars
               PROVE  UpdateInv'
    OBVIOUS
  <1>0. /\ app \in [Apps -> AppRow] /\ session \in [Workers -> Session]
        /\ IsFiniteSet(outbox) /\ EveryVersionHasItsEvent /\ VersionsAccounted
    BY DEF TypeOK, EventInv, UpdateInv
  <1>1. ASSUME NEW a \in Apps, NEW route \in DefaultRoutes, CreateApplication(a, route)
        PROVE  UpdateInv'
    <2>1. \A b \in Apps : EventsOf(b, "updated")' = EventsOf(b, "updated")
      BY <1>1 DEF CreateApplication, AddEvent, EventsOf
    <2>2. EventsOf(a, "updated") = {}
      <3>1. app[a].version = 0
        BY <1>0, <1>1 DEF CreateApplication, Exists, AppRow
      <3>2. Cardinality({x \in outbox : x.app = a}) = 0
        BY <3>1, <1>0 DEF EveryVersionHasItsEvent
      <3>3. IsFiniteSet({x \in outbox : x.app = a})
        BY <1>0, FS_Subset
      <3>4. {x \in outbox : x.app = a} = {}
        BY <3>2, <3>3, FS_EmptySet
      <3>5. QED
        BY <3>4 DEF EventsOf
    <2>3. /\ app'[a].version = 1 /\ app'[a].published = 0
          /\ \A b \in Apps : b # a => app'[b] = app[b]
      BY <1>0, <1>1 DEF CreateApplication
    <2>4. ASSUME NEW b \in Apps, Exists(b)'
          PROVE  app'[b].version = 1 + app'[b].published + Cardinality(EventsOf(b, "updated"))
      <3>1. CASE b = a
        BY <3>1, <2>2, <2>3, FS_EmptySet
      <3>2. CASE b # a
        BY <3>2, <2>3, <2>4, <1>0 DEF VersionsAccounted, Exists
      <3>3. QED
        BY <3>1, <3>2
    <2>5. QED
      BY <2>1, <2>4, UpdatesKept
  <1>2. ASSUME NEW w \in Workers, UpdateApplication(w)
        PROVE  UpdateInv'
    BY <1>2, UpdatesCounted
  <1>3. ASSUME NEW w \in Workers, CommitRelease(w)
        PROVE  UpdateInv'
    <2>1. \A b \in Apps : EventsOf(b, "updated")' = EventsOf(b, "updated")
      BY <1>3 DEF CommitRelease, AddEvent, EventsOf
    <2>2. PICK a \in Apps : a = session[w].app
      BY <1>0, <1>3, SessionFields DEF CommitRelease
    <2>3. session[w].number = app[a].published + 1
      BY <1>3, <2>2, CommitTakesNextNumber
    <2>4. /\ app'[a].version = app[a].version + 1
          /\ app'[a].published = app[a].published + 1
          /\ \A b \in Apps : b # a => app'[b] = app[b]
          /\ Exists(a)
      BY <1>0, <1>3, <2>2, <2>3 DEF CommitRelease, AtVersion, AppRow
    <2>5. ASSUME NEW b \in Apps, Exists(b)'
          PROVE  app'[b].version = 1 + app'[b].published + Cardinality(EventsOf(b, "updated"))
      <3>1. IsFiniteSet(EventsOf(b, "updated"))
        BY <1>0, FS_Subset DEF EventsOf
      <3>2. Cardinality(EventsOf(b, "updated")) \in Nat /\ app[b].published \in Nat
        BY <3>1, <1>0, FS_CardinalityType DEF AppRow
      <3>3. CASE b = a
        BY <3>2, <3>3, <2>4, <1>0 DEF VersionsAccounted
      <3>4. CASE b # a
        BY <3>4, <2>4, <2>5, <1>0 DEF VersionsAccounted, Exists
      <3>5. QED
        BY <3>3, <3>4
    <2>6. QED
      BY <2>1, <2>5, UpdatesKept
  <1>4. ASSUME UNCHANGED <<app, outbox>>
        PROVE  UpdateInv'
    BY <1>4 DEF UpdateInv, UpdatedEventIsCurrent, VersionsAccounted, EventsOf, Exists
  <1>5. ASSUME NEW w \in Workers, Request(w)
        PROVE  UNCHANGED <<app, outbox>>
    BY <1>5 DEF Request, ReadForUpdate, ValidateInsert, ValidateRewrite,
                CheckDelete, TryPublishLock, ReadForNavigation
  <1>6. ASSUME NEW w \in Workers, Step(w) \/ Crash(w),
               ~ UpdateApplication(w), ~ CommitRelease(w)
        PROVE  UNCHANGED <<app, outbox>>
    BY <1>6 DEF Step, InsertMenu, RewriteMenu, DeleteMenu, ReadForPublish,
                ValidateDraft, Unlock, ServeNavigation, Abort, Crash
  <1>7. ASSUME NEW a \in Apps, LeaseExpires(a)
        PROVE  UNCHANGED <<app, outbox>>
    BY <1>7 DEF LeaseExpires
  <1>8. CASE UNCHANGED vars
    BY <1>8, <1>4 DEF vars
  <1>9. QED
    BY <1>1, <1>2, <1>3, <1>4, <1>5, <1>6, <1>7, <1>8 DEF Next

(* When clients send versions they have read, the published_release in an  *)
(* "updated" event is the one of the version the event announces.          *)
THEOREM UpdatedEventCorrect ==
  ASSUME Lookahead = 0
  PROVE  Spec => []UpdatedEventIsCurrent
  <1>1. Init => UpdateInv
    BY DEF Init, UpdateInv, UpdatedEventIsCurrent, EventsOf, VersionsAccounted, Exists
  <1>2. UpdateInv => UpdatedEventIsCurrent
    BY DEF UpdateInv
  <1>3. QED
    BY InitTypeOK, NextTypeOK, InitNumbering, NextNumbering, InitEvents, NextEvents,
       InitSoundReads, NextSoundReads, NextUpdates, <1>1, <1>2, PTL DEF Spec

-----------------------------------------------------------------------------
(***************************************************************************)
(* Drafts.  A menu is checked against a read of the draft and written in a *)
(* later transaction that looks at its own row only, so a draft is a tree  *)
(* for as long as no two requests that edit menus overlap: what the check  *)
(* has found is then still true at the write.  Updates, publications and   *)
(* navigation may overlap with an edit, leases may end and workers crash.  *)
(***************************************************************************)
Editing(w) == session[w].pc \in {"insert", "rewrite", "delete"}

OneEditor == \A v, w \in Workers : Editing(v) /\ Editing(w) => v = w

Stands(a, s) ==
  /\ s.pc = "insert" =>
       s.item.parent = NoMenu \/ Has(ListDraftMenus(a), s.item.parent)
  /\ s.pc = "rewrite" =>
       validateMenuTree({m \in ListDraftMenus(a) : m.id # s.id} \cup {Item(s.id, s.item)})
  /\ s.pc = "delete" => \A m \in ListDraftMenus(a) : m.parent # s.id

ChecksStand(a) == \A w \in Workers : Stands(a, session[w])

DraftInv(a) == validateMenuTree(ListDraftMenus(a)) /\ ChecksStand(a)

(* A live row of the application is an item of its draft, and the other    *)
(* way round.                                                              *)
LEMMA DraftRows ==
  ASSUME NEW a, NEW x
  PROVE  x \in ListDraftMenus(a) <=>
           \E i \in Menus : Live(i) /\ menu[i].app = a /\ x = Item(i, menu[i].item)
  BY DEF ListDraftMenus

LEMMA DraftIds ==
  ASSUME IsFiniteSet(Menus), NEW a
  PROVE  /\ IsFiniteSet(ListDraftMenus(a)) /\ UniqueIds(ListDraftMenus(a))
         /\ \A m \in ListDraftMenus(a) : m.id \in Menus /\ Live(m.id)
  <1> DEFINE rows == {i \in Menus : Live(i) /\ menu[i].app = a}
  <1>1. IsFiniteSet(rows)
    BY FS_Subset
  <1>2. IsFiniteSet({Item(i, menu[i].item) : i \in rows})
    <2> DEFINE f == [i \in rows |-> Item(i, menu[i].item)]
               T == {Item(i, menu[i].item) : i \in rows}
    <2>1. f \in [rows -> T] /\ \A x \in T : \E i \in rows : f[i] = x
      <3> HIDE DEF rows
      <3> QED OBVIOUS
    <2> HIDE DEF f, T, rows
    <2>2. f \in Surjection(rows, T)
      BY <2>1 DEF Surjection
    <2> QED BY <1>1, <2>2, FS_Surjection DEF T
  <1>3. ListDraftMenus(a) = {Item(i, menu[i].item) : i \in rows}
    BY DEF ListDraftMenus
  <1>4. ASSUME NEW m \in ListDraftMenus(a)
        PROVE  m.id \in Menus /\ Live(m.id) /\ m = Item(m.id, menu[m.id].item)
    <2>1. PICK i \in Menus : Live(i) /\ menu[i].app = a /\ m = Item(i, menu[i].item)
      BY DraftRows
    <2>2. m.id = i
      BY <2>1 DEF Item
    <2> QED BY <2>1, <2>2
  <1>5. UniqueIds(ListDraftMenus(a))
    BY <1>4 DEF UniqueIds
  <1> QED BY <1>2, <1>3, <1>4, <1>5

LEMMA NoDraft ==
  ASSUME \A i \in Menus : ~ Live(i), NEW a
  PROVE  validateMenuTree(ListDraftMenus(a))
  BY DEF validateMenuTree, ListDraftMenus

(* The application is the only one, so every row is its own.               *)
LEMMA OwnRows ==
  ASSUME TypeOK, NEW a, Apps = {a}
  PROVE  /\ \A i \in Menus : menu[i].app = a
         /\ \A w \in Workers : session[w].pc = "insert" => session[w].app = a
  <1>1. \A w \in Workers : session[w] \in Session
    BY DEF TypeOK
  <1>2. \A w \in Workers : session[w].pc = "insert" => session[w].app \in Apps
    BY <1>1, SessionFields
  <1> QED BY <1>2 DEF TypeOK, MenuRow

(* A step that leaves the rows alone and starts no edit.                   *)
LEMMA DraftKept ==
  ASSUME NEW a, DraftInv(a), UNCHANGED menu,
         \A v \in Workers : Stands(a, session'[v]) \/ session'[v] = session[v]
  PROVE  DraftInv(a)'
  <1>1. ListDraftMenus(a)' = ListDraftMenus(a)
    BY DEF ListDraftMenus, Live
  <1>2. \A s : Stands(a, s)' <=> Stands(a, s)
    BY <1>1 DEF Stands
  <1> QED BY <1>1, <1>2 DEF DraftInv, ChecksStand, Stands

(* The end of an edit: nobody else is editing, so no check is pending.     *)
LEMMA EditEnds ==
  ASSUME TypeOK, OneEditor, NEW a, NEW w \in Workers, Editing(w), Becomes(w, Idle)
  PROVE  ChecksStand(a)'
  <1>1. ASSUME NEW v \in Workers PROVE ~ (session'[v].pc \in {"insert", "rewrite", "delete"})
    <2>1. CASE v = w
      BY <2>1 DEF TypeOK, Becomes, Idle
    <2>2. CASE v # w
      BY <2>2 DEF TypeOK, Becomes, OneEditor, Editing
    <2> QED BY <2>1, <2>2
  <1> QED BY <1>1 DEF ChecksStand, Stands

LEMMA InsertKeepsTree ==
  ASSUME IsFiniteSet(Menus), NEW a, Apps = {a}, TypeOK, DraftInv(a),
         NEW w \in Workers, InsertMenu(w)
  PROVE  validateMenuTree(ListDraftMenus(a))'
  <1> DEFINE s == session[w]
             x(id) == Item(id, s.item)
  <1>1. PICK id \in Menus :
          /\ menu[id].version = 0
          /\ menu' = [menu EXCEPT ![id] = [app |-> s.app, item |-> s.item,
                                           version |-> 1, deleted |-> FALSE]]
    BY DEF InsertMenu
  <1>2. s.pc = "insert" /\ s.app = a /\ \A i \in Menus : menu[i].app = a
    BY OwnRows DEF InsertMenu
  <1>3. s.item.parent = NoMenu \/ Has(ListDraftMenus(a), s.item.parent)
    BY <1>2 DEF DraftInv, ChecksStand, Stands
  <1>4. menu \in [Menus -> MenuRow]
    BY DEF TypeOK
  <1> HIDE DEF s
  <1>5. x(id).id = id /\ x(id).parent = s.item.parent
    BY DEF Item
  <1>6. ~ Live(id) /\ Live(id)' /\ \A i \in Menus : i # id => (Live(i)' <=> Live(i))
    BY <1>1, <1>4 DEF Live
  <1>7. ListDraftMenus(a)' = ListDraftMenus(a) \cup {x(id)}
    <2>1. /\ menu'[id].app = a /\ menu'[id].item = s.item
          /\ \A i \in Menus : i # id => menu'[i] = menu[i]
      BY <1>1, <1>2, <1>4
    <2>2. \A y : y \in ListDraftMenus(a)' <=>
                   \E i \in Menus : Live(i)' /\ menu'[i].app = a /\ y = Item(i, menu'[i].item)
      BY DEF ListDraftMenus
    <2>3. \A y : y \in ListDraftMenus(a) <=>
                   \E i \in Menus : Live(i) /\ menu[i].app = a /\ y = Item(i, menu[i].item)
      BY DraftRows
    <2> QED BY <1>6, <2>1, <2>2, <2>3
  <1> DEFINE new == x(id)
  <1>8. new.id # NoMenu /\ ~ Has(ListDraftMenus(a), new.id)
    BY <1>5, <1>6, DraftIds, MenusAssumption DEF Has
  <1>9. new.parent = NoMenu \/ Has(ListDraftMenus(a), new.parent)
    BY <1>3, <1>5 DEF s
  <1> HIDE DEF new
  <1>10. validateMenuTree(ListDraftMenus(a) \cup {new})
    BY <1>8, <1>9, DraftIds, LeafAdded DEF DraftInv
  <1> QED BY <1>7, <1>10 DEF new

LEMMA RewriteKeepsTree ==
  ASSUME IsFiniteSet(Menus), NEW a, Apps = {a}, TypeOK, DraftInv(a),
         NEW w \in Workers, RewriteMenu(w)
  PROVE  validateMenuTree(ListDraftMenus(a))'
  <1> DEFINE s == session[w]
  <1>1. s.pc = "rewrite" /\ s.id \in Menus /\ Live(s.id)
    BY SessionFields DEF RewriteMenu, MenuAtVersion, TypeOK
  <1>2. /\ menu \in [Menus -> MenuRow] /\ \A i \in Menus : menu[i].app = a
        /\ menu' = [menu EXCEPT ![s.id].item = s.item, ![s.id].version = @ + 1]
    BY OwnRows DEF RewriteMenu, TypeOK
  <1>3. validateMenuTree({m \in ListDraftMenus(a) : m.id # s.id} \cup {Item(s.id, s.item)})
    BY <1>1 DEF DraftInv, ChecksStand, Stands
  <1> HIDE DEF s
  <1>4. /\ menu'[s.id].app = a /\ menu'[s.id].item = s.item
        /\ menu'[s.id].version > 0 /\ ~ menu'[s.id].deleted
        /\ \A i \in Menus : i # s.id => menu'[i] = menu[i]
    BY <1>1, <1>2 DEF MenuRow, Live
  <1>5. \A i \in Menus : Live(i)' <=> Live(i)
    BY <1>1, <1>4 DEF Live
  <1>6. ListDraftMenus(a)' = {m \in ListDraftMenus(a) : m.id # s.id} \cup {Item(s.id, s.item)}
    <2>1. \A y : y \in ListDraftMenus(a)' <=>
                   \E i \in Menus : Live(i)' /\ menu'[i].app = a /\ y = Item(i, menu'[i].item)
      BY DEF ListDraftMenus
    <2>2. \A y : y \in ListDraftMenus(a) <=>
                   \E i \in Menus : Live(i) /\ menu[i].app = a /\ y = Item(i, menu[i].item)
      BY DraftRows
    <2>3. \A i, d : Item(i, d).id = i
      BY DEF Item
    <2> QED BY <1>1, <1>2, <1>4, <1>5, <2>1, <2>2, <2>3
  <1> QED BY <1>3, <1>6

LEMMA DeleteKeepsTree ==
  ASSUME IsFiniteSet(Menus), NEW a, Apps = {a}, TypeOK, DraftInv(a),
         NEW w \in Workers, DeleteMenu(w)
  PROVE  validateMenuTree(ListDraftMenus(a))'
  <1> DEFINE s == session[w]
  <1>1. s.pc = "delete" /\ s.id \in Menus
    BY SessionFields DEF DeleteMenu, TypeOK
  <1>2. /\ menu \in [Menus -> MenuRow] /\ \A i \in Menus : menu[i].app = a
        /\ menu' = [menu EXCEPT ![s.id].deleted = TRUE, ![s.id].version = @ + 1]
    BY OwnRows DEF DeleteMenu, TypeOK
  <1>3. \A m \in ListDraftMenus(a) : m.parent # s.id
    BY <1>1 DEF DraftInv, ChecksStand, Stands
  <1> HIDE DEF s
  <1>4. /\ menu'[s.id].deleted
        /\ \A i \in Menus : i # s.id => menu'[i] = menu[i]
    BY <1>1, <1>2 DEF MenuRow
  <1>5. \A i \in Menus : Live(i)' <=> Live(i) /\ i # s.id
    BY <1>1, <1>4 DEF Live
  <1>6. ListDraftMenus(a)' = {m \in ListDraftMenus(a) : m.id # s.id}
    <2>1. \A y : y \in ListDraftMenus(a)' <=>
                   \E i \in Menus : Live(i)' /\ menu'[i].app = a /\ y = Item(i, menu'[i].item)
      BY DEF ListDraftMenus
    <2>2. \A y : y \in ListDraftMenus(a) <=>
                   \E i \in Menus : Live(i) /\ menu[i].app = a /\ y = Item(i, menu[i].item)
      BY DraftRows
    <2>3. \A i, d : Item(i, d).id = i
      BY DEF Item
    <2> QED BY <1>1, <1>4, <1>5, <2>1, <2>2, <2>3
  <1>7. validateMenuTree({m \in ListDraftMenus(a) : m.id # s.id})
    BY <1>3, DraftIds, LeafRemoved DEF DraftInv
  <1> QED BY <1>6, <1>7

(* A worker that moves to a session whose check, if any, stands.           *)
LEMMA CheckMade ==
  ASSUME TypeOK, NEW a, DraftInv(a), UNCHANGED menu,
         NEW w \in Workers, NEW s, Becomes(w, s), Stands(a, s)
  PROVE  DraftInv(a)'
  <1>1. \A v \in Workers : session'[v] = s \/ session'[v] = session[v]
    BY DEF TypeOK, Becomes
  <1>2. \A v \in Workers : Stands(a, session'[v]) \/ session'[v] = session[v]
    BY <1>1
  <1> QED BY <1>2, DraftKept

LEMMA OtherStands ==
  ASSUME NEW a, NEW s, s.pc \notin {"insert", "rewrite", "delete"}
  PROVE  Stands(a, s)
  BY DEF Stands

LEMMA NextDraft ==
  ASSUME IsFiniteSet(Menus), NEW a, Apps = {a}
  PROVE  TypeOK /\ OneEditor /\ DraftInv(a) /\ [Next]_vars => DraftInv(a)'
  <1> SUFFICES ASSUME TypeOK, OneEditor, DraftInv(a), [Next]_vars PROVE DraftInv(a)'
    OBVIOUS
  <1>0. a \in Apps /\ \A b \in Apps : b = a
    OBVIOUS
  <1>idle. Stands(a, Idle)
    BY OtherStands DEF Idle
  <1>1. ASSUME UNCHANGED <<menu, session>>
        PROVE  DraftInv(a)'
    BY <1>1, DraftKept
  <1>2. ASSUME NEW b \in Apps, NEW route \in DefaultRoutes, CreateApplication(b, route)
        PROVE  DraftInv(a)'
    BY <1>1, <1>2 DEF CreateApplication
  <1>3. ASSUME NEW b \in Apps, LeaseExpires(b)
        PROVE  DraftInv(a)'
    BY <1>1, <1>3 DEF LeaseExpires
  <1>4. ASSUME NEW w \in Workers, NEW b \in Apps, NEW route \in DefaultRoutes,
               ReadForUpdate(w, b, route)
        PROVE  DraftInv(a)'
    <2>1. PICK s : Becomes(w, s) /\ s.pc = "update" /\ UNCHANGED menu
      BY <1>4 DEF ReadForUpdate
    <2> QED BY <2>1, CheckMade, OtherStands
  <1>5. ASSUME NEW w \in Workers, NEW b \in Apps, NEW d \in Draft,
               NEW named \in Menus \cup {NoMenu}, ValidateInsert(w, b, d, named)
        PROVE  DraftInv(a)'
    <2> DEFINE v == Item(named, d)
               s == [pc |-> "insert", app |-> b, item |-> [d EXCEPT !.active = TRUE]]
    <2>1. Becomes(w, s) /\ UNCHANGED menu /\ validateMenu(ListDraftMenus(a), v)
      BY <1>0, <1>5 DEF ValidateInsert
    <2>2. v.parent = d.parent /\ s.pc = "insert" /\ s.item.parent = d.parent
      BY DEF Item, Draft
    <2> HIDE DEF v, s
    <2>3. v.parent = NoMenu \/ Has(ListDraftMenus(a), v.parent)
      BY <2>1 DEF validateMenu
    <2>4. Stands(a, s)
      BY <2>2, <2>3 DEF Stands
    <2> QED BY <2>1, <2>4, CheckMade
  <1>6. ASSUME NEW w \in Workers, NEW b \in Apps, NEW d \in Draft, NEW id \in Menus,
               ValidateRewrite(w, b, id, d)
        PROVE  DraftInv(a)'
    <2>1. PICK e : /\ Becomes(w, [pc |-> "rewrite", id |-> id, expected |-> e, item |-> d])
                   /\ UNCHANGED menu /\ validateMenu(ListDraftMenus(a), Item(id, d))
      BY <1>0, <1>6 DEF ValidateRewrite
    <2> DEFINE s == [pc |-> "rewrite", id |-> id, expected |-> e, item |-> d]
    <2>2. s.pc = "rewrite" /\ s.id = id /\ s.item = d /\ Item(id, d).id = id
      BY DEF Item
    <2>3. validateMenuTree({m \in ListDraftMenus(a) : m.id # Item(id, d).id} \cup {Item(id, d)})
      BY <2>1 DEF validateMenu
    <2> HIDE DEF s
    <2>4. Stands(a, s)
      BY <2>2, <2>3 DEF Stands
    <2> QED BY <2>1, <2>4, CheckMade DEF s
  <1>7. ASSUME NEW w \in Workers, NEW id \in Menus, CheckDelete(w, id)
        PROVE  DraftInv(a)'
    <2>1. PICK e : /\ Becomes(w, [pc |-> "delete", id |-> id, expected |-> e])
                   /\ UNCHANGED menu /\ ~ HasChildren(id)
      BY <1>7 DEF CheckDelete
    <2> DEFINE s == [pc |-> "delete", id |-> id, expected |-> e]
    <2>2. s.pc = "delete" /\ s.id = id
      OBVIOUS
    <2>3. \A m \in ListDraftMenus(a) : m.parent # id
      BY <2>1, OwnRows DEF HasChildren
    <2> HIDE DEF s
    <2>4. Stands(a, s)
      BY <2>2, <2>3 DEF Stands
    <2> QED BY <2>1, <2>4, CheckMade DEF s
  <1>8. ASSUME NEW w \in Workers, NEW b \in Apps, TryPublishLock(w, b)
        PROVE  DraftInv(a)'
    <2>1. PICK s : Becomes(w, s) /\ s.pc = "locked" /\ UNCHANGED menu
      BY <1>8 DEF TryPublishLock
    <2> QED BY <2>1, CheckMade, OtherStands
  <1>9. ASSUME NEW w \in Workers, NEW b \in Apps, ReadForNavigation(w, b)
        PROVE  DraftInv(a)'
    <2>1. PICK s : Becomes(w, s) /\ s.pc = "navigate" /\ UNCHANGED menu
      BY <1>9 DEF ReadForNavigation
    <2> QED BY <2>1, CheckMade, OtherStands
  <1>10. ASSUME NEW w \in Workers, InsertMenu(w)
         PROVE  DraftInv(a)'
    <2>1. Editing(w) /\ Becomes(w, Idle)
      BY <1>10 DEF InsertMenu, Editing
    <2> QED BY <1>10, <2>1, EditEnds, InsertKeepsTree DEF DraftInv
  <1>11. ASSUME NEW w \in Workers, RewriteMenu(w)
         PROVE  DraftInv(a)'
    <2>1. Editing(w) /\ Becomes(w, Idle)
      BY <1>11 DEF RewriteMenu, Editing
    <2> QED BY <1>11, <2>1, EditEnds, RewriteKeepsTree DEF DraftInv
  <1>12. ASSUME NEW w \in Workers, DeleteMenu(w)
         PROVE  DraftInv(a)'
    <2>1. Editing(w) /\ Becomes(w, Idle)
      BY <1>12 DEF DeleteMenu, Editing
    <2> QED BY <1>12, <2>1, EditEnds, DeleteKeepsTree DEF DraftInv
  <1>13. ASSUME NEW w \in Workers,
                \/ UpdateApplication(w) \/ Unlock(w) \/ ServeNavigation(w) \/ Crash(w)
         PROVE  DraftInv(a)'
    <2>1. Becomes(w, Idle) /\ UNCHANGED menu
      BY <1>13 DEF UpdateApplication, Unlock, ServeNavigation, Crash
    <2> QED BY <1>idle, <2>1, CheckMade
  <1>14. ASSUME NEW w \in Workers,
                ReadForPublish(w) \/ ValidateDraft(w) \/ CommitRelease(w) \/ Abort(w)
         PROVE  DraftInv(a)'
    <2>1. PICK s : /\ Becomes(w, s) /\ UNCHANGED menu
                   /\ s = Idle \/ s.pc \in {"publish", "commit", "unlock"}
      BY <1>14 DEF ReadForPublish, ValidateDraft, CommitRelease, Abort
    <2>2. Stands(a, s)
      BY <1>idle, <2>1, OtherStands
    <2> QED BY <2>1, <2>2, CheckMade
  <1>15. CASE UNCHANGED vars
    BY <1>1, <1>15 DEF vars
  <1>16. QED
    BY <1>2, <1>3, <1>4, <1>5, <1>6, <1>7, <1>8, <1>9, <1>10, <1>11, <1>12, <1>13,
       <1>14, <1>15 DEF Next, Request, Step

(* With one application, whose menus no two requests edit at a time, every *)
(* draft is a forest: validateMenu and the child check of DeleteMenu are   *)
(* enough, whatever the other workers do meanwhile.                        *)
THEOREM DraftTreeCorrect ==
  ASSUME IsFiniteSet(Menus), NEW a, Apps = {a}
  PROVE  Spec /\ []OneEditor => []DraftIsTree
  <1>1. Init => DraftInv(a)
    <2> SUFFICES ASSUME Init PROVE DraftInv(a)
      OBVIOUS
    <2>1. \A i \in Menus : ~ Live(i)
      BY DEF Init, NoRow, Live
    <2>2. \A w \in Workers : session[w] = Idle
      BY DEF Init
    <2> QED BY <2>1, <2>2, NoDraft, OtherStands DEF DraftInv, ChecksStand, Idle
  <1>2. DraftInv(a) => DraftIsTree
    BY DEF DraftInv, DraftIsTree
  <1>3. TypeOK /\ OneEditor /\ DraftInv(a) /\ [Next]_vars => DraftInv(a)'
    BY NextDraft
  <1> HIDE DEF DraftInv
  <1>4. QED
    BY InitTypeOK, NextTypeOK, <1>1, <1>2, <1>3, PTL DEF Spec
=============================================================================
