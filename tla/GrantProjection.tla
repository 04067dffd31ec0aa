-------------------------- MODULE GrantProjection --------------------------
(***************************************************************************)
(* Tenant grants of one application and the search documents projected     *)
(* from them (internal/application): Grant, Revoke and UpdateApplication   *)
(* each write events for the search service, whose index keeps, per        *)
(* tenant, the document with the highest source version.                   *)
(*                                                                         *)
(* Handlers read rows outside their transaction.  The transactions of      *)
(* Grant and Revoke only write, so each is one step; UpdateApplication's   *)
(* reads the grants after its UPDATE has taken the row's lock and commits  *)
(* later, so it is two.                                                    *)
(***************************************************************************)
EXTENDS Integers, FiniteSets

CONSTANTS
  Tenants,
  Workers,          \* goroutines serving requests
  GrantSpan,        \* 2^32: grant versions that fit below the application's
  MaxAppVersion,    \* bound on the version of the application
  MaxGrantVersion   \* bound on the version of a grant

ASSUME GrantAssumption ==
  /\ GrantSpan \in Nat /\ MaxAppVersion \in Nat
  /\ MaxGrantVersion \in Nat /\ MaxGrantVersion < GrantSpan

VARIABLES
  app,      \* version of the application's row
  grant,    \* tenant_application_grants; version 0: the tenant has no row
  search,   \* outbox events platform.search.document.*
  changed,  \* outbox events platform.application.tenant-grant.changed
  session   \* what each worker's current request has read so far

vars == <<app, grant, search, changed, session>>

Status   == {"active", "revoked"}
Window   == {"pending", "open", "closed"}   \* now against valid_from, valid_until
GrantRow == [version : Nat, status : Status, window : Window]
Search   == [kind : {"upserted", "deleted"}, tenant : Tenants, source : Nat,
             app : Nat, grantVersion : Nat, by : {"grant", "update"}]
Changed  == [tenant : Tenants, kind : {"granted", "revoked"}, version : Nat]

Idle    == [pc |-> "idle"]
Session ==
  {Idle}
    \cup [pc : {"granting"}, tenant : Tenants, expected : Nat,
          window : Window, app : Nat]
    \cup [pc : {"create", "regrant"}, tenant : Tenants, expected : Nat,
          window : Window, app : Nat]
    \cup [pc : {"revoking"}, tenant : Tenants, expected : Nat]
    \cup [pc : {"revoke"}, tenant : Tenants, expected : Nat, app : Nat]
    \cup [pc : {"updating"}, granted : SUBSET (Tenants \X Nat)]

-----------------------------------------------------------------------------
(* The application's version above the grant's, which is cut to 32 bits.   *)
NarrowShift(a, g) == (a * GrantSpan + g) % GrantSpan
AppVersionOnly(a, g) == a * GrantSpan
searchProjectionVersion(a, g) == a * GrantSpan + (g % GrantSpan)

(* The event of a document, as written by a transaction that holds version *)
(* a of the application's row and version g of the grant.                  *)
Document(kind, t, a, g, by) ==
  [kind |-> kind, tenant |-> t,
   source |-> searchProjectionVersion(a, g), app |-> a, grantVersion |-> g, by |-> by]

Becomes(w, s) == session' = [session EXCEPT ![w] = s]

HasGrant(t) == grant[t].version > 0

Effective(t) == grant[t].status = "active" /\ grant[t].window = "open"

(* A row of applications is locked from its UPDATE to the commit.          *)
RowLocked == \E w \in Workers : session[w].pc = "updating"

(* What a client may send as expected_version: a version it has read.      *)
(* The bound is the one the code's comment relies on.                      *)
Expected(current) == {e \in 0 .. current : e < MaxGrantVersion}

(* The version UpdateApplication projects: the one its commit creates.     *)
VersionRead == app
VersionProjected == app + 1

(* UNIQUE(tenant_id, application_id), and the version in the WHERE clause. *)
AnyGrantVersion(t, e) == HasGrant(t)
AtGrantVersion(t, e) == HasGrant(t) /\ grant[t].version = e

Unchecked(t) == TRUE
NoGrantRow(t) == ~ HasGrant(t)

Init ==
  /\ app = 1
  /\ grant = [t \in Tenants |-> [version |-> 0, status |-> "revoked", window |-> "pending"]]
  /\ search = {}
  /\ changed = {}
  /\ session = [w \in Workers |-> Idle]

-----------------------------------------------------------------------------
(* Grant reads the application, then the grant: none makes it a create,    *)
(* which must expect version 0; an existing one needs a positive version.  *)
ReadApplicationToGrant(w, t, window) ==
  /\ session[w].pc = "idle"
  /\ \E e \in Expected(grant[t].version) :
       Becomes(w, [pc |-> "granting", tenant |-> t, expected |-> e,
                   window |-> window, app |-> app])
  /\ UNCHANGED <<app, grant, search, changed>>

ReadGrantToGrant(w) ==
  LET s == session[w] IN
  /\ s.pc = "granting"
  /\ \/ ~ HasGrant(s.tenant) /\ s.expected = 0 /\ Becomes(w, [s EXCEPT !.pc = "create"])
     \/ HasGrant(s.tenant) /\ s.expected > 0 /\ Becomes(w, [s EXCEPT !.pc = "regrant"])
  /\ UNCHANGED <<app, grant, search, changed>>

(* The transaction: the row, its event, and the document as the first read *)
(* of the application describes it.                                        *)
WriteGrant(w, t, version) ==
  LET s == session[w] IN
  /\ grant' = [grant EXCEPT ![t] = [version |-> version, status |-> "active",
                                    window |-> s.window]]
  /\ changed' = changed \cup {[tenant |-> t, kind |-> "granted", version |-> version]}
  /\ search' = search \cup {Document("upserted", t, s.app, version, "grant")}
  /\ Becomes(w, Idle)
  /\ UNCHANGED app

CreateGrant(w) ==
  LET t == session[w].tenant IN
  /\ session[w].pc = "create"
  /\ NoGrantRow(t)
  /\ WriteGrant(w, t, 1)

UpdateGrant(w) ==
  LET t == session[w].tenant IN
  /\ session[w].pc = "regrant"
  /\ AtGrantVersion(t, session[w].expected)
  /\ WriteGrant(w, t, session[w].expected + 1)

-----------------------------------------------------------------------------
(* Revoke reads the grant, then the application.  The rest of the row it   *)
(* writes back is the row's own: the read is no older than the client's,   *)
(* whose version the WHERE clause demands.                                 *)
ReadGrantToRevoke(w, t) ==
  /\ session[w].pc = "idle" /\ HasGrant(t)
  /\ \E e \in Expected(grant[t].version) :
       Becomes(w, [pc |-> "revoking", tenant |-> t, expected |-> e])
  /\ UNCHANGED <<app, grant, search, changed>>

ReadApplicationToRevoke(w) ==
  LET s == session[w] IN
  /\ s.pc = "revoking"
  /\ Becomes(w, [pc |-> "revoke", tenant |-> s.tenant, expected |-> s.expected,
                 app |-> app])
  /\ UNCHANGED <<app, grant, search, changed>>

Revoke(w) ==
  LET s == session[w]
      t == s.tenant
  IN
  /\ s.pc = "revoke"
  /\ AtGrantVersion(t, s.expected)
  /\ grant' = [grant EXCEPT ![t] =
       [version |-> s.expected + 1, status |-> "revoked", window |-> @.window]]
  /\ changed' = changed \cup
       {[tenant |-> t, kind |-> "revoked", version |-> s.expected + 1]}
  /\ search' = search \cup {Document("deleted", t, s.app, s.expected + 1, "grant")}
  /\ Becomes(w, Idle)
  /\ UNCHANGED app

-----------------------------------------------------------------------------
(* UpdateApplication: the UPDATE takes the row's lock and the list of the  *)
(* grants in effect; the events and the new row appear with the commit.    *)
ListActiveGrantsByApplication(w) ==
  /\ session[w].pc = "idle" /\ ~ RowLocked /\ app < MaxAppVersion
  /\ Becomes(w, [pc |-> "updating",
                 granted |-> {<<t, grant[t].version>> : t \in {u \in Tenants : Effective(u)}}])
  /\ UNCHANGED <<app, grant, search, changed>>

UpdateApplication(w) ==
  /\ session[w].pc = "updating"
  /\ app' = app + 1
  /\ search' = search \cup
       {Document("upserted", g[1], VersionProjected, g[2], "update") : g \in session[w].granted}
  /\ Becomes(w, Idle)
  /\ UNCHANGED <<grant, changed>>

(* A publication of menus moves the version of the row too.                *)
PublishMenus ==
  /\ ~ RowLocked /\ app < MaxAppVersion
  /\ app' = app + 1
  /\ UNCHANGED <<grant, search, changed, session>>

(* A request that fails or dies leaves nothing of its transaction.         *)
Abort(w) ==
  /\ session[w].pc # "idle"
  /\ Becomes(w, Idle)
  /\ UNCHANGED <<app, grant, search, changed>>

(* Time passes valid_from, then valid_until.                               *)
ClockMoves(t) ==
  /\ HasGrant(t)
  /\ \E next \in Window :
       /\ <<grant[t].window, next>> \in {<<"pending", "open">>, <<"open", "closed">>}
       /\ grant' = [grant EXCEPT ![t].window = next]
  /\ UNCHANGED <<app, search, changed, session>>

Next ==
  \/ \E w \in Workers :
       \/ \E t \in Tenants, window \in Window : ReadApplicationToGrant(w, t, window)
       \/ \E t \in Tenants : ReadGrantToRevoke(w, t)
       \/ ReadGrantToGrant(w) \/ CreateGrant(w) \/ UpdateGrant(w)
       \/ ReadApplicationToRevoke(w) \/ Revoke(w)
       \/ ListActiveGrantsByApplication(w) \/ UpdateApplication(w)
       \/ Abort(w)
  \/ PublishMenus
  \/ \E t \in Tenants : ClockMoves(t)

Spec == Init /\ [][Next]_vars

-----------------------------------------------------------------------------
(* Every variable has its type; a source version lies among those of a     *)
(* version of the application that exists.                                 *)
TypeOK ==
  /\ app \in Nat
  /\ grant \in [Tenants -> GrantRow]
  /\ search \subseteq Search
  /\ changed \subseteq Changed
  /\ session \in [Workers -> Session]
  /\ \A x \in search :
       /\ x.app \in 1 .. app
       /\ x.app * GrantSpan < x.source /\ x.source < (x.app + 1) * GrantSpan

(* The tenant-grant events of a tenant are the versions of its row, each   *)
(* once, and the latest says what the row says: two creators, or a grant   *)
(* and a revocation of the same version, never both succeed.               *)
GrantHistory ==
  \A t \in Tenants :
    LET events == {c \in changed : c.tenant = t} IN
    /\ {c.version : c \in events} = 1 .. grant[t].version
    /\ \A c, d \in events : c.version = d.version => c = d
    /\ \A c \in events : c.version = grant[t].version =>
         (c.kind = "granted") = (grant[t].status = "active")

(* "searchProjectionVersion orders both application catalog and tenant     *)
(* grant changes": no two documents of a tenant have one source version,   *)
(* though Grant and Revoke use a row of the application that may be old    *)
(* and an update lists the grants before it commits.                       *)
SearchVersionsDistinct ==
  \A x, y \in search : x.tenant = y.tenant /\ x.source = y.source => x = y

(* Source versions order the grant changes of a tenant, whatever happens   *)
(* to the application between the reads of the two requests.               *)
GrantChangesOrdered ==
  \A x, y \in search :
    x.tenant = y.tenant /\ x.by = "grant" /\ y.by = "grant"
      /\ x.grantVersion < y.grantVersion => x.source < y.source

Documents(t) == {x \in search : x.tenant = t}

(* An active grant is searchable: the newest document of its tenant is not *)
(* a deletion, even one whose revocation was overtaken by a new grant.     *)
GrantedIsSearchable ==
  \A t \in Tenants : grant[t].status = "active" =>
    \E x \in Documents(t) : x.kind = "upserted" /\
      \A y \in Documents(t) : y.kind = "deleted" => y.source < x.source

(* The other direction: the newest document of a revoked grant is its      *)
(* deletion, so the index no longer shows the application to the tenant.   *)
RevokedLeavesSearch ==
  \A t \in Tenants : HasGrant(t) /\ grant[t].status = "revoked" =>
    \E x \in Documents(t) : x.kind = "deleted" /\
      \A y \in Documents(t) : y.kind = "upserted" => y.source < x.source
=============================================================================
