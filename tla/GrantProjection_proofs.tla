------------------------ MODULE GrantProjection_proofs ------------------------
(***************************************************************************)
(* What holds of GrantProjection for all tenants, any number of requests,  *)
(* and versions without bound below GrantSpan.                             *)
(***************************************************************************)
EXTENDS GrantProjection, TLAPS

-----------------------------------------------------------------------------
(* The inductive invariant.  What a request has read is no newer than what *)
(* is stored, and the documents of the grants up to the version it expects *)
(* show no newer application than the one it has read: its transaction     *)
(* will find its version only if the grant has not changed since.          *)
Granting == {"granting", "create", "regrant"}

SoundReading(s) ==
  /\ s.pc \in Granting \cup {"revoking", "revoke"} =>
       s.expected < MaxGrantVersion /\ s.expected <= grant[s.tenant].version
  /\ s.pc \in Granting \cup {"revoke"} =>
       /\ s.app \in 1 .. app
       /\ \A x \in Documents(s.tenant) :
            x.by = "grant" /\ x.grantVersion <= s.expected => x.app <= s.app
  /\ s.pc = "updating" =>
       /\ \A g \in s.granted : g[2] \in 1 .. grant[g[1]].version
       /\ \A g, h \in s.granted : g[1] = h[1] => g = h

Readings == \A w \in Workers : SoundReading(session[w])

(* A source version is put together from the two versions without loss.    *)
Sources ==
  /\ \A t \in Tenants : grant[t].version <= MaxGrantVersion
  /\ \A x \in search :
       /\ x.app \in 1 .. app
       /\ x.grantVersion \in 1 .. grant[x.tenant].version
       /\ x.source = x.app * GrantSpan + x.grantVersion

(* The two versions tell the documents of a tenant apart.                  *)
Distinguished ==
  \A x, y \in search :
    x.tenant = y.tenant /\ x.app = y.app /\ x.grantVersion = y.grantVersion => x = y

(* A later change of a grant shows no older application.                   *)
Ordered ==
  \A x, y \in search :
    x.tenant = y.tenant /\ x.by = "grant" /\ y.by = "grant"
      /\ x.grantVersion < y.grantVersion => x.app <= y.app

(* Only revocations delete; what is granted has the document of its grant. *)
Shown ==
  \A t \in Tenants :
    /\ \A x \in Documents(t) : x.kind = "deleted" => x.by = "grant"
    /\ grant[t].status = "active" =>
         /\ \E x \in Documents(t) : /\ x.kind = "upserted" /\ x.by = "grant"
                                    /\ x.grantVersion = grant[t].version
         /\ \A x \in Documents(t) : x.kind = "deleted" => x.grantVersion < grant[t].version

GrantInv ==
  app \in Nat \ {0} /\ TypeOK /\ Readings /\ Sources /\ Distinguished /\ Ordered /\ Shown

-----------------------------------------------------------------------------
(* What a program counter says of the fields of a session.                 *)
LEMMA SessionFields ==
  ASSUME NEW s \in Session
  PROVE  /\ s.pc \in Granting \cup {"idle", "revoking", "revoke", "updating"}
         /\ s.pc \in Granting =>
              s.tenant \in Tenants /\ s.expected \in Nat /\ s.window \in Window /\ s.app \in Nat
         /\ s.pc = "revoking" => s.tenant \in Tenants /\ s.expected \in Nat
         /\ s.pc = "revoke" => s.tenant \in Tenants /\ s.expected \in Nat /\ s.app \in Nat
         /\ s.pc = "updating" => s.granted \in SUBSET (Tenants \X Nat)
  BY DEF Session, Idle, Granting

LEMMA NextSpan ==
  ASSUME NEW a \in Nat, NEW b \in Nat, NEW k \in Nat, a < b
  PROVE  a * k + k <= b * k
  <1>1. PICK d \in Nat : b = a + 1 + d
    <2>1. b - a - 1 \in Nat /\ b = a + 1 + (b - a - 1)
      OBVIOUS
    <2>2. QED BY <2>1
  <1>2. b * k = a * k + k + d * k
    BY <1>1
  <1>3. d * k \in Nat /\ a * k \in Nat
    OBVIOUS
  <1>4. QED BY <1>2, <1>3

(* Source versions order first by application, then by grant.              *)
LEMMA SourceOrder ==
  ASSUME NEW a \in Nat, NEW b \in Nat, NEW g \in Nat, NEW h \in Nat, NEW k \in Nat,
         g < k, a < b \/ (a = b /\ g < h)
  PROVE  a * k + g < b * k + h
  <1>1. CASE a < b
    <2>1. a * k + k <= b * k
      BY <1>1, NextSpan
    <2>2. a * k \in Nat /\ b * k \in Nat
      OBVIOUS
    <2>3. QED BY <2>1, <2>2
  <1>2. CASE a = b /\ g < h
    <2>1. a * k \in Nat
      OBVIOUS
    <2>2. QED BY <1>2, <2>1
  <1>3. QED BY <1>1, <1>2

(* The event of a document, when the grant's version fits.                 *)
LEMMA DocumentShape ==
  ASSUME NEW t \in Tenants, NEW a \in Nat \ {0}, NEW g \in Nat \ {0}, g < GrantSpan,
         NEW kind \in {"upserted", "deleted"}, NEW by \in {"grant", "update"}
  PROVE  LET x == Document(kind, t, a, g, by) IN
         /\ x \in Search
         /\ x.tenant = t /\ x.kind = kind /\ x.by = by
         /\ x.app = a /\ x.grantVersion = g
         /\ x.source = x.app * GrantSpan + x.grantVersion
         /\ x.app * GrantSpan < x.source /\ x.source < (x.app + 1) * GrantSpan
  <1>1. GrantSpan \in Nat /\ a * GrantSpan \in Nat
    BY GrantAssumption
  <1>2. g % GrantSpan = g
    BY <1>1
  <1>3. (a + 1) * GrantSpan = a * GrantSpan + GrantSpan
    BY <1>1
  <1>4. searchProjectionVersion(a, g) = a * GrantSpan + g
    BY <1>2 DEF searchProjectionVersion
  <1>5. a * GrantSpan + g \in Nat
    BY <1>1
  <1>6. QED BY <1>1, <1>3, <1>4, <1>5 DEF Document, Search

-----------------------------------------------------------------------------
LEMMA GrantInvInit == Init => GrantInv
  <1> SUFFICES ASSUME Init PROVE GrantInv
    OBVIOUS
  <1>1. grant \in [Tenants -> GrantRow] /\ \A t \in Tenants : grant[t].version = 0 /\ grant[t].status = "revoked"
    BY DEF Init, GrantRow, Status, Window
  <1>2. session \in [Workers -> Session] /\ \A w \in Workers : session[w].pc = "idle"
    BY DEF Init, Session, Idle
  <1>3. TypeOK
    BY <1>1, <1>2 DEF Init, TypeOK
  <1>4. Readings
    BY <1>2 DEF Readings, SoundReading, Granting
  <1>5. Sources /\ Distinguished /\ Ordered /\ Shown
    BY <1>1, GrantAssumption DEF Init, Sources, Distinguished, Ordered, Shown, Documents
  <1>6. QED BY <1>3, <1>4, <1>5 DEF GrantInv, Init

(* A step that only reads.                                                 *)
LEMMA ReadStep ==
  ASSUME GrantInv, NEW w \in Workers, NEW s \in Session, SoundReading(s),
         Becomes(w, s), UNCHANGED <<app, grant, search, changed>>
  PROVE  GrantInv'
  <1>1. session' \in [Workers -> Session]
    BY DEF GrantInv, TypeOK, Becomes
  <1>2. TypeOK'
    BY <1>1 DEF GrantInv, TypeOK
  <1>3. Readings'
    <2> SUFFICES ASSUME NEW v \in Workers PROVE SoundReading(session[v])'
      BY DEF Readings
    <2>1. session'[v] = IF v = w THEN s ELSE session[v]
      BY DEF GrantInv, TypeOK, Becomes
    <2>2. SoundReading(session'[v])
      BY <2>1 DEF GrantInv, Readings
    <2>3. QED BY <2>2 DEF SoundReading, Documents
  <1>4. (Sources /\ Distinguished /\ Ordered /\ Shown)'
    BY DEF GrantInv, Sources, Distinguished, Ordered, Shown, Documents
  <1>5. QED BY <1>2, <1>3, <1>4 DEF GrantInv

(* A step that changes the grant of one tenant and writes its document.    *)
LEMMA GrantStep ==
  ASSUME GrantInv, NEW w \in Workers, NEW t \in Tenants, NEW a \in 1 .. app,
         NEW row \in GrantRow,
         row.version = grant[t].version + 1, row.version <= MaxGrantVersion,
         \A x \in Documents(t) : x.by = "grant" => x.app <= a,
         NEW kind \in {"upserted", "deleted"},
         kind = "upserted" <=> row.status = "active",
         grant' = [grant EXCEPT ![t] = row],
         search' = search \cup {Document(kind, t, a, row.version, "grant")},
         changed' \subseteq Changed, Becomes(w, Idle), UNCHANGED app
  PROVE  GrantInv'
  <1> DEFINE new == Document(kind, t, a, row.version, "grant")
  <1>1. /\ new \in Search
        /\ new.tenant = t /\ new.kind = kind /\ new.by = "grant"
        /\ new.app = a /\ new.grantVersion = row.version
        /\ new.source = new.app * GrantSpan + new.grantVersion
        /\ new.app * GrantSpan < new.source /\ new.source < (new.app + 1) * GrantSpan
    <2>1. row.version \in Nat \ {0} /\ row.version < GrantSpan /\ a \in Nat \ {0}
      BY GrantAssumption DEF GrantInv, TypeOK, GrantRow
    <2>2. QED BY <2>1, DocumentShape
  <1>2. /\ grant' \in [Tenants -> GrantRow]
        /\ \A u \in Tenants : grant'[u] = IF u = t THEN row ELSE grant[u]
    BY DEF GrantInv, TypeOK
  <1>3. \A u \in Tenants : /\ grant[u].version \in Nat /\ grant'[u].version \in Nat
                           /\ grant[u].version <= grant'[u].version
    BY <1>2 DEF GrantInv, TypeOK, GrantRow
  <1>4. /\ session' \in [Workers -> Session]
        /\ \A v \in Workers : session'[v] = IF v = w THEN Idle ELSE session[v]
    BY DEF GrantInv, TypeOK, Becomes, Session
  <1> HIDE DEF new
  <1>5. search' = search \cup {new}
    BY DEF new
  <1>6. \A x \in search : x.app \in Nat /\ x.grantVersion \in Nat /\ x.tenant \in Tenants
    BY DEF GrantInv, TypeOK, Search
  <1>7. TypeOK'
    BY <1>1, <1>2, <1>4, <1>5 DEF GrantInv, TypeOK
  <1>8. \A x \in search : x.tenant = t => x.grantVersion < new.grantVersion
    BY <1>1, <1>3, <1>6 DEF GrantInv, Sources
  <1>9. Readings'
    <2> SUFFICES ASSUME NEW v \in Workers PROVE SoundReading(session[v])'
      BY DEF Readings
    <2>1. CASE v = w
      BY <2>1, <1>4 DEF SoundReading, Granting, Idle
    <2>2. CASE v # w
      <3> DEFINE s == session[v]
      <3>1. s = session'[v] /\ s \in Session /\ SoundReading(s)
        BY <2>2, <1>4 DEF GrantInv, Readings, TypeOK
      <3>2. s.pc \in Granting \cup {"revoking", "revoke"} =>
              s.tenant \in Tenants /\ s.expected \in Nat
        BY <3>1, SessionFields
      <3>3. s.pc = "updating" => s.granted \in SUBSET (Tenants \X Nat)
        BY <3>1, SessionFields
      <3> HIDE DEF s
      <3>4. s.pc \in Granting \cup {"revoking", "revoke"} =>
              s.expected < MaxGrantVersion /\ s.expected <= grant'[s.tenant].version
        BY <3>1, <3>2, <1>3, GrantAssumption DEF SoundReading
      <3>5. ASSUME s.pc \in Granting \cup {"revoke"}, NEW x \in search', x.tenant = s.tenant,
                   x.by = "grant", x.grantVersion <= s.expected
            PROVE  x.app <= s.app
        <4>1. x = new => ~ (x.grantVersion <= s.expected)
          BY <3>5, <3>1, <3>2, <1>1, <1>3 DEF SoundReading
        <4>2. x \in search
          BY <3>5, <4>1, <1>5
        <4>3. QED BY <3>5, <3>1, <4>2 DEF SoundReading, Documents
      <3>6. s.pc = "updating" => \A g \in s.granted : g[2] \in 1 .. grant'[g[1]].version
        BY <3>1, <3>3, <1>3 DEF SoundReading
      <3>7. QED BY <3>1, <3>4, <3>5, <3>6 DEF SoundReading, Documents
    <2>3. QED BY <2>1, <2>2
  <1>10. Sources'
    <2>1. \A u \in Tenants : grant'[u].version <= MaxGrantVersion
      BY <1>2 DEF GrantInv, Sources
    <2>2. ASSUME NEW x \in search'
          PROVE  /\ x.app \in 1 .. app'
                 /\ x.grantVersion \in 1 .. grant'[x.tenant].version
                 /\ x.source = x.app * GrantSpan + x.grantVersion
      <3>1. CASE x = new
        <4>1. row.version \in 1 .. grant'[t].version
          BY <1>2, <1>3
        <4>2. QED BY <3>1, <4>1, <1>1
      <3>2. CASE x \in search
        BY <3>2, <1>3, <1>6 DEF GrantInv, Sources
      <3>3. QED BY <3>1, <3>2, <1>5
    <2>3. QED BY <2>1, <2>2 DEF Sources
  <1>11. Distinguished'
    BY <1>1, <1>5, <1>6, <1>8 DEF GrantInv, Distinguished
  <1>12. Ordered'
    <2> SUFFICES ASSUME NEW x \in search', NEW y \in search', x.tenant = y.tenant,
                        x.by = "grant", y.by = "grant", x.grantVersion < y.grantVersion
                 PROVE  x.app <= y.app
      BY DEF Ordered
    <2>1. CASE x = new
      BY <2>1, <1>1, <1>3, <1>5, <1>6, <1>8
    <2>2. CASE x \in search /\ y = new
      BY <2>2, <1>1 DEF Documents
    <2>3. CASE x \in search /\ y \in search
      BY <2>3 DEF GrantInv, Ordered
    <2>4. QED BY <2>1, <2>2, <2>3, <1>5
  <1>13. Shown'
    <2> SUFFICES ASSUME NEW u \in Tenants
                 PROVE  /\ \A x \in Documents(u)' : x.kind = "deleted" => x.by = "grant"
                        /\ grant'[u].status = "active" =>
                             /\ \E x \in Documents(u)' :
                                  /\ x.kind = "upserted" /\ x.by = "grant"
                                  /\ x.grantVersion = grant'[u].version
                             /\ \A x \in Documents(u)' :
                                  x.kind = "deleted" => x.grantVersion < grant'[u].version
      BY DEF Shown
    <2>1. CASE u = t
      <3>1. Documents(u)' = Documents(u) \cup {new}
        BY <2>1, <1>1, <1>5 DEF Documents
      <3>2. grant'[u].status = "active" => new.kind = "upserted" /\ new.grantVersion = grant'[u].version
        BY <2>1, <1>1, <1>2
      <3>3. grant'[u].version = new.grantVersion
        BY <2>1, <1>1, <1>2
      <3>4. QED BY <2>1, <3>1, <3>2, <3>3, <1>1, <1>8 DEF GrantInv, Shown, Documents
    <2>2. CASE u # t
      <3>1. Documents(u)' = Documents(u) /\ grant'[u] = grant[u]
        BY <2>2, <1>1, <1>2, <1>5 DEF Documents
      <3>2. QED BY <3>1 DEF GrantInv, Shown
    <2>3. QED BY <2>1, <2>2
  <1>14. QED BY <1>7, <1>9, <1>10, <1>11, <1>12, <1>13 DEF GrantInv

(* The commit of an update: its documents show the version it creates.     *)
LEMMA UpdateStep ==
  ASSUME GrantInv, NEW w \in Workers, UpdateApplication(w)
  PROVE  GrantInv'
  <1> DEFINE granted == session[w].granted
             new == {Document("upserted", g[1], VersionProjected, g[2], "update") : g \in granted}
  <1>1. /\ session[w] \in Session /\ SoundReading(session[w]) /\ session[w].pc = "updating"
        /\ granted \in SUBSET (Tenants \X Nat)
    BY SessionFields DEF GrantInv, TypeOK, Readings, UpdateApplication
  <1>2. \A g \in granted : g[1] \in Tenants /\ g[2] \in Nat /\ g[2] \in 1 .. grant[g[1]].version
    BY <1>1 DEF SoundReading
  <1>3. app \in Nat \ {0} /\ app' = app + 1 /\ VersionProjected = app + 1
    BY DEF GrantInv, UpdateApplication, VersionProjected
  <1>4. ASSUME NEW g \in granted
        PROVE  LET x == Document("upserted", g[1], VersionProjected, g[2], "update") IN
               /\ x \in Search
               /\ x.tenant = g[1] /\ x.kind = "upserted" /\ x.by = "update"
               /\ x.app = app + 1 /\ x.grantVersion = g[2]
               /\ x.source = x.app * GrantSpan + x.grantVersion
               /\ x.app * GrantSpan < x.source /\ x.source < (x.app + 1) * GrantSpan
    <2>1. g[1] \in Tenants /\ g[2] \in Nat \ {0} /\ g[2] < GrantSpan
      <3>1. g[1] \in Tenants /\ g[2] \in 1 .. grant[g[1]].version
        BY <1>2
      <3>2. grant[g[1]].version \in Nat /\ grant[g[1]].version <= MaxGrantVersion
        BY <3>1 DEF GrantInv, TypeOK, Sources, GrantRow
      <3>3. QED BY <3>1, <3>2, GrantAssumption
    <2>2. VersionProjected \in Nat \ {0}
      BY <1>3
    <2> DEFINE t == g[1]
               v == g[2]
               a == VersionProjected
    <2> HIDE DEF t, v, a
    <2>3. LET x == Document("upserted", t, a, v, "update") IN
          /\ x \in Search
          /\ x.tenant = t /\ x.kind = "upserted" /\ x.by = "update"
          /\ x.app = a /\ x.grantVersion = v
          /\ x.source = x.app * GrantSpan + x.grantVersion
          /\ x.app * GrantSpan < x.source /\ x.source < (x.app + 1) * GrantSpan
      <3>1. t \in Tenants /\ v \in Nat \ {0} /\ v < GrantSpan /\ a \in Nat \ {0}
        BY <2>1, <2>2 DEF t, v, a
      <3>2. QED BY <3>1, DocumentShape
    <2>4. QED BY <2>3, <1>3 DEF t, v, a
  <1>5. \A x \in new : \E g \in granted :
          /\ x = Document("upserted", g[1], VersionProjected, g[2], "update")
          /\ x \in Search
          /\ x.tenant = g[1] /\ x.kind = "upserted" /\ x.by = "update"
          /\ x.app = app + 1 /\ x.grantVersion = g[2]
          /\ x.source = x.app * GrantSpan + x.grantVersion
          /\ x.app * GrantSpan < x.source /\ x.source < (x.app + 1) * GrantSpan
    BY <1>4
  <1>6. search' = search \cup new /\ UNCHANGED <<grant, changed>>
    BY DEF UpdateApplication
  <1>7. /\ session' \in [Workers -> Session]
        /\ \A v \in Workers : session'[v] = IF v = w THEN Idle ELSE session[v]
    BY DEF GrantInv, TypeOK, Becomes, Session, UpdateApplication
  <1> HIDE DEF new, granted
  <1>8. \A x \in search : x.app \in 1 .. app
    BY DEF GrantInv, Sources
  <1>9. TypeOK'
    <2>1. search' \subseteq Search
      BY <1>5, <1>6 DEF GrantInv, TypeOK
    <2>2. \A x \in search' : /\ x.app \in 1 .. app'
                             /\ x.app * GrantSpan < x.source
                             /\ x.source < (x.app + 1) * GrantSpan
      <3>1. \A x \in search : /\ x.app \in 1 .. app'
                              /\ x.app * GrantSpan < x.source
                              /\ x.source < (x.app + 1) * GrantSpan
        BY <1>3, <1>8 DEF GrantInv, TypeOK
      <3>2. \A x \in new : /\ x.app \in 1 .. app'
                           /\ x.app * GrantSpan < x.source
                           /\ x.source < (x.app + 1) * GrantSpan
        <4>1. app + 1 \in 1 .. app'
          BY <1>3
        <4>2. QED BY <1>5, <4>1
      <3>3. QED BY <3>1, <3>2, <1>6
    <2>3. QED BY <2>1, <2>2, <1>3, <1>6, <1>7 DEF GrantInv, TypeOK
  <1>10. Readings'
    <2> SUFFICES ASSUME NEW v \in Workers PROVE SoundReading(session[v])'
      BY DEF Readings
    <2>1. CASE v = w
      BY <2>1, <1>7 DEF SoundReading, Granting, Idle
    <2>2. CASE v # w
      <3> DEFINE s == session[v]
      <3>1. s = session'[v] /\ SoundReading(s)
        BY <2>2, <1>7 DEF GrantInv, Readings
      <3> HIDE DEF s
      <3>2. s.app \in 1 .. app => s.app \in 1 .. app'
        BY <1>3
      <3>3. \A x \in search' : x.tenant = s.tenant /\ x.by = "grant" => x \in Documents(s.tenant)
        BY <1>5, <1>6 DEF Documents
      <3>4. QED BY <3>1, <3>2, <3>3, <1>6 DEF SoundReading, Documents
    <2>3. QED BY <2>1, <2>2
  <1>11. Sources'
    <2>1. ASSUME NEW x \in new
          PROVE  /\ x.app \in 1 .. app'
                 /\ x.grantVersion \in 1 .. grant'[x.tenant].version
                 /\ x.source = x.app * GrantSpan + x.grantVersion
      <3>1. app + 1 \in 1 .. app'
        BY <1>3
      <3>2. QED BY <3>1, <1>2, <1>5, <1>6
    <2>2. ASSUME NEW x \in search
          PROVE  /\ x.app \in 1 .. app'
                 /\ x.grantVersion \in 1 .. grant'[x.tenant].version
                 /\ x.source = x.app * GrantSpan + x.grantVersion
      BY <1>3, <1>6, <1>8 DEF GrantInv, Sources
    <2>3. QED BY <2>1, <2>2, <1>6 DEF GrantInv, Sources
  <1>12. Distinguished'
    <2> SUFFICES ASSUME NEW x \in search', NEW y \in search', x.tenant = y.tenant,
                        x.app = y.app, x.grantVersion = y.grantVersion
                 PROVE  x = y
      BY DEF Distinguished
    <2>1. CASE x \in new /\ y \in new
      <3>1. PICK g \in granted :
              /\ x = Document("upserted", g[1], VersionProjected, g[2], "update")
              /\ x.tenant = g[1]
        BY <2>1, <1>5
      <3>2. PICK h \in granted :
              /\ y = Document("upserted", h[1], VersionProjected, h[2], "update")
              /\ y.tenant = h[1]
        BY <2>1, <1>5
      <3>3. g = h
        BY <3>1, <3>2, <1>1 DEF SoundReading, granted
      <3>4. QED BY <3>1, <3>2, <3>3
    <2>2. CASE x \in search /\ y \in search
      BY <2>2 DEF GrantInv, Distinguished
    <2>3. CASE (x \in search /\ y \in new) \/ (x \in new /\ y \in search)
      BY <2>3, <1>3, <1>5, <1>8
    <2>4. QED BY <2>1, <2>2, <2>3, <1>6
  <1>13. Ordered'
    BY <1>5, <1>6 DEF GrantInv, Ordered
  <1>14. Shown'
    <2>1. ASSUME NEW u \in Tenants
          PROVE  /\ Documents(u) \subseteq Documents(u)'
                 /\ \A x \in Documents(u)' : x.kind = "deleted" => x \in Documents(u)
      BY <1>5, <1>6 DEF Documents
    <2>2. QED BY <2>1, <1>6 DEF GrantInv, Shown
  <1>15. QED BY <1>3, <1>9, <1>10, <1>11, <1>12, <1>13, <1>14 DEF GrantInv

(* Publications and the clock.                                             *)
LEMMA PublishMenusStep ==
  ASSUME GrantInv, PublishMenus
  PROVE  GrantInv'
  <1>1. app \in Nat \ {0} /\ app' = app + 1 /\ UNCHANGED <<grant, search, changed, session>>
    BY DEF GrantInv, PublishMenus
  <1>2. 1 .. app \subseteq 1 .. app'
    BY <1>1
  <1>3. TypeOK'
    BY <1>1, <1>2 DEF GrantInv, TypeOK
  <1>4. Readings'
    BY <1>1, <1>2 DEF GrantInv, Readings, SoundReading, Documents
  <1>5. Sources'
    BY <1>1, <1>2 DEF GrantInv, Sources
  <1>6. (Distinguished /\ Ordered /\ Shown)'
    BY <1>1 DEF GrantInv, Distinguished, Ordered, Shown, Documents
  <1>7. QED BY <1>1, <1>3, <1>4, <1>5, <1>6 DEF GrantInv

LEMMA ClockStep ==
  ASSUME GrantInv, NEW t \in Tenants, ClockMoves(t)
  PROVE  GrantInv'
  <1>1. /\ grant' \in [Tenants -> GrantRow]
        /\ \A u \in Tenants : grant'[u].version = grant[u].version
                             /\ grant'[u].status = grant[u].status
    <2>1. PICK next \in Window : grant' = [grant EXCEPT ![t].window = next]
      BY DEF ClockMoves
    <2>2. QED BY <2>1 DEF GrantInv, TypeOK, GrantRow
  <1>2. UNCHANGED <<app, search, changed, session>>
    BY DEF ClockMoves
  <1>3. TypeOK'
    BY <1>1, <1>2 DEF GrantInv, TypeOK
  <1>4. Readings'
    <2> SUFFICES ASSUME NEW v \in Workers PROVE SoundReading(session[v])'
      BY DEF Readings
    <2> DEFINE s == session[v]
    <2>1. s = session'[v] /\ s \in Session /\ SoundReading(s)
      BY <1>2 DEF GrantInv, Readings, TypeOK
    <2>2. s.pc \in Granting \cup {"revoking", "revoke"} => s.tenant \in Tenants
      BY <2>1, SessionFields
    <2>3. s.pc = "updating" => s.granted \in SUBSET (Tenants \X Nat)
      BY <2>1, SessionFields
    <2> HIDE DEF s
    <2>4. s.pc = "updating" => \A g \in s.granted : grant'[g[1]].version = grant[g[1]].version
      BY <2>3, <1>1
    <2>5. QED BY <2>1, <2>2, <2>4, <1>1, <1>2 DEF SoundReading, Documents
  <1>5. Sources'
    <2>1. \A x \in search : x.tenant \in Tenants
      BY DEF GrantInv, TypeOK, Search
    <2>2. QED BY <2>1, <1>1, <1>2 DEF GrantInv, Sources
  <1>6. (Distinguished /\ Ordered)'
    BY <1>2 DEF GrantInv, Distinguished, Ordered
  <1>7. Shown'
    BY <1>1, <1>2 DEF GrantInv, Shown, Documents
  <1>8. QED BY <1>2, <1>3, <1>4, <1>5, <1>6, <1>7 DEF GrantInv

-----------------------------------------------------------------------------
(* The steps of a request.                                                 *)
LEMMA ReadingSteps ==
  ASSUME GrantInv, NEW w \in Workers,
         \/ \E t \in Tenants, window \in Window : ReadApplicationToGrant(w, t, window)
         \/ \E t \in Tenants : ReadGrantToRevoke(w, t)
         \/ ReadGrantToGrant(w) \/ ReadApplicationToRevoke(w)
         \/ ListActiveGrantsByApplication(w) \/ Abort(w)
  PROVE  GrantInv'
  <1>1. session[w] \in Session /\ SoundReading(session[w]) /\ app \in Nat \ {0}
    BY DEF GrantInv, TypeOK, Readings
  <1>2. \A x \in search : x.app <= app
    BY DEF GrantInv, Sources
  <1>3. \A t \in Tenants : \A e \in Expected(grant[t].version) :
          e \in Nat /\ e < MaxGrantVersion /\ e <= grant[t].version
    BY DEF Expected, GrantInv, TypeOK, GrantRow
  <1>4. ASSUME NEW t \in Tenants, NEW window \in Window, ReadApplicationToGrant(w, t, window)
        PROVE  GrantInv'
    <2>1. PICK e \in Expected(grant[t].version) :
            Becomes(w, [pc |-> "granting", tenant |-> t, expected |-> e,
                        window |-> window, app |-> app])
      BY <1>4 DEF ReadApplicationToGrant
    <2> DEFINE s == [pc |-> "granting", tenant |-> t, expected |-> e,
                     window |-> window, app |-> app]
    <2>2. s \in Session
      BY <1>1, <1>3 DEF Session
    <2>3. SoundReading(s)
      BY <1>1, <1>2, <1>3 DEF SoundReading, Granting, Documents
    <2>4. UNCHANGED <<app, grant, search, changed>>
      BY <1>4 DEF ReadApplicationToGrant
    <2> HIDE DEF s
    <2>5. Becomes(w, s)
      BY <2>1 DEF s
    <2>6. QED BY <2>2, <2>3, <2>4, <2>5, ReadStep
  <1>5. ASSUME NEW t \in Tenants, ReadGrantToRevoke(w, t)
        PROVE  GrantInv'
    <2>1. PICK e \in Expected(grant[t].version) :
            Becomes(w, [pc |-> "revoking", tenant |-> t, expected |-> e])
      BY <1>5 DEF ReadGrantToRevoke
    <2> DEFINE s == [pc |-> "revoking", tenant |-> t, expected |-> e]
    <2>2. s \in Session /\ SoundReading(s)
      BY <1>3 DEF Session, SoundReading, Granting
    <2>3. UNCHANGED <<app, grant, search, changed>>
      BY <1>5 DEF ReadGrantToRevoke
    <2> HIDE DEF s
    <2>4. Becomes(w, s)
      BY <2>1 DEF s
    <2>5. QED BY <2>2, <2>3, <2>4, ReadStep
  <1>6. CASE ReadGrantToGrant(w)
    <2>1. PICK pc \in {"create", "regrant"} : Becomes(w, [session[w] EXCEPT !.pc = pc])
      BY <1>6 DEF ReadGrantToGrant
    <2> DEFINE s == [session[w] EXCEPT !.pc = pc]
    <2>2. session[w].pc = "granting" /\ UNCHANGED <<app, grant, search, changed>>
      BY <1>6 DEF ReadGrantToGrant
    <2>3. session[w] \in [pc : {"granting"}, tenant : Tenants, expected : Nat,
                         window : Window, app : Nat]
      BY <1>1, <2>2 DEF Session, Idle
    <2>4. s \in Session
      BY <2>3 DEF Session
    <2>5. SoundReading(s)
      <3>1. s.pc = pc /\ s.tenant = session[w].tenant /\ s.expected = session[w].expected
              /\ s.app = session[w].app
        BY <2>3
      <3>2. QED BY <1>1, <2>2, <3>1 DEF SoundReading, Granting
    <2> HIDE DEF s
    <2>6. Becomes(w, s)
      BY <2>1 DEF s
    <2>7. QED BY <2>2, <2>4, <2>5, <2>6, ReadStep
  <1>7. CASE ReadApplicationToRevoke(w)
    <2> DEFINE s == [pc |-> "revoke", tenant |-> session[w].tenant,
                     expected |-> session[w].expected, app |-> app]
    <2>1. Becomes(w, s) /\ session[w].pc = "revoking" /\ UNCHANGED <<app, grant, search, changed>>
      BY <1>7 DEF ReadApplicationToRevoke
    <2>2. session[w].tenant \in Tenants /\ session[w].expected \in Nat
      BY <1>1, <2>1, SessionFields
    <2>3. s \in Session
      BY <1>1, <2>2 DEF Session
    <2>4. SoundReading(s)
      BY <1>1, <1>2, <2>1 DEF SoundReading, Granting, Documents
    <2> HIDE DEF s
    <2>5. QED BY <2>1, <2>3, <2>4, ReadStep
  <1>8. CASE ListActiveGrantsByApplication(w)
    <2> DEFINE granted == {<<t, grant[t].version>> : t \in {u \in Tenants : Effective(u)}}
               s == [pc |-> "updating", granted |-> granted]
    <2>1. Becomes(w, s) /\ UNCHANGED <<app, grant, search, changed>>
      BY <1>8 DEF ListActiveGrantsByApplication
    <2>2. \A g \in granted : /\ g \in Tenants \X Nat
                             /\ g[2] = grant[g[1]].version
                             /\ grant[g[1]].status = "active"
      BY DEF GrantInv, TypeOK, GrantRow, Effective
    <2>3. \A t \in Tenants : grant[t].status = "active" => grant[t].version \in 1 .. grant[t].version
      BY DEF GrantInv, Shown, Sources, Documents, TypeOK, GrantRow
    <2>4. \A g, h \in granted : g[1] = h[1] => g = h
      OBVIOUS
    <2>5. \A g \in granted : g[2] \in 1 .. grant[g[1]].version
      BY <2>2, <2>3
    <2> HIDE DEF granted
    <2>6. s \in Session
      BY <2>2 DEF Session
    <2>7. SoundReading(s)
      BY <2>4, <2>5 DEF SoundReading, Granting
    <2> HIDE DEF s
    <2>8. QED BY <2>1, <2>6, <2>7, ReadStep
  <1>9. CASE Abort(w)
    <2>1. Becomes(w, Idle) /\ UNCHANGED <<app, grant, search, changed>>
      BY <1>9 DEF Abort
    <2>2. Idle \in Session /\ SoundReading(Idle)
      BY DEF Session, SoundReading, Idle, Granting
    <2>3. QED BY <2>1, <2>2, ReadStep
  <1>10. QED BY <1>4, <1>5, <1>6, <1>7, <1>8, <1>9

LEMMA GrantingSteps ==
  ASSUME GrantInv, NEW w \in Workers, CreateGrant(w) \/ UpdateGrant(w)
  PROVE  GrantInv'
  <1> DEFINE s == session[w]
             t == s.tenant
             version == IF s.pc = "create" THEN 1 ELSE s.expected + 1
             row == [version |-> version, status |-> "active", window |-> s.window]
  <1>1. s \in Session /\ SoundReading(s) /\ s.pc \in {"create", "regrant"}
    BY DEF GrantInv, TypeOK, Readings, CreateGrant, UpdateGrant
  <1>2. t \in Tenants /\ s.expected \in Nat /\ s.window \in Window
    BY <1>1, SessionFields DEF Granting
  <1>3. s.expected < MaxGrantVersion /\ s.app \in 1 .. app
    BY <1>1 DEF SoundReading, Granting
  <1>4. grant[t].version \in Nat
    BY <1>2 DEF GrantInv, TypeOK, GrantRow
  <1>5. /\ version = grant[t].version + 1 /\ version <= MaxGrantVersion
        /\ grant[t].version <= s.expected
        /\ WriteGrant(w, t, version)
    <2>1. CASE CreateGrant(w)
      <3>1. s.pc = "create" /\ grant[t].version = 0 /\ WriteGrant(w, t, 1)
        BY <2>1, <1>4 DEF CreateGrant, NoGrantRow, HasGrant
      <3>2. QED BY <3>1, <1>2, <1>3, GrantAssumption
    <2>2. CASE UpdateGrant(w)
      <3>1. s.pc = "regrant" /\ grant[t].version = s.expected /\ WriteGrant(w, t, s.expected + 1)
        BY <2>2 DEF UpdateGrant, AtGrantVersion
      <3>2. QED BY <3>1, <1>2, <1>3, GrantAssumption
    <2>3. QED BY <2>1, <2>2
  <1>6. row \in GrantRow /\ row.version = version /\ row.status = "active"
    BY <1>2, <1>4, <1>5 DEF GrantRow, Status
  <1>7. /\ grant' = [grant EXCEPT ![t] = row]
        /\ search' = search \cup {Document("upserted", t, s.app, row.version, "grant")}
        /\ changed' = changed \cup {[tenant |-> t, kind |-> "granted", version |-> version]}
        /\ Becomes(w, Idle) /\ UNCHANGED app
    BY <1>5 DEF WriteGrant
  <1>8. changed' \subseteq Changed
    BY <1>2, <1>4, <1>5, <1>7 DEF GrantInv, TypeOK, Changed
  <1>9. \A x \in Documents(t) : x.by = "grant" => x.app <= s.app
    <2>1. \A x \in Documents(t) : x.grantVersion \in Nat /\ x.grantVersion <= grant[t].version
      BY DEF GrantInv, Sources, Documents
    <2>2. \A x \in Documents(t) : x.grantVersion <= s.expected
      BY <2>1, <1>2, <1>4, <1>5
    <2>3. QED BY <2>2, <1>1 DEF SoundReading, Granting
  <1> DEFINE a == s.app
             kind == "upserted"
  <1> HIDE DEF row, version, t, a, kind
  <1>10. /\ kind \in {"upserted", "deleted"} /\ kind = "upserted"
         /\ a \in 1 .. app /\ row.version <= MaxGrantVersion
         /\ search' = search \cup {Document(kind, t, a, row.version, "grant")}
         /\ \A x \in Documents(t) : x.by = "grant" => x.app <= a
    BY <1>3, <1>5, <1>6, <1>7, <1>9 DEF a, kind
  <1>11. QED BY <1>2, <1>5, <1>6, <1>7, <1>8, <1>10, GrantStep

LEMMA RevokeStep ==
  ASSUME GrantInv, NEW w \in Workers, Revoke(w)
  PROVE  GrantInv'
  <1> DEFINE s == session[w]
             t == s.tenant
             row == [version |-> s.expected + 1, status |-> "revoked",
                     window |-> grant[t].window]
  <1>1. s \in Session /\ SoundReading(s) /\ s.pc = "revoke"
    BY DEF GrantInv, TypeOK, Readings, Revoke
  <1>2. t \in Tenants /\ s.expected \in Nat
    BY <1>1, SessionFields
  <1>3. s.expected < MaxGrantVersion /\ s.app \in 1 .. app
    BY <1>1 DEF SoundReading
  <1>4. grant[t] \in GrantRow /\ grant[t].version = s.expected
    BY <1>2 DEF GrantInv, TypeOK, Revoke, AtGrantVersion
  <1>5. row \in GrantRow /\ row.version = s.expected + 1 /\ row.status = "revoked"
    BY <1>2, <1>4 DEF GrantRow, Status
  <1>6. row.version = grant[t].version + 1 /\ row.version <= MaxGrantVersion
    BY <1>2, <1>3, <1>4, <1>5, GrantAssumption
  <1>7. /\ grant' = [grant EXCEPT ![t] = row]
        /\ search' = search \cup {Document("deleted", t, s.app, s.expected + 1, "grant")}
        /\ changed' = changed \cup {[tenant |-> t, kind |-> "revoked", version |-> s.expected + 1]}
        /\ Becomes(w, Idle) /\ UNCHANGED app
    BY DEF Revoke
  <1>8. changed' \subseteq Changed
    BY <1>2, <1>7 DEF GrantInv, TypeOK, Changed
  <1>9. \A x \in Documents(t) : x.by = "grant" => x.app <= s.app
    <2>1. \A x \in Documents(t) : x.grantVersion <= s.expected
      BY <1>4 DEF GrantInv, Sources, Documents
    <2>2. QED BY <2>1, <1>1 DEF SoundReading
  <1> DEFINE a == s.app
             kind == "deleted"
  <1> HIDE DEF row, t, a, kind
  <1>10. /\ kind \in {"upserted", "deleted"} /\ kind # "upserted"
         /\ a \in 1 .. app
         /\ search' = search \cup {Document(kind, t, a, row.version, "grant")}
         /\ \A x \in Documents(t) : x.by = "grant" => x.app <= a
    BY <1>3, <1>5, <1>7, <1>9 DEF a, kind
  <1>11. QED BY <1>2, <1>5, <1>6, <1>7, <1>8, <1>10, GrantStep

LEMMA GrantInvNext == GrantInv /\ [Next]_vars => GrantInv'
  <1> SUFFICES ASSUME GrantInv, [Next]_vars PROVE GrantInv'
    OBVIOUS
  <1>1. ASSUME NEW w \in Workers, CreateGrant(w) \/ UpdateGrant(w) PROVE GrantInv'
    BY <1>1, GrantingSteps
  <1>2. ASSUME NEW w \in Workers, Revoke(w) PROVE GrantInv'
    BY <1>2, RevokeStep
  <1>3. ASSUME NEW w \in Workers, UpdateApplication(w) PROVE GrantInv'
    BY <1>3, UpdateStep
  <1>4. ASSUME NEW w \in Workers,
               \/ \E t \in Tenants, window \in Window : ReadApplicationToGrant(w, t, window)
               \/ \E t \in Tenants : ReadGrantToRevoke(w, t)
               \/ ReadGrantToGrant(w) \/ ReadApplicationToRevoke(w)
               \/ ListActiveGrantsByApplication(w) \/ Abort(w)
        PROVE  GrantInv'
    BY <1>4, ReadingSteps
  <1>5. CASE PublishMenus
    BY <1>5, PublishMenusStep
  <1>6. ASSUME NEW t \in Tenants, ClockMoves(t) PROVE GrantInv'
    BY <1>6, ClockStep
  <1>7. CASE UNCHANGED vars
    BY <1>7 DEF vars, GrantInv, TypeOK, Readings, SoundReading, Sources, Distinguished,
                Ordered, Shown, Documents
  <1>8. QED BY <1>1, <1>2, <1>3, <1>4, <1>5, <1>6, <1>7 DEF Next

LEMMA GrantInvAlways == Spec => []GrantInv
  <1>1. QED BY GrantInvInit, GrantInvNext, PTL DEF Spec

-----------------------------------------------------------------------------
(* The history of a tenant's grant is inductive as it stands.              *)
LEMMA HistoryGrows ==
  ASSUME TypeOK, GrantHistory, NEW t \in Tenants, NEW row \in GrantRow,
         row.version = grant[t].version + 1,
         NEW kind \in {"granted", "revoked"},
         (kind = "granted") = (row.status = "active"),
         grant' = [grant EXCEPT ![t] = row],
         changed' = changed \cup {[tenant |-> t, kind |-> kind, version |-> row.version]}
  PROVE  GrantHistory'
  <1> DEFINE new == [tenant |-> t, kind |-> kind, version |-> row.version]
             Of(c, u) == {e \in c : e.tenant = u}
  <1> SUFFICES ASSUME NEW u \in Tenants
               PROVE  /\ {e.version : e \in Of(changed', u)} = 1 .. grant'[u].version
                      /\ \A e, f \in Of(changed', u) : e.version = f.version => e = f
                      /\ \A e \in Of(changed', u) : e.version = grant'[u].version =>
                           (e.kind = "granted") = (grant'[u].status = "active")
    BY DEF GrantHistory
  <1>1. /\ {e.version : e \in Of(changed, u)} = 1 .. grant[u].version
        /\ \A e, f \in Of(changed, u) : e.version = f.version => e = f
        /\ \A e \in Of(changed, u) : e.version = grant[u].version =>
             (e.kind = "granted") = (grant[u].status = "active")
    BY DEF GrantHistory
  <1>2. CASE u # t
    <2>1. Of(changed', u) = Of(changed, u) /\ grant'[u] = grant[u]
      BY <1>2 DEF TypeOK
    <2>2. QED BY <2>1, <1>1
  <1>3. CASE u = t
    <2>1. grant'[u] = row /\ grant[u].version \in Nat
      BY <1>3 DEF TypeOK, GrantRow
    <2>2. Of(changed', u) = Of(changed, u) \cup {new}
      BY <1>3
    <2>3. new.version = grant[u].version + 1 /\ new.kind = kind
      BY <1>3
    <2>4. \A e \in Of(changed, u) : e.version \in 1 .. grant[u].version
      BY <1>1
    <2> HIDE DEF new, Of
    <2>5. \A e \in Of(changed, u) : e.version # new.version
      BY <2>1, <2>3, <2>4
    <2>6. {e.version : e \in Of(changed', u)} = 1 .. grant'[u].version
      <3>1. {e.version : e \in Of(changed', u)} = (1 .. grant[u].version) \cup {new.version}
        BY <1>1, <2>2
      <3>2. (1 .. grant[u].version) \cup {grant[u].version + 1} = 1 .. (grant[u].version + 1)
        BY <2>1
      <3>3. QED BY <3>1, <3>2, <2>1, <2>3, <1>3
    <2>7. \A e, f \in Of(changed', u) : e.version = f.version => e = f
      BY <1>1, <2>2, <2>5
    <2>8. \A e \in Of(changed', u) : e.version = grant'[u].version =>
            (e.kind = "granted") = (grant'[u].status = "active")
      BY <2>1, <2>2, <2>3, <2>5, <1>3
    <2>9. QED BY <2>6, <2>7, <2>8
  <1>4. QED BY <1>2, <1>3

LEMMA HistoryNext == GrantInv /\ GrantHistory /\ [Next]_vars => GrantHistory'
  <1> SUFFICES ASSUME GrantInv, GrantHistory, [Next]_vars PROVE GrantHistory'
    OBVIOUS
  <1>1. TypeOK
    BY DEF GrantInv
  <1>2. ASSUME NEW w \in Workers, CreateGrant(w) \/ UpdateGrant(w)
        PROVE  GrantHistory'
    <2> DEFINE s == session[w]
               t == s.tenant
               row == [version |-> grant[t].version + 1, status |-> "active",
                       window |-> s.window]
    <2>1. s \in Session /\ s.pc \in {"create", "regrant"}
      BY <1>1, <1>2 DEF TypeOK, CreateGrant, UpdateGrant
    <2>2. t \in Tenants /\ s.window \in Window
      BY <2>1, SessionFields DEF Granting
    <2>3. grant[t].version \in Nat
      BY <1>1, <2>2 DEF TypeOK, GrantRow
    <2>4. WriteGrant(w, t, grant[t].version + 1)
      BY <1>2, <2>3 DEF CreateGrant, UpdateGrant, NoGrantRow, HasGrant, AtGrantVersion
    <2>5. /\ grant' = [grant EXCEPT ![t] = row]
          /\ changed' = changed \cup {[tenant |-> t, kind |-> "granted", version |-> row.version]}
      BY <2>4 DEF WriteGrant
    <2>6. row \in GrantRow /\ row.version = grant[t].version + 1 /\ row.status = "active"
      BY <2>2, <2>3 DEF GrantRow, Status
    <2> HIDE DEF row, t
    <2>7. QED BY <1>1, <2>2, <2>5, <2>6, HistoryGrows
  <1>3. ASSUME NEW w \in Workers, Revoke(w)
        PROVE  GrantHistory'
    <2> DEFINE s == session[w]
               t == s.tenant
               row == [version |-> s.expected + 1, status |-> "revoked",
                     window |-> grant[t].window]
    <2>1. s \in Session /\ s.pc = "revoke"
      BY <1>1, <1>3 DEF TypeOK, Revoke
    <2>2. t \in Tenants
      BY <2>1, SessionFields
    <2>3. grant[t] \in GrantRow /\ grant[t].version = s.expected
      BY <1>1, <1>3, <2>2 DEF TypeOK, Revoke, AtGrantVersion
    <2>4. row \in GrantRow /\ row.version = grant[t].version + 1 /\ row.status = "revoked"
      BY <2>3, <1>1, <2>2 DEF TypeOK, GrantRow, Status
    <2>5. /\ grant' = [grant EXCEPT ![t] = row]
          /\ changed' = changed \cup {[tenant |-> t, kind |-> "revoked", version |-> row.version]}
      BY <1>3 DEF Revoke
    <2> HIDE DEF row, t
    <2>6. QED BY <1>1, <2>2, <2>4, <2>5, HistoryGrows
  <1>4. ASSUME NEW t \in Tenants, ClockMoves(t)
        PROVE  GrantHistory'
    <2>1. \A u \in Tenants : /\ grant'[u].version = grant[u].version
                             /\ grant'[u].status = grant[u].status
      <3>1. PICK next \in Window : grant' = [grant EXCEPT ![t].window = next]
        BY <1>4 DEF ClockMoves
      <3>2. QED BY <3>1, <1>1 DEF TypeOK, GrantRow
    <2>2. changed' = changed
      BY <1>4 DEF ClockMoves
    <2>3. QED BY <2>1, <2>2 DEF GrantHistory
  <1>5. CASE UNCHANGED <<grant, changed>>
    BY <1>5 DEF GrantHistory
  <1>6. QED
    BY <1>2, <1>3, <1>4, <1>5 DEF Next, vars, ReadApplicationToGrant, ReadGrantToGrant,
       ReadGrantToRevoke, ReadApplicationToRevoke, ListActiveGrantsByApplication,
       UpdateApplication, PublishMenus, Abort

-----------------------------------------------------------------------------
(* Types, and that a source version is one of an application version that  *)
(* exists: for any tenants, requests and bounds.                           *)
THEOREM GrantTypeCorrect == Spec => []TypeOK
  <1>1. GrantInv => TypeOK
    BY DEF GrantInv
  <1>2. QED BY <1>1, GrantInvAlways, PTL

(* One history per tenant: the events of Grant and Revoke are the versions *)
(* of its row, whatever requests compete.                                  *)
THEOREM HistoryCorrect == Spec => []GrantHistory
  <1>1. Init => GrantHistory
    BY DEF Init, GrantHistory
  <1>2. QED BY <1>1, HistoryNext, GrantInvAlways, PTL DEF Spec

(* The order of the source versions of documents is that of SourceOrder.   *)
LEMMA DocumentOrder ==
  ASSUME GrantInv, NEW x \in search, NEW y \in search,
         x.app < y.app \/ (x.app = y.app /\ x.grantVersion < y.grantVersion)
  PROVE  x.source < y.source
  <1> DEFINE a == x.app
             b == y.app
             g == x.grantVersion
             h == y.grantVersion
  <1>1. a \in Nat /\ b \in Nat /\ g \in Nat /\ h \in Nat /\ GrantSpan \in Nat
    BY GrantAssumption DEF GrantInv, TypeOK, Search
  <1>2. g < GrantSpan
    <2>1. grant[x.tenant].version \in Nat /\ grant[x.tenant].version <= MaxGrantVersion
      BY DEF GrantInv, TypeOK, Search, Sources, GrantRow
    <2>2. g <= grant[x.tenant].version
      BY DEF GrantInv, Sources
    <2>3. QED BY <1>1, <2>1, <2>2, GrantAssumption
  <1>3. x.source = a * GrantSpan + g /\ y.source = b * GrantSpan + h
    BY DEF GrantInv, Sources
  <1>4. a < b \/ (a = b /\ g < h)
    OBVIOUS
  <1> HIDE DEF a, b, g, h
  <1>5. a * GrantSpan + g < b * GrantSpan + h
    BY <1>1, <1>2, <1>4, SourceOrder
  <1>6. QED BY <1>3, <1>5

(* searchProjectionVersion gives no two documents of a tenant one version, *)
(* as long as the versions of a grant fit below the application's.         *)
THEOREM DistinctVersions == Spec => []SearchVersionsDistinct
  <1>1. GrantInv => SearchVersionsDistinct
    <2> SUFFICES ASSUME GrantInv, NEW x \in search, NEW y \in search, x.tenant = y.tenant,
                        x.source = y.source
                 PROVE  x = y
      BY DEF SearchVersionsDistinct
    <2>1. /\ x.app \in Nat /\ y.app \in Nat /\ x.grantVersion \in Nat /\ y.grantVersion \in Nat
          /\ x.source \in Nat /\ y.source \in Nat
      BY DEF GrantInv, TypeOK, Search
    <2>2. ~ (x.app < y.app \/ (x.app = y.app /\ x.grantVersion < y.grantVersion))
      BY <2>1, DocumentOrder
    <2>3. ~ (y.app < x.app \/ (y.app = x.app /\ y.grantVersion < x.grantVersion))
      BY <2>1, DocumentOrder
    <2>4. x.app = y.app /\ x.grantVersion = y.grantVersion
      BY <2>1, <2>2, <2>3
    <2>5. QED BY <2>4 DEF GrantInv, Distinguished
  <1>2. QED BY <1>1, GrantInvAlways, PTL

(* The documents of two changes of a grant are ordered as the changes are, *)
(* though each request read the application at another moment.             *)
LEMMA GrantsInOrder == GrantInv => GrantChangesOrdered
  <1> SUFFICES ASSUME GrantInv, NEW x \in search, NEW y \in search, x.tenant = y.tenant,
                      x.by = "grant", y.by = "grant", x.grantVersion < y.grantVersion
               PROVE  x.source < y.source
    BY DEF GrantChangesOrdered
  <1>1. x.app \in Nat /\ y.app \in Nat /\ x.app <= y.app
    BY DEF GrantInv, TypeOK, Search, Ordered
  <1>2. x.app < y.app \/ (x.app = y.app /\ x.grantVersion < y.grantVersion)
    BY <1>1
  <1>3. QED BY <1>2, DocumentOrder

THEOREM ChangesOrdered == Spec => []GrantChangesOrdered
  <1>1. QED BY GrantsInOrder, GrantInvAlways, PTL

(* An active grant's document outranks every deletion of its tenant.       *)
THEOREM GrantedShown == Spec => []GrantedIsSearchable
  <1>1. GrantInv => GrantedIsSearchable
    <2> SUFFICES ASSUME GrantInv, NEW t \in Tenants, grant[t].status = "active"
                 PROVE  \E x \in Documents(t) : x.kind = "upserted" /\
                          \A y \in Documents(t) : y.kind = "deleted" => y.source < x.source
      BY DEF GrantedIsSearchable
    <2>1. PICK x \in Documents(t) : /\ x.kind = "upserted" /\ x.by = "grant"
                                   /\ x.grantVersion = grant[t].version
      BY DEF GrantInv, Shown
    <2>2. ASSUME NEW y \in Documents(t), y.kind = "deleted"
          PROVE  y.source < x.source
      <3>1. y.by = "grant" /\ y.grantVersion < x.grantVersion
        BY <2>1, <2>2 DEF GrantInv, Shown
      <3>2. QED BY <3>1, <2>1, GrantsInOrder DEF GrantChangesOrdered, Documents
    <2>3. QED BY <2>1, <2>2
  <1>2. QED BY <1>1, GrantInvAlways, PTL
=============================================================================
