-------------------------- MODULE WildcardTLS_proofs --------------------------
(***************************************************************************)
(* Proofs about the wildcard certificate and the hosts' DNS records, for   *)
(* any machines, hosts, keys and faults.                                   *)
(***************************************************************************)
EXTENDS WildcardTLS, TLAPS

TLSStep == {"rest", "user", "register", "loadCert", "loadKey", "obtain", "renew", "putCert", "putKey"}
HostStep == {"none", "boot", "dns", "link", "unlink", "done"}
Manager == [up: BOOLEAN, client: BOOLEAN, pair: Pair, new: Pair,
            ticked: BOOLEAN, late: BOOLEAN, failed: BOOLEAN, step: TLSStep]
TLSHostRecord == [step: HostStep, by: Machine \cup {NoPEM}, pair: Pair,
                  row: {"none", "provisioning", "ready", "deleted"}, linked: BOOLEAN,
                  reaper: {"none", "count", "record"}, named: BOOLEAN]

-----------------------------------------------------------------------------
\* What a machine has, and what it becomes.
LEMMA ManagerUpdates ==
    ASSUME NEW r \in Manager, TLSAssumption
    PROVE  /\ Off \in Manager
           /\ Succeeds(r) \in Manager
           /\ Fails(r) \in Manager
           /\ \A s \in TLSStep, b \in BOOLEAN : [r EXCEPT !.failed = b, !.step = s] \in Manager
           /\ \A s \in TLSStep, b \in BOOLEAN : [r EXCEPT !.client = b, !.step = s] \in Manager
           /\ \A s \in TLSStep : [r EXCEPT !.step = s] \in Manager
           /\ \A p \in Pair : [r EXCEPT !.pair = p] \in Manager
           /\ \A s \in TLSStep, p \in Pair : [r EXCEPT !.step = s, !.new = p] \in Manager
           /\ \A s \in TLSStep, c \in Cert \cup {NoPEM} : [r EXCEPT !.new.cert = c, !.step = s] \in Manager
           /\ \A b \in BOOLEAN : [r EXCEPT !.ticked = FALSE, !.late = b] \in Manager
<1>1. NoPair \in Pair /\ r.pair \in Pair /\ r.new \in Pair /\ r.step \in TLSStep
  BY DEF NoPair, Pair, Manager
<1> USE <1>1 DEF Manager
<1>2. Off \in Manager
  BY DEF Off, TLSStep
<1>3. Succeeds(r) \in Manager
  BY DEF Succeeds, TLSStep
<1>4. Fails(r) \in Manager
  BY <1>2 DEF Fails, TLSStep
<1>5. \A s \in TLSStep, b \in BOOLEAN : [r EXCEPT !.failed = b, !.step = s] \in Manager
  OBVIOUS
<1>6. \A s \in TLSStep, b \in BOOLEAN : [r EXCEPT !.client = b, !.step = s] \in Manager
  OBVIOUS
<1>7. \A s \in TLSStep : [r EXCEPT !.step = s] \in Manager
  OBVIOUS
<1>8. \A p \in Pair : [r EXCEPT !.pair = p] \in Manager
  OBVIOUS
<1>9. \A s \in TLSStep, p \in Pair : [r EXCEPT !.step = s, !.new = p] \in Manager
  OBVIOUS
<1>10. \A s \in TLSStep, c \in Cert \cup {NoPEM} : [r EXCEPT !.new.cert = c, !.step = s] \in Manager
  <2> SUFFICES ASSUME NEW s \in TLSStep, NEW c \in Cert \cup {NoPEM}
               PROVE  [r EXCEPT !.new.cert = c, !.step = s] \in Manager
    OBVIOUS
  <2>1. [r.new EXCEPT !.cert = c] \in Pair
    BY DEF Pair
  <2>2. [r EXCEPT !.new.cert = c, !.step = s] = [r EXCEPT !.new = [r.new EXCEPT !.cert = c], !.step = s]
    OBVIOUS
  <2> QED
    BY <2>1, <2>2
<1>11. \A b \in BOOLEAN : [r EXCEPT !.ticked = FALSE, !.late = b] \in Manager
  OBVIOUS
<1> HIDE DEF Manager
<1> QED
  BY <1>2, <1>3, <1>4, <1>5, <1>6, <1>7, <1>8, <1>9, <1>10, <1>11

\* A manager is what it says.
LEMMA ManagerFields ==
    ASSUME NEW r \in Manager
    PROVE  /\ r.step \in TLSStep /\ r.up \in BOOLEAN /\ r.ticked \in BOOLEAN /\ r.late \in BOOLEAN /\ r.client \in BOOLEAN
           /\ r.pair \in Pair /\ r.pair.cert \in Cert \cup {NoPEM} /\ r.pair.key \in Key \cup {NoPEM}
           /\ r.new \in Pair /\ r.new.cert \in Cert \cup {NoPEM} /\ r.new.key \in Key \cup {NoPEM}
BY DEF Manager, Pair

\* What an update of the step leaves as it was.
SameBut(q, r, s) ==
    q.step = s /\ q.pair = r.pair /\ q.up = r.up /\ q.ticked = r.ticked /\ q.late = r.late
\* The updates of EnsureFresh: at its beginning,
LEMMA FlagSet ==
    ASSUME NEW r \in Manager, NEW s \in TLSStep, NEW b \in BOOLEAN
    PROVE  /\ [r EXCEPT !.failed = b, !.step = s] \in Manager
           /\ SameBut([r EXCEPT !.failed = b, !.step = s], r, s)
BY DEF Manager, SameBut
\* once there is an ACME client,
LEMMA ClientSet ==
    ASSUME NEW r \in Manager, NEW s \in TLSStep, NEW b \in BOOLEAN
    PROVE  /\ [r EXCEPT !.client = b, !.step = s] \in Manager
           /\ SameBut([r EXCEPT !.client = b, !.step = s], r, s)
BY DEF Manager, SameBut
\* from one step to the next,
LEMMA StepSet ==
    ASSUME NEW r \in Manager, NEW s \in TLSStep
    PROVE  /\ [r EXCEPT !.step = s] \in Manager
           /\ SameBut([r EXCEPT !.step = s], r, s) /\ [r EXCEPT !.step = s].new = r.new
BY DEF Manager, SameBut
\* with an issued pair in hand,
WithNew(r, s, p) == [r EXCEPT !.step = s, !.new = p]
\* (which is a manager with that pair,)
LEMMA NewSet ==
    ASSUME NEW r \in Manager, NEW s \in TLSStep, NEW p \in Pair
    PROVE  WithNew(r, s, p) \in Manager /\ SameBut(WithNew(r, s, p), r, s) /\ WithNew(r, s, p).new = p
BY DEF Manager, SameBut, WithNew
\* with a pair in memory,
LEMMA PairSet ==
    ASSUME NEW r \in Manager, NEW p \in Pair
    PROVE  /\ [r EXCEPT !.pair = p] \in Manager
           /\ [r EXCEPT !.pair = p].pair = p /\ [r EXCEPT !.pair = p].step = r.step /\ [r EXCEPT !.pair = p].new = r.new
           /\ [r EXCEPT !.pair = p].up = r.up /\ [r EXCEPT !.pair = p].ticked = r.ticked
           /\ [r EXCEPT !.pair = p].late = r.late
BY DEF Manager
\* and with the certificate that was loaded, before its key.
WithCert(r, s, c) == [r EXCEPT !.new.cert = c, !.step = s]
\* It is a manager that has that certificate in hand.
LEMMA CertSet ==
    ASSUME TLSAssumption, NEW r \in Manager, NEW s \in TLSStep, NEW c \in Cert \cup {NoPEM}
    PROVE  WithCert(r, s, c) \in Manager /\ SameBut(WithCert(r, s, c), r, s) /\ WithCert(r, s, c).new.cert = c
<1>1. WithCert(r, s, c) \in Manager
  BY ManagerUpdates DEF WithCert
<1>2. \A q \in Pair : [q EXCEPT !.cert = c].cert = c
  BY DEF Pair
<1>3. r.new \in Pair
  BY DEF Manager
<1>4. WithCert(r, s, c).new = [r.new EXCEPT !.cert = c]
  BY DEF Manager, WithCert
<1>5. SameBut(WithCert(r, s, c), r, s)
  BY DEF Manager, SameBut, WithCert
<1> QED
  BY <1>1, <1>2, <1>3, <1>4, <1>5

\* The types, with the records' sets by name.
CertTyped ==
    /\ month \in 0 .. MaxMonth
    /\ storedCert \in Cert \cup {NoPEM}
    /\ storedKey \in Key \cup {NoPEM}
    /\ account \in BOOLEAN
    /\ machine \in [Machine -> Manager]
    /\ generated \subseteq Key
    /\ tlsHost \in [TLSHost -> TLSHostRecord]
    /\ aRecord \subseteq TLSHost
    /\ contended \in BOOLEAN
    /\ strayed \subseteq TLSHost
LEMMA TypedIsTypeOK == CertTyped <=> TLSTypeOK
BY DEF CertTyped, TLSTypeOK, Manager, TLSHostRecord, TLSStep, HostStep

\* One machine becomes r, the others stay as they are.
LEMMA BecomesTypes ==
    ASSUME machine \in [Machine -> Manager], NEW m \in Machine, NEW r \in Manager, Becomes(m, r)
    PROVE  machine' \in [Machine -> Manager] /\ contended' \in BOOLEAN
BY DEF Becomes

\* An issued pair is a pair for its key, of this month.
LEMMA IssueTypes ==
    ASSUME month \in 0 .. MaxMonth, NEW k \in Key
    PROVE  /\ Issue(k) \in Pair /\ Issue(k).key = k
           /\ Issue(k).cert \in Cert /\ Issue(k).cert.key = k /\ Issue(k).cert.month = month
BY DEF Issue, Pair, Cert
\* What follows a load is a manager.
LEMMA NextStepTypes ==
    ASSUME TLSAssumption, NEW r \in Manager
    PROVE  NextStep(r) \in Manager
<1>1. "obtain" \in TLSStep /\ "renew" \in TLSStep
  BY DEF TLSStep
<1> QED
  BY <1>1, ManagerUpdates DEF NextStep

\* What a machine's record says by itself: a pair has both its parts, what is
\* being written fits and was issued this month, who is in service has a pair,
\* at most a month old unless a month passed without a tick that succeeded, and
\* whose tick succeeded a fresh one.
Own(r, now) ==
    /\ Loaded(r.pair) => r.pair.key # NoPEM
    /\ r.step = "renew" => Loaded(r.pair)
    /\ r.step = "obtain" => ~Loaded(r.pair)
    /\ r.step = "loadKey" => r.new.cert # NoPEM
    /\ r.step \in {"putCert", "putKey"} =>
        /\ r.new.cert # NoPEM /\ r.new.key # NoPEM
        /\ r.new.cert.key = r.new.key /\ r.new.cert.month = now
        /\ Loaded(r.pair) => r.new.key = r.pair.key
    /\ r.up => Loaded(r.pair) /\ (~r.late => now <= r.pair.cert.month + 1)
    /\ r.ticked => Loaded(r.pair) /\ now <= r.pair.cert.month

\* What it says beside the storage: nothing that was loaded is newer.
Kept(r, cert, key) ==
    /\ Loaded(r.pair) => cert # NoPEM /\ key # NoPEM /\ r.pair.cert.month <= cert.month
    /\ r.step = "loadKey" =>
        /\ cert # NoPEM /\ r.new.cert.month <= cert.month
        /\ Loaded(r.pair) => r.pair.cert.month <= r.new.cert.month
    /\ r.step = "putKey" => cert # NoPEM /\ r.new.cert.month <= cert.month

\* The certificate is stored before its key, and nothing is from the future.
Storage ==
    /\ storedKey # NoPEM => storedCert # NoPEM
    /\ storedCert # NoPEM => storedCert.month <= month

CertBase ==
    /\ CertTyped
    /\ Storage
    /\ \A m \in Machine : Own(machine[m], month) /\ Kept(machine[m], storedCert, storedKey)

\* Objects are never deleted and certificates only get newer.
Grows ==
    /\ storedCert # NoPEM => storedCert' # NoPEM /\ storedCert.month <= storedCert'.month
    /\ storedKey # NoPEM => storedKey' # NoPEM


\* Every step keeps the types.
LEMMA TLSTypesStep ==
    ASSUME CertBase, [TLSNext]_tlsVars
    PROVE  CertTyped'
<1> USE DEF Certificates, hostVars, storedPair
<1>1. /\ month \in 0 .. MaxMonth /\ storedCert \in Cert \cup {NoPEM} /\ storedKey \in Key \cup {NoPEM}
      /\ account \in BOOLEAN /\ machine \in [Machine -> Manager] /\ generated \subseteq Key
      /\ tlsHost \in [TLSHost -> TLSHostRecord] /\ aRecord \subseteq TLSHost
      /\ contended \in BOOLEAN /\ strayed \subseteq TLSHost
  BY DEF CertBase, CertTyped
<1>2. TLSStep = {"rest", "user", "register", "loadCert", "loadKey", "obtain", "renew", "putCert", "putKey"}
  BY DEF TLSStep
\* Steps of EnsureFresh leave the hosts alone.
<1>3. ASSUME NEW m \in Machine, NEW r \in Manager, Becomes(m, r), UNCHANGED hostVars, UNCHANGED month,
             storedCert' \in Cert \cup {NoPEM}, storedKey' \in Key \cup {NoPEM},
             account' \in BOOLEAN, generated' \subseteq Key
      PROVE  CertTyped'
  <2>1. machine' \in [Machine -> Manager] /\ contended' \in BOOLEAN
    BY <1>1, <1>3, BecomesTypes
  <2>2. UNCHANGED <<tlsHost, aRecord, strayed, month>>
    BY <1>3
  <2> QED
    BY <1>1, <1>3, <2>1, <2>2 DEF CertTyped
<1>4. ASSUME NEW m \in Machine, EnsureFresh(m) PROVE CertTyped'
  <2>1. [machine[m] EXCEPT !.failed = FALSE, !.step = IF machine[m].client THEN "loadCert" ELSE "user"] \in Manager
    BY <1>1, <1>2, ManagerUpdates, TLSAssumption
  <2> QED
    BY <1>1, <1>3, <1>4, <2>1 DEF EnsureFresh
<1>5. ASSUME NEW m \in Machine, LoadAccount(m) PROVE CertTyped'
  <2>1. /\ [machine[m] EXCEPT !.client = TRUE, !.step = "loadCert"] \in Manager
        /\ [machine[m] EXCEPT !.step = "register"] \in Manager
        /\ Fails(machine[m]) \in Manager
    BY <1>1, <1>2, ManagerUpdates, TLSAssumption
  <2> QED
    BY <1>1, <1>3, <1>5, <2>1 DEF LoadAccount
<1>6. ASSUME NEW m \in Machine, RegisterAccount(m) PROVE CertTyped'
  <2>1. /\ [machine[m] EXCEPT !.client = TRUE, !.step = "loadCert"] \in Manager
        /\ Fails(machine[m]) \in Manager
    BY <1>1, <1>2, ManagerUpdates, TLSAssumption
  <2>2. account' \in BOOLEAN
    BY <1>1, <1>6 DEF RegisterAccount
  <2> QED
    BY <1>1, <1>3, <1>6, <2>1, <2>2 DEF RegisterAccount
<1>7. ASSUME NEW m \in Machine, LoadCert(m) PROVE CertTyped'
  <2>1. /\ NextStep(machine[m]) \in Manager
        /\ [machine[m] EXCEPT !.new.cert = storedCert, !.step = "loadKey"] \in Manager
        /\ Fails(machine[m]) \in Manager
    BY <1>1, <1>2, ManagerUpdates, NextStepTypes, TLSAssumption
  <2> QED
    BY <1>1, <1>3, <1>7, <2>1 DEF LoadCert
<1>8. ASSUME NEW m \in Machine, LoadKey(m) PROVE CertTyped'
  <2>1. [cert |-> machine[m].new.cert, key |-> storedKey] \in Pair
    BY <1>1, ManagerFields DEF Pair
  <2>2. [machine[m] EXCEPT !.pair = [cert |-> machine[m].new.cert, key |-> storedKey]] \in Manager
    BY <1>1, <2>1, ManagerUpdates, TLSAssumption
  <2>3. /\ NextStep(machine[m]) \in Manager
        /\ NextStep([machine[m] EXCEPT !.pair = [cert |-> machine[m].new.cert, key |-> storedKey]]) \in Manager
        /\ Fails(machine[m]) \in Manager
    BY <1>1, <2>2, NextStepTypes, ManagerUpdates, TLSAssumption
  <2> QED
    BY <1>1, <1>3, <1>8, <2>3 DEF LoadKey
<1>9. ASSUME NEW m \in Machine, Obtain(m) PROVE CertTyped'
  <2>1. PICK k \in Key \ generated : /\ Becomes(m, [machine[m] EXCEPT !.step = "putCert", !.new = Issue(k)])
                                     /\ generated' = generated \cup {k}
    BY <1>9 DEF Obtain
  <2>2. [machine[m] EXCEPT !.step = "putCert", !.new = Issue(k)] \in Manager
    BY <1>1, <1>2, ManagerUpdates, IssueTypes, TLSAssumption
  <2> QED
    BY <1>1, <1>3, <1>9, <2>1, <2>2 DEF Obtain
<1>10. ASSUME NEW m \in Machine, Renew(m) PROVE CertTyped'
  <2>0. machine[m].pair.key \in Key
    <3>1. machine[m].step = "renew" /\ machine[m].pair.key \in Key \cup {NoPEM}
      BY <1>1, <1>10, ManagerFields DEF Renew
    <3> QED
      BY <3>1 DEF CertBase, Own
  <2>1. [machine[m] EXCEPT !.step = "putCert", !.new = Renewed(machine[m])] \in Manager
    BY <1>1, <1>2, <2>0, ManagerUpdates, IssueTypes, TLSAssumption DEF Renewed
  <2> QED
    BY <1>1, <1>3, <1>10, <2>1 DEF Renew
<1>11. ASSUME NEW m \in Machine, IssueFails(m) PROVE CertTyped'
  BY <1>1, <1>3, <1>11, ManagerUpdates, TLSAssumption DEF IssueFails
<1>12. ASSUME NEW m \in Machine, PutCert(m) PROVE CertTyped'
  <2>1. [machine[m] EXCEPT !.step = "putKey"] \in Manager /\ machine[m].new.cert \in Cert \cup {NoPEM}
    BY <1>1, <1>2, ManagerUpdates, ManagerFields, TLSAssumption
  <2> QED
    BY <1>1, <1>3, <1>12, <2>1 DEF PutCert
<1>13. ASSUME NEW m \in Machine, PutKey(m) PROVE CertTyped'
  <2>1. machine[m].new \in Pair /\ machine[m].new.key \in Key \cup {NoPEM}
    BY <1>1, ManagerFields
  <2>2. [machine[m] EXCEPT !.pair = InMemory(machine[m])] \in Manager
    BY <1>1, <2>1, ManagerUpdates, TLSAssumption DEF InMemory
  <2>3. Succeeds([machine[m] EXCEPT !.pair = InMemory(machine[m])]) \in Manager
    BY <2>2, ManagerUpdates, TLSAssumption
  <2> QED
    BY <1>1, <1>3, <1>13, <2>1, <2>3 DEF PutKey
<1>14. ASSUME NEW m \in Machine, PutPairFails(m) PROVE CertTyped'
  <2>1. /\ Fails(machine[m]) \in Manager
        /\ machine[m].new.cert \in Cert \cup {NoPEM} /\ machine[m].new.key \in Key \cup {NoPEM}
    BY <1>1, ManagerUpdates, ManagerFields, TLSAssumption
  <2> QED
    BY <1>1, <1>3, <1>14, <2>1 DEF PutPairFails
<1>15. ASSUME NEW m \in Machine, MachineStops(m) PROVE CertTyped'
  <2>1. machine' \in [Machine -> Manager] /\ contended' \in BOOLEAN
    BY <1>1, <1>15, BecomesTypes, ManagerUpdates, TLSAssumption DEF MachineStops
  <2>2. \A h \in TLSHost : Abandoned(h) \in HostStep
    BY <1>1 DEF Abandoned, HostStep, TLSHostRecord
  <2>3. \A h \in TLSHost : [tlsHost[h] EXCEPT !.step = Abandoned(h)] \in TLSHostRecord
    BY <1>1, <2>2 DEF TLSHostRecord
  <2>4. tlsHost' \in [TLSHost -> TLSHostRecord]
    BY <1>1, <1>15, <2>3 DEF MachineStops
  <2> QED
    BY <1>1, <1>15, <2>1, <2>4 DEF CertTyped, MachineStops
\* The steps of a host leave the certificate alone.
<1>16. ASSUME UNCHANGED Certificates, tlsHost' \in [TLSHost -> TLSHostRecord],
              aRecord' \subseteq TLSHost, strayed' \subseteq TLSHost
       PROVE  CertTyped'
  BY <1>1, <1>16 DEF CertTyped
<1>17. ASSUME NEW h \in TLSHost, NEW r \in TLSHostRecord, tlsHost' = [tlsHost EXCEPT ![h] = r]
       PROVE  tlsHost' \in [TLSHost -> TLSHostRecord]
  BY <1>1, <1>17
<1>18. ASSUME NEW h \in TLSHost
       PROVE  /\ \A s \in HostStep : [tlsHost[h] EXCEPT !.step = s] \in TLSHostRecord
              /\ [tlsHost[h] EXCEPT !.step = "dns", !.row = "ready"] \in TLSHostRecord
              /\ \A s \in HostStep : [tlsHost[h] EXCEPT !.step = s, !.row = "provisioning"] \in TLSHostRecord
              /\ [tlsHost[h] EXCEPT !.step = "done", !.linked = TRUE] \in TLSHostRecord
              /\ [tlsHost[h] EXCEPT !.reaper = "count", !.named = tlsHost[h].linked] \in TLSHostRecord
              /\ [tlsHost[h] EXCEPT !.reaper = "none", !.named = FALSE] \in TLSHostRecord
              /\ [tlsHost[h] EXCEPT !.reaper = "record", !.row = "deleted"] \in TLSHostRecord
              /\ [tlsHost[h] EXCEPT !.row = "deleted"] \in TLSHostRecord
  BY <1>1 DEF TLSHostRecord, HostStep
<1>19. ASSUME NEW m \in Machine, NEW h \in TLSHost, BuildHostTLSOpts(m, h) PROVE CertTyped'
  <2> DEFINE r == [NoTLSHost EXCEPT !.step = "boot", !.by = m, !.pair = machine[m].pair]
  <2>1. r \in TLSHostRecord
    BY <1>1, ManagerFields DEF TLSHostRecord, NoTLSHost, HostStep
  <2>2. tlsHost' = [tlsHost EXCEPT ![h] = r] /\ UNCHANGED <<Certificates, aRecord, strayed>>
    BY <1>19 DEF BuildHostTLSOpts
  <2> HIDE DEF r
  <2> QED
    BY <1>1, <1>16, <1>17, <2>1, <2>2
<1>20. ASSUME NEW h \in TLSHost, TLSHostReady(h) \/ RetireTLSHost(h) \/ LoseTLSHost(h) PROVE CertTyped'
  <2>1. \E r \in TLSHostRecord : tlsHost' = [tlsHost EXCEPT ![h] = r]
    <3>1. CASE TLSHostReady(h)
      <4>1. \/ tlsHost' = [tlsHost EXCEPT ![h] = [tlsHost[h] EXCEPT !.step = "dns", !.row = "ready"]]
            \/ \E s \in HostStep : tlsHost' = [tlsHost EXCEPT ![h] = [tlsHost[h] EXCEPT !.step = s, !.row = "provisioning"]]
        BY <3>1 DEF TLSHostReady, HostStep
      <4> QED
        BY <1>18, <4>1
    <3>2. CASE RetireTLSHost(h)
      <4>1. tlsHost' = [tlsHost EXCEPT ![h] = [tlsHost[h] EXCEPT !.reaper = "count", !.named = tlsHost[h].linked]]
        BY <3>2 DEF RetireTLSHost
      <4> QED
        BY <1>18, <4>1
    <3>3. CASE LoseTLSHost(h)
      <4>1. tlsHost' = [tlsHost EXCEPT ![h] = [tlsHost[h] EXCEPT !.row = "deleted"]]
        BY <3>3 DEF LoseTLSHost
      <4> QED
        BY <1>18, <4>1
    <3> QED
      BY <1>20, <3>1, <3>2, <3>3
  <2>2. UNCHANGED <<Certificates, aRecord>> /\ strayed' \subseteq TLSHost
    BY <1>1, <1>20 DEF TLSHostReady, RetireTLSHost, LoseTLSHost
  <2> QED
    BY <1>1, <1>16, <1>17, <2>1, <2>2
<1>21. ASSUME NEW h \in TLSHost, CreateARecord(h) \/ DeleteUnsavedRecord(h) PROVE CertTyped'
  <2>1. \E s \in {"link", "done"} : Reach(h, s)
    BY <1>21 DEF CreateARecord, DeleteUnsavedRecord
  <2>2. \E r \in TLSHostRecord : tlsHost' = [tlsHost EXCEPT ![h] = r]
    BY <1>18, <2>1 DEF Reach, HostStep
  <2>3. UNCHANGED Certificates /\ aRecord' \subseteq TLSHost /\ strayed' \subseteq TLSHost
    BY <1>1, <1>21 DEF CreateARecord, DeleteUnsavedRecord, Unrecord
  <2> QED
    BY <1>1, <1>16, <1>17, <2>2, <2>3
<1>22. ASSUME NEW h \in TLSHost, SetMachineHostHostname(h) PROVE CertTyped'
  <2>1. \E r \in TLSHostRecord : tlsHost' = [tlsHost EXCEPT ![h] = r]
    <3>1. \/ tlsHost' = [tlsHost EXCEPT ![h] = [tlsHost[h] EXCEPT !.step = "done", !.linked = TRUE]]
          \/ \E s \in HostStep : tlsHost' = [tlsHost EXCEPT ![h] = [tlsHost[h] EXCEPT !.step = s]]
      BY <1>22 DEF SetMachineHostHostname, Reach, HostStep
    <3> QED
      BY <1>18, <3>1
  <2>2. UNCHANGED <<Certificates, aRecord>> /\ strayed' \subseteq TLSHost
    BY <1>1, <1>22 DEF SetMachineHostHostname
  <2> QED
    BY <1>1, <1>16, <1>17, <2>1, <2>2
<1>23. ASSUME NEW h \in TLSHost, BuryTLSHost(h) \/ DeleteHostRecord(h) \/ ReaperStops(h) PROVE CertTyped'
  <2>1. \E r \in TLSHostRecord : tlsHost' = [tlsHost EXCEPT ![h] = r]
    <3>1. \/ tlsHost' = [tlsHost EXCEPT ![h] = [tlsHost[h] EXCEPT !.reaper = "none", !.named = FALSE]]
          \/ tlsHost' = [tlsHost EXCEPT ![h] = [tlsHost[h] EXCEPT !.reaper = "record", !.row = "deleted"]]
      BY <1>23 DEF BuryTLSHost, DeleteHostRecord, ReaperStops, Reaped
    <3> QED
      BY <1>18, <3>1
  <2>2. UNCHANGED Certificates /\ aRecord' \subseteq TLSHost /\ strayed' \subseteq TLSHost
    BY <1>1, <1>23 DEF BuryTLSHost, DeleteHostRecord, ReaperStops, Unrecord
  <2> QED
    BY <1>1, <1>16, <1>17, <2>1, <2>2
<1>24. ASSUME MonthPasses PROVE CertTyped'
  <2>1. \A m \in Machine : [machine[m] EXCEPT !.ticked = FALSE,
                                              !.late = machine[m].late \/ (machine[m].up /\ ~machine[m].ticked)] \in Manager
    BY <1>1, ManagerUpdates, TLSAssumption
  <2>2. machine' \in [Machine -> Manager]
    BY <2>1, <1>24 DEF MonthPasses
  <2>3. month' \in 0 .. MaxMonth
    <3>1. month < MaxMonth /\ month' = month + 1
      BY <1>24 DEF MonthPasses
    <3> QED
      BY <1>1, <3>1, TLSAssumption DEF CertTyped
  <2> QED
    BY <1>1, <1>24, <2>2, <2>3 DEF CertTyped, MonthPasses
<1>25. CASE UNCHANGED tlsVars
  BY <1>1, <1>25 DEF CertTyped, tlsVars
<1> QED
  BY <1>4, <1>5, <1>6, <1>7, <1>8, <1>9, <1>10, <1>11, <1>12, <1>13, <1>14, <1>15, <1>19, <1>20,
     <1>21, <1>22, <1>23, <1>24, <1>25
     DEF TLSNext, Refresh

\* Growing storage keeps what a record says of it.
LEMMA KeptAsItGrows ==
    ASSUME CertBase, CertTyped', Grows, NEW r \in Manager, Own(r, month), Kept(r, storedCert, storedKey)
    PROVE  Kept(r, storedCert', storedKey')
<1>1. /\ Loaded(r.pair) => r.pair.cert.month \in Nat
      /\ r.new.cert # NoPEM => r.new.cert.month \in Nat
      /\ storedCert # NoPEM => storedCert.month \in Nat
      /\ storedCert' # NoPEM => storedCert'.month \in Nat
  BY ManagerFields DEF CertBase, CertTyped, Cert, Loaded
<1> QED
  BY <1>1 DEF Grows, Own, Kept, Loaded

\* A step of one machine keeps CertBase if its new record does.
LEMMA OneMachine ==
    ASSUME CertBase, CertTyped', NEW m \in Machine, NEW r \in Manager, Becomes(m, r), month' = month, Grows,
           Storage', Own(r, month), Kept(r, storedCert', storedKey')
    PROVE  CertBase'
<1>1. machine' = [machine EXCEPT ![m] = r] /\ machine \in [Machine -> Manager]
  BY DEF Becomes, CertBase, CertTyped
<1> SUFFICES ASSUME NEW n \in Machine
             PROVE  Own(machine'[n], month') /\ Kept(machine'[n], storedCert', storedKey')
  BY DEF CertBase
<1>2. CASE n = m
  BY <1>1, <1>2
<1>3. CASE n # m
  <2>1. machine'[n] = machine[n] /\ machine[n] \in Manager
    BY <1>1, <1>3
  <2>2. Own(machine[n], month) /\ Kept(machine[n], storedCert, storedKey)
    BY DEF CertBase
  <2> QED
    BY <2>1, <2>2, KeptAsItGrows
<1> QED
  BY <1>2, <1>3

\* Stopping and failing keep what a record says; succeeding needs a fresh pair.
LEMMA OwnEnds ==
    ASSUME TLSAssumption, CertTyped, NEW r \in Manager, Own(r, month), NEW cert, NEW key, Kept(r, cert, key)
    PROVE  /\ Own(Off, month) /\ Kept(Off, cert, key)
           /\ Own(Fails(r), month) /\ Kept(Fails(r), cert, key)
           /\ Own(Succeeds(r), month) <=> Loaded(r.pair) /\ month <= r.pair.cert.month /\ r.pair.key # NoPEM
           /\ Kept(Succeeds(r), cert, key)
<1>1. Own(Off, month) /\ Kept(Off, cert, key)
  BY DEF Off, NoPair, Own, Kept, Loaded
<1>2. Own(Fails(r), month) /\ Kept(Fails(r), cert, key)
  <2>1. CASE r.up
    <3>1. /\ Fails(r).pair = r.pair /\ Fails(r).step = "rest"
          /\ Fails(r).up = r.up /\ Fails(r).ticked = r.ticked /\ Fails(r).late = r.late
      BY <2>1 DEF Fails, Manager
    <3> QED
      BY <3>1 DEF Own, Kept
  <2>2. CASE ~r.up
    BY <1>1, <2>2 DEF Fails
  <2> QED
    BY <2>1, <2>2
<1>3. /\ Succeeds(r).pair = r.pair /\ Succeeds(r).step = "rest"
      /\ Succeeds(r).up = TRUE /\ Succeeds(r).ticked = TRUE /\ Succeeds(r).late = FALSE
  BY DEF Succeeds, Manager
<1>4. Loaded(r.pair) => r.pair.cert.month \in Nat /\ month \in Nat
  BY ManagerFields, TLSAssumption DEF Cert, Loaded, CertTyped
<1>5. Own(Succeeds(r), month) <=> Loaded(r.pair) /\ month <= r.pair.cert.month /\ r.pair.key # NoPEM
  BY <1>3, <1>4 DEF Own
<1>6. Kept(Succeeds(r), cert, key)
  BY <1>3 DEF Kept
<1> QED
  BY <1>1, <1>2, <1>5, <1>6

\* So does what follows a load.
LEMMA NextStepOwn ==
    ASSUME TLSAssumption, CertTyped, NEW r \in Manager, Own(r, month), NEW cert, NEW key, Kept(r, cert, key)
    PROVE  Own(NextStep(r), month) /\ Kept(NextStep(r), cert, key)
<1>1. CASE ~Loaded(r.pair)
  <2> DEFINE t == [r EXCEPT !.step = "obtain"]
  <2>1. t.pair = r.pair /\ t.step = "obtain" /\ t.up = r.up /\ t.ticked = r.ticked /\ t.late = r.late
    BY DEF Manager
  <2>2. NextStep(r) = t
    BY <1>1 DEF NextStep
  <2> HIDE DEF t
  <2> QED
    BY <1>1, <2>1, <2>2 DEF Own, Kept
<1>2. CASE Loaded(r.pair) /\ Due(r.pair.cert)
  <2> DEFINE t == [r EXCEPT !.step = "renew"]
  <2>1. t.pair = r.pair /\ t.step = "renew" /\ t.up = r.up /\ t.ticked = r.ticked /\ t.late = r.late
    BY DEF Manager
  <2>2. NextStep(r) = t
    BY <1>2 DEF NextStep
  <2> HIDE DEF t
  <2> QED
    BY <1>2, <2>1, <2>2 DEF Own, Kept
<1>3. CASE Loaded(r.pair) /\ ~Due(r.pair.cert)
  <2>1. r.pair.cert.month \in Nat /\ month \in Nat
    BY <1>3, ManagerFields, TLSAssumption DEF Cert, Loaded, CertTyped
  <2>2. month <= r.pair.cert.month
    BY <1>3, <2>1 DEF Due
  <2>3. NextStep(r) = Succeeds(r) /\ r.pair.key # NoPEM
    BY <1>3 DEF NextStep, Own
  <2> QED
    BY <1>3, <2>2, <2>3, OwnEnds
<1> QED
  BY <1>1, <1>2, <1>3

\* Every step keeps CertBase.
LEMMA CertBaseStep ==
    ASSUME CertBase, [TLSNext]_tlsVars
    PROVE  CertBase'
<1> USE TLSAssumption DEF Certificates, hostVars, storedPair
<1>1. CertTyped' /\ CertTyped /\ machine \in [Machine -> Manager] /\ month \in Nat
  BY TLSTypesStep DEF CertBase, CertTyped
<1>2. \A m \in Machine : /\ machine[m] \in Manager /\ Own(machine[m], month)
                         /\ Kept(machine[m], storedCert, storedKey)
  BY <1>1 DEF CertBase
\* Most steps write neither object.
<1>3. ASSUME NEW m \in Machine, NEW r \in Manager, Becomes(m, r), UNCHANGED <<month, storedCert, storedKey>>,
             Own(r, month), Kept(r, storedCert, storedKey)
      PROVE  CertBase'
  <2>1. Grows /\ Storage'
    <3>1. storedCert # NoPEM => storedCert.month \in Nat
      BY <1>1 DEF CertTyped, Cert
    <3> QED
      BY <1>3, <3>1 DEF Grows, Storage, CertBase
  <2> QED
    BY <1>1, <1>3, <2>1, OneMachine
<1>4. ASSUME NEW m \in Machine, NEW s \in {"loadCert", "user", "register"}, NEW r \in Manager,
             r.step = s, r.pair = machine[m].pair, r.up = machine[m].up, r.ticked = machine[m].ticked /\ r.late = machine[m].late
      PROVE  Own(r, month) /\ Kept(r, storedCert, storedKey)
  BY <1>2, <1>4 DEF Own, Kept
<1>5. ASSUME NEW m \in Machine, EnsureFresh(m) PROVE CertBase'
  <2> DEFINE r == [machine[m] EXCEPT !.failed = FALSE, !.step = IF machine[m].client THEN "loadCert" ELSE "user"]
  <2>1. /\ r \in Manager /\ r.step \in {"loadCert", "user", "register"}
        /\ r.pair = machine[m].pair /\ r.up = machine[m].up /\ r.ticked = machine[m].ticked /\ r.late = machine[m].late
    <3>1. (IF machine[m].client THEN "loadCert" ELSE "user") \in TLSStep
      BY DEF TLSStep
    <3>2. r \in Manager /\ SameBut(r, machine[m], IF machine[m].client THEN "loadCert" ELSE "user")
      BY <1>2, <3>1, FlagSet
    <3> HIDE DEF r
    <3> QED
      BY <3>2 DEF SameBut
  <2>2. Becomes(m, r) /\ UNCHANGED <<month, storedCert, storedKey>>
    BY <1>5 DEF EnsureFresh
  <2> HIDE DEF r
  <2> QED
    BY <1>3, <1>4, <2>1, <2>2
<1>6. ASSUME NEW m \in Machine, LoadAccount(m) \/ RegisterAccount(m) PROVE CertBase'
  <2> DEFINE r == [machine[m] EXCEPT !.client = TRUE, !.step = "loadCert"]
             q == [machine[m] EXCEPT !.step = "register"]
  <2>1. /\ r \in Manager /\ r.step \in {"loadCert", "user", "register"}
        /\ r.pair = machine[m].pair /\ r.up = machine[m].up /\ r.ticked = machine[m].ticked /\ r.late = machine[m].late
    <3>1. r \in Manager /\ SameBut(r, machine[m], "loadCert")
      BY <1>2, ClientSet DEF TLSStep
    <3> HIDE DEF r
    <3> QED
      BY <3>1 DEF SameBut
  <2>2. /\ q \in Manager /\ q.step \in {"loadCert", "user", "register"}
        /\ q.pair = machine[m].pair /\ q.up = machine[m].up /\ q.ticked = machine[m].ticked /\ q.late = machine[m].late
    <3>1. q \in Manager /\ SameBut(q, machine[m], "register")
      BY <1>2, StepSet DEF TLSStep
    <3> HIDE DEF q
    <3> QED
      BY <3>1 DEF SameBut
  <2>3. /\ Becomes(m, r) \/ Becomes(m, q) \/ Becomes(m, Fails(machine[m]))
        /\ UNCHANGED <<month, storedCert, storedKey>>
    BY <1>6 DEF LoadAccount, RegisterAccount
  <2>4. Fails(machine[m]) \in Manager
    BY <1>2, ManagerUpdates
  <2> HIDE DEF r, q
  <2>5. CASE Becomes(m, r)
    BY <1>3, <1>4, <2>1, <2>3, <2>5
  <2>6. CASE Becomes(m, q)
    BY <1>3, <1>4, <2>2, <2>3, <2>6
  <2>7. CASE Becomes(m, Fails(machine[m]))
    BY <1>1, <1>2, <1>3, <2>3, <2>4, <2>7, OwnEnds
  <2> QED
    BY <2>3, <2>5, <2>6, <2>7
<1>21. ASSUME NEW m \in Machine, Becomes(m, Fails(machine[m])), UNCHANGED <<month, storedCert, storedKey>>
       PROVE  CertBase'
  <2>1. Fails(machine[m]) \in Manager
    BY <1>2, ManagerUpdates
  <2> QED
    BY <1>1, <1>2, <1>3, <1>21, <2>1, OwnEnds
<1>7. ASSUME NEW m \in Machine, LoadCert(m), ~Becomes(m, Fails(machine[m])) PROVE CertBase'
  <2>1. CASE storedCert = NoPEM
    <3>1. NextStep(machine[m]) \in Manager
      BY <1>2, NextStepTypes
    <3>2. Becomes(m, NextStep(machine[m])) /\ UNCHANGED <<month, storedCert, storedKey>>
      BY <1>7, <2>1 DEF LoadCert
    <3> QED
      BY <1>1, <1>2, <1>3, <3>1, <3>2, NextStepOwn
  <2>2. CASE storedCert # NoPEM
    <3> DEFINE r == [machine[m] EXCEPT !.new.cert = storedCert, !.step = "loadKey"]
    <3>1. Becomes(m, r) /\ UNCHANGED <<month, storedCert, storedKey>>
      BY <1>7, <2>2 DEF LoadCert
    <3>2. /\ r \in Manager /\ r.step = "loadKey" /\ r.new.cert = storedCert
          /\ r.pair = machine[m].pair /\ r.up = machine[m].up /\ r.ticked = machine[m].ticked /\ r.late = machine[m].late
      <4>1. storedCert \in Cert \cup {NoPEM} /\ "loadKey" \in TLSStep
        BY <1>1 DEF CertTyped, TLSStep
      <4>2. machine[m] \in Manager
        BY <1>2
      <4> DEFINE q == WithCert(machine[m], "loadKey", storedCert)
      <4>3. q \in Manager /\ SameBut(q, machine[m], "loadKey") /\ q.new.cert = storedCert
        BY <4>1, <4>2, CertSet
      <4>4. q = r
        BY DEF WithCert
      <4> HIDE DEF q, r
      <4> QED
        BY <4>3, <4>4 DEF SameBut
    <3>3. storedCert.month \in Nat
      BY <1>1, <2>2 DEF CertTyped, Cert
    <3> HIDE DEF r
    <3>4. Own(r, month) /\ Kept(r, storedCert, storedKey)
      BY <1>2, <2>2, <3>2, <3>3 DEF Own, Kept
    <3> QED
      BY <1>3, <3>1, <3>2, <3>4
  <2> QED
    BY <2>1, <2>2
<1>8. ASSUME NEW m \in Machine, LoadKey(m), ~Becomes(m, Fails(machine[m])) PROVE CertBase'
  <2>1. CASE storedKey = NoPEM
    <3>1. NextStep(machine[m]) \in Manager
      BY <1>2, NextStepTypes
    <3>2. Becomes(m, NextStep(machine[m])) /\ UNCHANGED <<month, storedCert, storedKey>>
      BY <1>8, <2>1 DEF LoadKey
    <3> QED
      BY <1>1, <1>2, <1>3, <3>1, <3>2, NextStepOwn
  <2>2. CASE storedKey # NoPEM
    <3> DEFINE p == [cert |-> machine[m].new.cert, key |-> storedKey]
               r == [machine[m] EXCEPT !.pair = p]
    <3>1. Becomes(m, NextStep(r)) /\ machine[m].step = "loadKey" /\ UNCHANGED <<month, storedCert, storedKey>>
      BY <1>8, <2>2 DEF LoadKey
    <3>2. p \in Pair /\ p.cert = machine[m].new.cert /\ p.key = storedKey
      BY <1>1, <1>2, ManagerFields DEF CertTyped, Pair
    <3> HIDE DEF p
    <3>3. /\ r \in Manager /\ r.pair = p /\ r.step = machine[m].step /\ r.new = machine[m].new
          /\ r.up = machine[m].up /\ r.ticked = machine[m].ticked /\ r.late = machine[m].late
      <4>1. machine[m] \in Manager
        BY <1>2
      <4> QED
        BY <3>2, <4>1, PairSet
    <3> HIDE DEF r
    <3>4. /\ Loaded(machine[m].pair) => machine[m].pair.cert.month \in Nat
          /\ machine[m].new.cert # NoPEM => machine[m].new.cert.month \in Nat
      BY <1>2, ManagerFields DEF Loaded, Cert
    <3>5. Own(r, month) /\ Kept(r, storedCert, storedKey)
      BY <1>1, <1>2, <2>2, <3>1, <3>2, <3>3, <3>4 DEF Own, Kept, Loaded
    <3>6. NextStep(r) \in Manager
      BY <3>3, NextStepTypes
    <3> QED
      BY <1>1, <1>3, <3>1, <3>3, <3>5, <3>6, NextStepOwn
  <2> QED
    BY <2>1, <2>2
<1>9. ASSUME NEW m \in Machine, NEW k \in Key, NEW r, r = [machine[m] EXCEPT !.step = "putCert", !.new = Issue(k)],
             Becomes(m, r), UNCHANGED <<month, storedCert, storedKey>>,
             Loaded(machine[m].pair) => k = machine[m].pair.key
      PROVE  CertBase'
  <2>1. Issue(k) \in Pair /\ Issue(k).key = k /\ Issue(k).cert \in Cert /\ Issue(k).cert.key = k /\ Issue(k).cert.month = month
    BY <1>1, IssueTypes DEF CertTyped
  <2>2. /\ r \in Manager /\ r.pair = machine[m].pair /\ r.step = "putCert" /\ r.new = Issue(k)
        /\ r.up = machine[m].up /\ r.ticked = machine[m].ticked /\ r.late = machine[m].late
    <3>1. machine[m] \in Manager /\ "putCert" \in TLSStep
      BY <1>2 DEF TLSStep
    <3> DEFINE q == WithNew(machine[m], "putCert", Issue(k))
    <3>2. q \in Manager /\ SameBut(q, machine[m], "putCert") /\ q.new = Issue(k)
      BY <2>1, <3>1, NewSet
    <3>3. q = r
      BY <1>9 DEF WithNew
    <3> HIDE DEF q
    <3> QED
      BY <3>2, <3>3 DEF SameBut
  <2>3. NoPEM \notin Cert /\ NoPEM \notin Key
    BY DEF Cert
  <2>4. Own(r, month) /\ Kept(r, storedCert, storedKey)
    BY <1>2, <1>9, <2>1, <2>2, <2>3 DEF Own, Kept
  <2> QED
    BY <1>3, <1>9, <2>2, <2>4
<1>10. ASSUME NEW m \in Machine, Obtain(m) PROVE CertBase'
  <2>1. PICK k \in Key \ generated : Becomes(m, [machine[m] EXCEPT !.step = "putCert", !.new = Issue(k)])
    BY <1>10 DEF Obtain
  <2>2. ~Loaded(machine[m].pair) /\ UNCHANGED <<month, storedCert, storedKey>>
    BY <1>2, <1>10 DEF Obtain, Own
  <2> QED
    BY <1>9, <2>1, <2>2
<1>11. ASSUME NEW m \in Machine, Renew(m) PROVE CertBase'
  <2>1. machine[m].pair.key \in Key
    BY <1>2, <1>11, ManagerFields DEF Renew, Own
  <2>2. /\ Becomes(m, [machine[m] EXCEPT !.step = "putCert", !.new = Issue(machine[m].pair.key)])
        /\ UNCHANGED <<month, storedCert, storedKey>>
    BY <1>11 DEF Renew, Renewed
  <2> QED
    BY <1>9, <2>1, <2>2
<1>12. ASSUME NEW m \in Machine, IssueFails(m) PROVE CertBase'
  BY <1>12, <1>21 DEF IssueFails
\* What is written is not older than what was there.
<1>13. ASSUME NEW m \in Machine, machine[m].step \in {"putCert", "putKey"}
       PROVE  /\ machine[m].new.cert \in Cert /\ machine[m].new.cert.month = month
              /\ machine[m].new.cert # NoPEM /\ machine[m].new.key # NoPEM
              /\ storedCert # NoPEM => storedCert.month \in Nat /\ storedCert.month <= month
  BY <1>1, <1>2, <1>13, ManagerFields DEF Own, CertBase, Storage, CertTyped, Cert
<1>14. ASSUME NEW m \in Machine, NEW r \in Manager, Becomes(m, r), UNCHANGED month, Own(r, month),
              \/ /\ machine[m].step = "putCert" /\ storedCert' \in {storedCert, machine[m].new.cert} /\ UNCHANGED storedKey
              \/ /\ machine[m].step = "putKey" /\ storedKey' \in {storedKey, machine[m].new.key} /\ UNCHANGED storedCert,
              Kept(r, storedCert', storedKey')
       PROVE  CertBase'
  <2>1. machine[m].step \in {"putCert", "putKey"}
    BY <1>14
  <2>2. Grows
    BY <1>1, <1>13, <1>14, <2>1 DEF Grows
  <2>3. machine[m].step = "putKey" => storedCert # NoPEM
    BY <1>2 DEF Kept
  <2>4. Storage'
    BY <1>1, <1>13, <1>14, <2>1, <2>3 DEF Storage, CertBase
  <2> QED
    BY <1>1, <1>14, <2>2, <2>4, OneMachine
<1>15. ASSUME NEW m \in Machine, PutCert(m) PROVE CertBase'
  <2> DEFINE r == [machine[m] EXCEPT !.step = "putKey"]
  <2>1. /\ machine[m].step = "putCert" /\ storedCert' = machine[m].new.cert
        /\ Becomes(m, r) /\ UNCHANGED <<month, storedKey>>
    BY <1>15 DEF PutCert
  <2>2. /\ r \in Manager /\ r.pair = machine[m].pair /\ r.step = "putKey" /\ r.new = machine[m].new
        /\ r.up = machine[m].up /\ r.ticked = machine[m].ticked /\ r.late = machine[m].late
    <3>1. machine[m] \in Manager /\ "putKey" \in TLSStep
      BY <1>2 DEF TLSStep
    <3>2. r \in Manager /\ SameBut(r, machine[m], "putKey") /\ r.new = machine[m].new
      BY <3>1, StepSet
    <3> HIDE DEF r
    <3> QED
      BY <3>2 DEF SameBut
  <2> HIDE DEF r
  <2>3. Own(r, month)
    BY <1>2, <2>1, <2>2 DEF Own
  <2>4. Loaded(machine[m].pair) => machine[m].pair.cert.month \in Nat
    BY <1>2, ManagerFields DEF Loaded, Cert
  <2>5. Kept(r, storedCert', storedKey')
    BY <1>1, <1>2, <1>13, <2>1, <2>2, <2>4 DEF Kept
  <2> QED
    BY <1>14, <2>1, <2>2, <2>3, <2>5
<1>16. ASSUME NEW m \in Machine, PutKey(m) PROVE CertBase'
  <2> DEFINE r == [machine[m] EXCEPT !.pair = machine[m].new]
  <2>1. /\ machine[m].step = "putKey" /\ storedKey' = machine[m].new.key
        /\ Becomes(m, Succeeds(r)) /\ UNCHANGED <<month, storedCert>>
    BY <1>16 DEF PutKey, InMemory
  <2>2. r \in Manager /\ r.pair = machine[m].new /\ Succeeds(r) \in Manager
    <3>1. machine[m].new \in Pair
      BY <1>2, ManagerFields
    <3>2. r \in Manager /\ r.pair = machine[m].new
      BY <1>2, <3>1, PairSet
    <3> HIDE DEF r
    <3> QED
      BY <3>2, ManagerUpdates
  <2> HIDE DEF r
  <2>3. /\ Succeeds(r).pair = machine[m].new /\ Succeeds(r).step = "rest"
    BY <2>2 DEF Succeeds, Manager
  <2>4. storedCert # NoPEM /\ machine[m].new.cert.month <= storedCert.month
    BY <1>2, <2>1 DEF Kept
  <2>5. Own(Succeeds(r), month)
    BY <1>1, <1>2, <1>13, <2>1, <2>2, <2>3 DEF Own, Loaded
  <2>6. Kept(Succeeds(r), storedCert', storedKey')
    BY <1>13, <2>1, <2>3, <2>4 DEF Kept
  <2> QED
    BY <1>14, <2>1, <2>2, <2>5, <2>6
<1>17. ASSUME NEW m \in Machine, PutPairFails(m) PROVE CertBase'
  <2>1. Fails(machine[m]) \in Manager /\ Own(Fails(machine[m]), month) /\ Kept(Fails(machine[m]), storedCert, storedKey)
    BY <1>1, <1>2, ManagerUpdates, OwnEnds
  <2>2. machine[m].step \in {"putCert", "putKey"} /\ Becomes(m, Fails(machine[m])) /\ UNCHANGED month
    BY <1>17 DEF PutPairFails
  <2>3. Grows
    BY <1>1, <1>13, <1>17, <2>2 DEF Grows, PutPairFails
  <2>4. Kept(Fails(machine[m]), storedCert', storedKey')
    BY <1>1, <2>1, <2>3, KeptAsItGrows
  <2> QED
    BY <1>14, <1>17, <2>1, <2>2, <2>4 DEF PutPairFails
<1>18. ASSUME NEW m \in Machine, MachineStops(m) PROVE CertBase'
  <2>1. Off \in Manager /\ Own(Off, month) /\ Kept(Off, storedCert, storedKey)
    BY <1>1, <1>2, ManagerUpdates, OwnEnds
  <2> QED
    BY <1>3, <1>18, <2>1 DEF MachineStops
<1>19. ASSUME MonthPasses PROVE CertBase'
  <2> SUFFICES ASSUME NEW m \in Machine
               PROVE  Own(machine'[m], month') /\ Kept(machine'[m], storedCert', storedKey')
    <3>1. Storage'
      <4>1. month' = month + 1 /\ UNCHANGED <<storedCert, storedKey>>
        BY <1>19 DEF MonthPasses
      <4>2. storedCert # NoPEM => storedCert.month \in Nat
        BY <1>1 DEF Cert, CertTyped
      <4> QED
        BY <1>1, <4>1, <4>2 DEF Storage, CertBase
    <3> QED
      BY <1>1, <3>1 DEF CertBase
  <2>1. /\ month' = month + 1 /\ UNCHANGED <<storedCert, storedKey>>
        /\ machine'[m] = [machine[m] EXCEPT !.ticked = FALSE,
                                            !.late = machine[m].late \/ (machine[m].up /\ ~machine[m].ticked)]
        /\ machine[m].step = "rest"
    BY <1>19 DEF MonthPasses
  <2>2. /\ machine'[m].pair = machine[m].pair /\ machine'[m].step = "rest"
        /\ machine'[m].up = machine[m].up /\ machine'[m].ticked = FALSE
        /\ machine'[m].late = (machine[m].late \/ (machine[m].up /\ ~machine[m].ticked))
    BY <1>2, <2>1 DEF Manager
  <2>3. Loaded(machine[m].pair) => machine[m].pair.cert.month \in Nat
    BY <1>1, <1>2, ManagerFields DEF Loaded, Cert, CertTyped
  <2>4. Own(machine'[m], month')
    <3>1. /\ machine[m].up \in BOOLEAN /\ machine[m].ticked \in BOOLEAN /\ machine[m].late \in BOOLEAN
          /\ month \in Nat
      BY <1>1, <1>2, ManagerFields DEF CertTyped
    <3>2. machine[m].up /\ ~machine'[m].late => ~machine[m].late /\ machine[m].ticked
      BY <2>2, <3>1
    <3>3. machine[m].ticked => Loaded(machine[m].pair) /\ month <= machine[m].pair.cert.month
      BY <1>2 DEF Own
    <3>4. Loaded(machine'[m].pair) <=> Loaded(machine[m].pair)
      BY <2>2
    <3>5. machine'[m].up => Loaded(machine'[m].pair) /\ (~machine'[m].late => month' <= machine'[m].pair.cert.month + 1)
      <4>1. machine[m].up => Loaded(machine[m].pair)
        BY <1>2 DEF Own
      <4>2. Loaded(machine[m].pair) /\ month <= machine[m].pair.cert.month => month + 1 <= machine[m].pair.cert.month + 1
        BY <2>3, <3>1
      <4> QED
        BY <2>1, <2>2, <3>2, <3>3, <3>4, <4>1, <4>2
    <3>6. Loaded(machine'[m].pair) => machine'[m].pair.key # NoPEM
      BY <1>2, <2>2, <3>4 DEF Own
    <3> QED
      BY <2>2, <3>5, <3>6 DEF Own
  <2>5. Kept(machine'[m], storedCert', storedKey')
    BY <1>2, <2>1, <2>2 DEF Kept
  <2> QED
    BY <2>4, <2>5
<1>20. CASE UNCHANGED <<month, storedCert, storedKey, machine>>
  BY <1>1, <1>20 DEF CertBase, Storage
<1> QED
  <2>1. CASE UNCHANGED tlsVars
    BY <1>20, <2>1 DEF tlsVars
  <2>2. ASSUME NEW h \in TLSHost,
               \/ \E m \in Machine : BuildHostTLSOpts(m, h)
               \/ TLSHostReady(h) \/ CreateARecord(h) \/ SetMachineHostHostname(h) \/ DeleteUnsavedRecord(h)
               \/ RetireTLSHost(h) \/ BuryTLSHost(h) \/ DeleteHostRecord(h) \/ LoseTLSHost(h) \/ ReaperStops(h)
        PROVE  CertBase'
    BY <1>20, <2>2 DEF BuildHostTLSOpts, TLSHostReady, CreateARecord, SetMachineHostHostname, DeleteUnsavedRecord,
                       RetireTLSHost, BuryTLSHost, DeleteHostRecord, LoseTLSHost, ReaperStops
  <2>3. ASSUME NEW m \in Machine, LoadCert(m) \/ LoadKey(m) PROVE CertBase'
    BY <1>7, <1>8, <1>21, <2>3 DEF LoadCert, LoadKey
  <2> QED
    BY <1>5, <1>6, <1>10, <1>11, <1>12, <1>15, <1>16, <1>17, <1>18, <1>19, <2>1, <2>2, <2>3
       DEF TLSNext, Refresh

\* At the start nothing is stored and every machine is off.
LEMMA CertBaseInitial ==
    ASSUME TLSInit
    PROVE  CertBase
<1>1. /\ month = 0 /\ storedCert = NoPEM /\ storedKey = NoPEM /\ account = FALSE
      /\ machine = [m \in Machine |-> Off] /\ generated = {} /\ aRecord = {} /\ contended = FALSE /\ strayed = {}
  BY DEF TLSInit
<1>2. Off \in Manager
  BY TLSAssumption DEF Off, NoPair, Pair, Manager, TLSStep
<1>3. NoTLSHost \in TLSHostRecord
  BY DEF NoTLSHost, NoPair, Pair, TLSHostRecord, HostStep
<1>4. CertTyped
  <2>1. machine \in [Machine -> Manager]
    BY <1>1, <1>2
  <2>2. tlsHost \in [TLSHost -> TLSHostRecord]
    BY <1>3 DEF TLSInit
  <2>3. month \in 0 .. MaxMonth
    BY <1>1, TLSAssumption
  <2> QED
    BY <1>1, <2>1, <2>2, <2>3 DEF CertTyped
<1>5. Own(Off, month) /\ Kept(Off, storedCert, storedKey)
  BY DEF Off, NoPair, Own, Kept, Loaded
<1> QED
  BY <1>1, <1>4, <1>5 DEF CertBase, Storage

\* While nobody has competed for the first pair: what one machine's record says
\* of the pair in storage.
One(r, cert, key) ==
    /\ IssuesFirst(r) => key = NoPEM
    /\ IssuesFirst(r) /\ r.step = "putKey" => cert = r.new.cert
    /\ Loaded(r.pair) => r.pair.key = key /\ Matching(r.pair)
    /\ r.step = "loadKey" /\ key # NoPEM => r.new.cert.key = key
Sole ==
    ~contended =>
        /\ ~Contention
        /\ storedKey # NoPEM => storedCert.key = storedKey
        /\ \A m \in Machine : One(machine[m], storedCert, storedKey)

\* A step of one machine keeps Sole if its new record fits what is then stored:
\* no other is about to issue when it writes the first pair, and a renewal keeps
\* the key.
LEMMA SoleOneMachine ==
    ASSUME CertBase, CertBase', Sole, ~contended', NEW m \in Machine, NEW r \in Manager, Becomes(m, r),
           One(r, storedCert', storedKey'),
           \/ UNCHANGED <<storedCert, storedKey>>
           \/ machine[m].step = "putCert" /\ storedCert' = machine[m].new.cert /\ UNCHANGED storedKey
           \/ machine[m].step = "putKey" /\ storedKey' = machine[m].new.key /\ UNCHANGED storedCert
    PROVE  Sole'
<1>1. ~contended /\ ~Contention' /\ ~Contention
  BY DEF Becomes, Sole
<1>2. machine' = [machine EXCEPT ![m] = r] /\ machine \in [Machine -> Manager]
  BY DEF Becomes, CertBase, CertTyped
<1>3. storedKey # NoPEM => storedCert.key = storedKey
  BY <1>1 DEF Sole
<1>4. \A n \in Machine : One(machine[n], storedCert, storedKey) /\ Own(machine[n], month)
  BY <1>1 DEF Sole, CertBase
<1>5. /\ storedKey' # NoPEM => storedCert'.key = storedKey'
      /\ \A n \in Machine \ {m} : One(machine[n], storedCert', storedKey')
  <2>1. CASE UNCHANGED <<storedCert, storedKey>>
    BY <1>3, <1>4, <2>1
  <2>2. CASE UNCHANGED storedKey /\ machine[m].step = "putCert" /\ storedCert' = machine[m].new.cert
    <3>1. CASE Loaded(machine[m].pair)
      <4>1. storedKey # NoPEM /\ machine[m].new.cert.key = storedKey
        BY <1>4, <2>2, <3>1 DEF Own, One
      <4> QED
        BY <1>4, <2>2, <4>1 DEF One
    <3>2. CASE ~Loaded(machine[m].pair)
      <4>1. IssuesFirst(machine[m])
        BY <2>2, <3>2 DEF IssuesFirst
      <4>2. storedKey = NoPEM
        BY <1>4, <4>1 DEF One
      <4>3. \A n \in Machine \ {m} : machine[n].step \notin {"loadKey", "obtain", "putCert", "putKey"}
        BY <1>1, <4>1 DEF Contention
      <4> QED
        BY <1>4, <2>2, <4>2, <4>3 DEF One, IssuesFirst
    <3> QED
      BY <3>1, <3>2
  <2>3. CASE UNCHANGED storedCert /\ machine[m].step = "putKey" /\ storedKey' = machine[m].new.key
    <3>1. CASE Loaded(machine[m].pair)
      <4>1. storedKey' = storedKey
        BY <1>4, <2>3, <3>1 DEF Own, One
      <4> QED
        BY <1>3, <1>4, <2>3, <4>1
    <3>2. CASE ~Loaded(machine[m].pair)
      <4>1. IssuesFirst(machine[m])
        BY <2>3, <3>2 DEF IssuesFirst
      <4>2. storedKey = NoPEM /\ storedCert = machine[m].new.cert
        BY <1>4, <2>3, <4>1 DEF One
      <4>3. machine[m].new.cert.key = machine[m].new.key
        BY <1>4, <2>3 DEF Own
      <4>4. ASSUME NEW n \in Machine \ {m} PROVE One(machine[n], storedCert', storedKey')
        <5>1. machine[n].step \notin {"loadKey", "obtain", "putCert", "putKey"}
          BY <1>1, <4>1 DEF Contention
        <5>2. ~Loaded(machine[n].pair)
          BY <1>4, <4>2 DEF One, Own
        <5> QED
          BY <5>1, <5>2 DEF One, IssuesFirst
      <4> QED
        BY <2>3, <4>2, <4>3, <4>4
    <3> QED
      BY <3>1, <3>2
  <2> QED
    BY <2>1, <2>2, <2>3
<1>6. \A n \in Machine : One(machine'[n], storedCert', storedKey')
  BY <1>2, <1>5
<1> QED
  BY <1>1, <1>5, <1>6 DEF Sole, One, IssuesFirst, Loaded, Matching

\* What ends or begins an attempt fits whatever is stored.
LEMMA OneEnds ==
    ASSUME NEW r \in Manager, NEW cert, NEW key, One(r, cert, key)
    PROVE  /\ One(Off, cert, key) /\ One(Fails(r), cert, key)
           /\ ~Loaded(r.pair) => (key = NoPEM => One(NextStep(r), cert, key))
           /\ Loaded(r.pair) => One(NextStep(r), cert, key)
<1>1. One(Off, cert, key)
  BY DEF One, Off, NoPair, Loaded, IssuesFirst
<1>2. One(Fails(r), cert, key)
  <2>1. CASE r.up
    <3>1. Fails(r).pair = r.pair /\ Fails(r).step = "rest"
      BY <2>1 DEF Fails, Manager
    <3> QED
      BY <3>1 DEF One, IssuesFirst
  <2>2. CASE ~r.up
    BY <1>1, <2>2 DEF Fails
  <2> QED
    BY <2>1, <2>2
<1>3. ASSUME ~Loaded(r.pair), key = NoPEM PROVE One(NextStep(r), cert, key)
  <2> DEFINE q == [r EXCEPT !.step = "obtain"]
  <2>1. q.pair = r.pair /\ q.step = "obtain" /\ NextStep(r) = q
    BY <1>3 DEF Manager, NextStep
  <2> HIDE DEF q
  <2> QED
    BY <1>3, <2>1 DEF One, IssuesFirst
<1>4. ASSUME Loaded(r.pair) PROVE One(NextStep(r), cert, key)
  <2> DEFINE q == [r EXCEPT !.step = "renew"]
  <2>1. q.pair = r.pair /\ q.step = "renew"
    BY DEF Manager
  <2>2. Succeeds(r).pair = r.pair /\ Succeeds(r).step = "rest"
    BY DEF Manager, Succeeds
  <2>3. NextStep(r) = q \/ NextStep(r) = Succeeds(r)
    BY <1>4 DEF NextStep
  <2> HIDE DEF q
  <2> QED
    BY <1>4, <2>1, <2>2, <2>3 DEF One, IssuesFirst
<1> QED
  BY <1>1, <1>2, <1>3, <1>4

\* Every step keeps Sole.
LEMMA SoleStep ==
    ASSUME CertBase, CertBase', Sole, [TLSNext]_tlsVars, ~contended'
    PROVE  Sole'
<1> USE TLSAssumption DEF Certificates, hostVars, storedPair
<1>1. CASE contended' = contended /\ UNCHANGED <<machine, storedCert, storedKey>>
  BY <1>1 DEF Sole, Contention, IssuesFirst, One, Loaded, Matching
<1>2. ASSUME ~contended
      PROVE  /\ storedKey # NoPEM => storedCert.key = storedKey
             /\ \A m \in Machine : /\ machine[m] \in Manager /\ Own(machine[m], month)
                                   /\ One(machine[m], storedCert, storedKey)
  BY <1>2 DEF Sole, CertBase, CertTyped
<1>3. ASSUME NEW m \in Machine, NEW r, Becomes(m, r) PROVE ~contended
  BY <1>3 DEF Becomes
\* Most steps write neither object.
<1>4. ASSUME NEW m \in Machine, NEW r \in Manager, Becomes(m, r), UNCHANGED <<storedCert, storedKey>>,
             One(r, storedCert, storedKey)
      PROVE  Sole'
  BY <1>4, SoleOneMachine
<1>5. ASSUME NEW m \in Machine, EnsureFresh(m) PROVE Sole'
  <2> DEFINE s == IF machine[m].client THEN "loadCert" ELSE "user"
             r == [machine[m] EXCEPT !.failed = FALSE, !.step = s]
  <2>1. Becomes(m, r) /\ UNCHANGED <<storedCert, storedKey>>
    BY <1>5 DEF EnsureFresh
  <2>2. machine[m] \in Manager /\ One(machine[m], storedCert, storedKey) /\ s \in TLSStep /\ s \in {"loadCert", "user"}
    BY <1>2, <1>3, <2>1 DEF TLSStep
  <2> HIDE DEF s
  <2>3. r \in Manager /\ SameBut(r, machine[m], s)
    BY <2>2, FlagSet
  <2> HIDE DEF r
  <2>4. One(r, storedCert, storedKey)
    BY <2>2, <2>3 DEF One, SameBut, IssuesFirst
  <2> QED
    BY <1>4, <2>1, <2>3, <2>4
<1>6. ASSUME NEW m \in Machine, LoadAccount(m) \/ RegisterAccount(m) PROVE Sole'
  <2> DEFINE r == [machine[m] EXCEPT !.client = TRUE, !.step = "loadCert"]
             q == [machine[m] EXCEPT !.step = "register"]
  <2>1. /\ Becomes(m, r) \/ Becomes(m, q) \/ Becomes(m, Fails(machine[m]))
        /\ UNCHANGED <<storedCert, storedKey>>
    BY <1>6 DEF LoadAccount, RegisterAccount
  <2>2. machine[m] \in Manager /\ One(machine[m], storedCert, storedKey)
    BY <1>2, <1>3, <2>1
  <2>3. r \in Manager /\ SameBut(r, machine[m], "loadCert")
    BY <2>2, ClientSet DEF TLSStep
  <2>4. q \in Manager /\ SameBut(q, machine[m], "register")
    BY <2>2, StepSet DEF TLSStep
  <2>5. Fails(machine[m]) \in Manager /\ One(Fails(machine[m]), storedCert, storedKey)
    BY <2>2, ManagerUpdates, OneEnds
  <2> HIDE DEF r, q
  <2>6. One(r, storedCert, storedKey)
    BY <2>2, <2>3 DEF One, SameBut, IssuesFirst
  <2>7. One(q, storedCert, storedKey)
    BY <2>2, <2>4 DEF One, SameBut, IssuesFirst
  <2> QED
    BY <1>4, <2>1, <2>3, <2>4, <2>5, <2>6, <2>7
<1>18. ASSUME NEW m \in Machine, Becomes(m, Fails(machine[m])), UNCHANGED <<storedCert, storedKey>> PROVE Sole'
  <2>1. machine[m] \in Manager /\ One(machine[m], storedCert, storedKey)
    BY <1>2, <1>3, <1>18
  <2>2. Fails(machine[m]) \in Manager /\ One(Fails(machine[m]), storedCert, storedKey)
    BY <2>1, ManagerUpdates, OneEnds
  <2> QED
    BY <1>4, <1>18, <2>2
<1>7. ASSUME NEW m \in Machine, LoadCert(m), ~Becomes(m, Fails(machine[m])) PROVE Sole'
  <2>1. ~contended
    BY <1>3, <1>7 DEF LoadCert
  <2>2. machine[m] \in Manager /\ One(machine[m], storedCert, storedKey)
    BY <1>2, <2>1
  <2>3. CASE storedCert = NoPEM
    <3>1. storedKey = NoPEM
      BY <2>3 DEF CertBase, Storage
    <3>2. NextStep(machine[m]) \in Manager /\ One(NextStep(machine[m]), storedCert, storedKey)
      BY <2>2, <3>1, NextStepTypes, OneEnds
    <3>3. Becomes(m, NextStep(machine[m])) /\ UNCHANGED <<storedCert, storedKey>>
      BY <1>7, <2>3 DEF LoadCert
    <3> QED
      BY <1>4, <3>2, <3>3
  <2>4. CASE storedCert # NoPEM
    <3> DEFINE r == WithCert(machine[m], "loadKey", storedCert)
    <3>1. storedCert \in Cert \cup {NoPEM} /\ "loadKey" \in TLSStep
      BY DEF CertBase, CertTyped, TLSStep
    <3>2. r \in Manager /\ SameBut(r, machine[m], "loadKey") /\ r.new.cert = storedCert
      BY <2>2, <3>1, CertSet
    <3>3. Becomes(m, r) /\ UNCHANGED <<storedCert, storedKey>>
      BY <1>7, <2>4 DEF LoadCert, WithCert
    <3> HIDE DEF r
    <3>4. One(r, storedCert, storedKey)
      BY <1>2, <2>1, <2>2, <3>2 DEF One, SameBut, IssuesFirst
    <3> QED
      BY <1>4, <3>2, <3>3, <3>4
  <2> QED
    BY <2>3, <2>4
<1>8. ASSUME NEW m \in Machine, LoadKey(m), ~Becomes(m, Fails(machine[m])) PROVE Sole'
  <2>1. ~contended
    BY <1>3, <1>8 DEF LoadKey
  <2>2. /\ machine[m] \in Manager /\ One(machine[m], storedCert, storedKey) /\ Own(machine[m], month)
        /\ machine[m].step = "loadKey"
    BY <1>2, <1>8, <2>1 DEF LoadKey
  <2>3. CASE storedKey = NoPEM
    <3>1. NextStep(machine[m]) \in Manager /\ One(NextStep(machine[m]), storedCert, storedKey)
      BY <2>2, <2>3, NextStepTypes, OneEnds
    <3>2. Becomes(m, NextStep(machine[m])) /\ UNCHANGED <<storedCert, storedKey>>
      BY <1>8, <2>3 DEF LoadKey
    <3> QED
      BY <1>4, <3>1, <3>2
  <2>4. CASE storedKey # NoPEM
    <3> DEFINE p == [cert |-> machine[m].new.cert, key |-> storedKey]
               r == [machine[m] EXCEPT !.pair = p]
    <3>1. Becomes(m, NextStep(r)) /\ UNCHANGED <<storedCert, storedKey>>
      BY <1>8, <2>4 DEF LoadKey
    <3>2. p \in Pair /\ p.cert = machine[m].new.cert /\ p.key = storedKey
      BY <2>2, ManagerFields DEF CertBase, CertTyped, Pair
    <3> HIDE DEF p
    <3>3. r \in Manager /\ r.pair = p /\ r.step = machine[m].step /\ r.new = machine[m].new
      BY <2>2, <3>2, PairSet
    <3> HIDE DEF r
    <3>4. Loaded(r.pair) /\ One(r, storedCert, storedKey)
      BY <2>2, <2>4, <3>2, <3>3 DEF One, IssuesFirst, Loaded, Matching, Own
    <3>5. NextStep(r) \in Manager /\ One(NextStep(r), storedCert, storedKey)
      BY <3>3, <3>4, NextStepTypes, OneEnds
    <3> QED
      BY <1>4, <3>1, <3>5
  <2> QED
    BY <2>3, <2>4
<1>9. ASSUME NEW m \in Machine, NEW k \in Key, Becomes(m, WithNew(machine[m], "putCert", Issue(k))),
             UNCHANGED <<storedCert, storedKey>>, machine[m].step \in {"obtain", "renew"}
      PROVE  Sole'
  <2> DEFINE r == WithNew(machine[m], "putCert", Issue(k))
  <2>1. machine[m] \in Manager /\ One(machine[m], storedCert, storedKey) /\ Own(machine[m], month)
    BY <1>2, <1>3, <1>9
  <2>2. Issue(k) \in Pair /\ "putCert" \in TLSStep
    BY IssueTypes DEF CertBase, CertTyped, TLSStep
  <2>3. r \in Manager /\ SameBut(r, machine[m], "putCert")
    BY <2>1, <2>2, NewSet
  <2>4. Becomes(m, r)
    BY <1>9
  <2> HIDE DEF r
  <2>5. One(r, storedCert, storedKey)
    BY <1>9, <2>1, <2>3 DEF One, SameBut, IssuesFirst, Own
  <2> QED
    BY <1>4, <1>9, <2>3, <2>4, <2>5
<1>10. ASSUME NEW m \in Machine, Obtain(m) PROVE Sole'
  <2>1. PICK k \in Key \ generated : Becomes(m, WithNew(machine[m], "putCert", Issue(k)))
    BY <1>10 DEF Obtain, WithNew
  <2> QED
    BY <1>9, <1>10, <2>1 DEF Obtain
<1>11. ASSUME NEW m \in Machine, Renew(m) PROVE Sole'
  <2>1. machine[m].step = "renew" /\ machine[m] \in Manager /\ Own(machine[m], month)
    BY <1>11 DEF Renew, CertBase, CertTyped
  <2>2. machine[m].pair.key \in Key
    BY <2>1, ManagerFields DEF Own
  <2>3. Becomes(m, WithNew(machine[m], "putCert", Issue(machine[m].pair.key))) /\ UNCHANGED <<storedCert, storedKey>>
    BY <1>11 DEF Renew, Renewed, WithNew
  <2> QED
    BY <1>9, <2>1, <2>2, <2>3
<1>12. ASSUME NEW m \in Machine, IssueFails(m) PROVE Sole'
  BY <1>12, <1>18 DEF IssueFails
<1>13. ASSUME NEW m \in Machine, PutCert(m) PROVE Sole'
  <2> DEFINE r == [machine[m] EXCEPT !.step = "putKey"]
  <2>1. /\ machine[m].step = "putCert" /\ storedCert' = machine[m].new.cert
        /\ Becomes(m, r) /\ UNCHANGED storedKey
    BY <1>13 DEF PutCert
  <2>2. machine[m] \in Manager /\ One(machine[m], storedCert, storedKey) /\ "putKey" \in TLSStep
    BY <1>2, <1>3, <2>1 DEF TLSStep
  <2>3. r \in Manager /\ SameBut(r, machine[m], "putKey") /\ r.new = machine[m].new
    BY <2>2, StepSet
  <2> HIDE DEF r
  <2>4. One(r, storedCert', storedKey')
    BY <2>1, <2>2, <2>3 DEF One, SameBut, IssuesFirst
  <2> QED
    BY <2>1, <2>3, <2>4, SoleOneMachine
<1>14. ASSUME NEW m \in Machine, PutKey(m) PROVE Sole'
  <2> DEFINE r == [machine[m] EXCEPT !.pair = machine[m].new]
  <2>1. /\ machine[m].step = "putKey" /\ storedKey' = machine[m].new.key
        /\ Becomes(m, Succeeds(r)) /\ UNCHANGED storedCert
    BY <1>14 DEF PutKey, InMemory
  <2>2. machine[m] \in Manager /\ Own(machine[m], month) /\ machine[m].new \in Pair
    BY <1>2, <1>3, <2>1, ManagerFields
  <2>3. r \in Manager /\ r.pair = machine[m].new
    BY <2>2, PairSet
  <2> HIDE DEF r
  <2>4. Succeeds(r) \in Manager /\ Succeeds(r).pair = machine[m].new /\ Succeeds(r).step = "rest"
    <3>1. Succeeds(r) \in Manager
      BY <2>3, ManagerUpdates
    <3> QED
      BY <2>3, <3>1 DEF Succeeds, Manager
  <2>5. One(Succeeds(r), storedCert', storedKey')
    BY <2>1, <2>2, <2>4 DEF One, IssuesFirst, Matching, Own
  <2> QED
    BY <2>1, <2>4, <2>5, SoleOneMachine
<1>15. ASSUME NEW m \in Machine, PutPairFails(m) PROVE Sole'
  <2>1. Becomes(m, Fails(machine[m]))
    BY <1>15 DEF PutPairFails
  <2>2. machine[m] \in Manager /\ One(machine[m], storedCert, storedKey) /\ Own(machine[m], month)
    BY <1>2, <1>3, <2>1
  <2>3. Fails(machine[m]) \in Manager
    BY <2>2, ManagerUpdates
  <2>4. \/ UNCHANGED <<storedCert, storedKey>>
        \/ machine[m].step = "putCert" /\ storedCert' = machine[m].new.cert /\ UNCHANGED storedKey
        \/ machine[m].step = "putKey" /\ storedKey' = machine[m].new.key /\ UNCHANGED storedCert
    BY <1>15 DEF PutPairFails
  <2>5. One(Fails(machine[m]), storedCert', storedKey')
    <3>1. CASE machine[m].up
      <4>1. /\ Fails(machine[m]).pair = machine[m].pair /\ Fails(machine[m]).step = "rest"
        BY <2>2, <3>1 DEF Fails, Manager
      <4>2. Loaded(machine[m].pair) => storedKey' = storedKey
        BY <2>2, <2>4 DEF Own, One
      <4> QED
        BY <2>2, <4>1, <4>2 DEF One, IssuesFirst
    <3>2. CASE ~machine[m].up
      BY <3>2 DEF Fails, Off, NoPair, One, Loaded, IssuesFirst
    <3> QED
      BY <3>1, <3>2
  <2> QED
    BY <2>1, <2>3, <2>4, <2>5, SoleOneMachine
<1>16. ASSUME NEW m \in Machine, MachineStops(m) PROVE Sole'
  <2>1. Becomes(m, Off) /\ UNCHANGED <<storedCert, storedKey>>
    BY <1>16 DEF MachineStops
  <2>2. Off \in Manager /\ One(Off, storedCert, storedKey)
    <3>1. machine[m] \in Manager /\ One(machine[m], storedCert, storedKey)
      BY <1>2, <1>3, <2>1
    <3> QED
      BY <3>1, ManagerUpdates, OneEnds
  <2> QED
    BY <1>4, <2>1, <2>2
<1>17. ASSUME MonthPasses PROVE Sole'
  <2>1. ~contended /\ UNCHANGED <<storedCert, storedKey, contended>>
    BY <1>17 DEF MonthPasses
  <2>2. ASSUME NEW m \in Machine
        PROVE  machine'[m].pair = machine[m].pair /\ machine'[m].step = "rest"
    <3>1. /\ machine'[m] = [machine[m] EXCEPT !.ticked = FALSE,
                                              !.late = machine[m].late \/ (machine[m].up /\ ~machine[m].ticked)]
          /\ machine[m].step = "rest"
      BY <1>17 DEF MonthPasses
    <3> QED
      BY <1>2, <2>1, <3>1 DEF Manager
  <2>3. ~Contention'
    BY <2>2 DEF Contention, IssuesFirst
  <2>4. ASSUME NEW m \in Machine PROVE One(machine'[m], storedCert', storedKey')
    BY <1>2, <2>1, <2>2 DEF One, IssuesFirst
  <2>5. storedKey' # NoPEM => storedCert'.key = storedKey'
    BY <1>2, <2>1
  <2> QED
    BY <2>3, <2>4, <2>5 DEF Sole, One, IssuesFirst, Loaded, Matching
<1> QED
  <2>1. CASE UNCHANGED tlsVars
    BY <1>1, <2>1 DEF tlsVars
  <2>2. ASSUME NEW h \in TLSHost,
               \/ \E m \in Machine : BuildHostTLSOpts(m, h)
               \/ TLSHostReady(h) \/ CreateARecord(h) \/ SetMachineHostHostname(h) \/ DeleteUnsavedRecord(h)
               \/ RetireTLSHost(h) \/ BuryTLSHost(h) \/ DeleteHostRecord(h) \/ LoseTLSHost(h) \/ ReaperStops(h)
        PROVE  Sole'
    BY <1>1, <2>2 DEF BuildHostTLSOpts, TLSHostReady, CreateARecord, SetMachineHostHostname, DeleteUnsavedRecord,
                      RetireTLSHost, BuryTLSHost, DeleteHostRecord, LoseTLSHost, ReaperStops
  <2>3. ASSUME NEW m \in Machine, LoadCert(m) \/ LoadKey(m) PROVE Sole'
    BY <1>7, <1>8, <1>18, <2>3 DEF LoadCert, LoadKey
  <2> QED
    BY <1>5, <1>6, <1>10, <1>11, <1>12, <1>13, <1>14, <1>15, <1>16, <1>17, <2>1, <2>2, <2>3
       DEF TLSNext, Refresh

-----------------------------------------------------------------------------
(***************************************************************************)
(* The theorems.                                                           *)
(***************************************************************************)
\* EnsureFresh of any number of machines keeps what the records and the two
\* objects say of each other (manager.go:38-41, server.go:96-99).
THEOREM CertificateInvariance == TLSSpec => [](CertBase /\ Sole)
<1>1. TLSInit => CertBase /\ Sole
  <2> SUFFICES ASSUME TLSInit PROVE CertBase /\ Sole
    OBVIOUS
  <2>1. machine = [m \in Machine |-> Off] /\ storedKey = NoPEM
    BY DEF TLSInit
  <2>2. Sole
    BY <2>1 DEF Sole, Contention, One, Off, NoPair, Loaded, IssuesFirst
  <2> QED
    BY <2>2, CertBaseInitial
<1>2. CertBase /\ Sole /\ [TLSNext]_tlsVars => CertBase' /\ Sole'
  <2> SUFFICES ASSUME CertBase, Sole, [TLSNext]_tlsVars PROVE CertBase' /\ Sole'
    OBVIOUS
  <2>1. CertBase'
    BY CertBaseStep
  <2>2. CASE contended'
    BY <2>1, <2>2 DEF Sole
  <2>3. CASE ~contended'
    BY <2>1, <2>3, SoleStep
  <2> QED
    BY <2>1, <2>2, <2>3
<1> QED
  BY <1>1, <1>2, PTL DEF TLSSpec

\* So what a new host is given works (BuildHostTLSOpts copies the pair in
\* memory).
THEOREM PairInServiceAlways == TLSSpec => []PairInService
<1>1. CertBase /\ Sole => PairInService
  <2> SUFFICES ASSUME CertBase, Sole PROVE PairInService
    OBVIOUS
  <2>1. ServesValid
    <3> SUFFICES ASSUME NEW m \in Machine, machine[m].up, ~machine[m].late
                 PROVE  Loaded(machine[m].pair) /\ ~Expired(machine[m].pair.cert)
      BY DEF ServesValid
    <3>1. machine[m] \in Manager /\ Own(machine[m], month) /\ month \in Nat
      BY TLSAssumption DEF CertBase, CertTyped
    <3>2. Loaded(machine[m].pair) /\ month <= machine[m].pair.cert.month + 1
      BY <3>1 DEF Own
    <3>3. machine[m].pair.cert.month \in Nat
      BY <3>1, <3>2, ManagerFields, TLSAssumption DEF Loaded, Cert
    <3> QED
      BY <3>1, <3>2, <3>3 DEF Expired
  <2>2. PairMatches
    BY DEF PairMatches, Sole, One
  <2> QED
    BY <2>1, <2>2 DEF PairInService
<1> QED
  BY <1>1, CertificateInvariance, PTL

\* The records, host by host: one that is being made has no name yet, and has a
\* record only between the call that makes one and the row that names it; its row
\* comes after the VM; who deletes the record has buried the row, and knows a
\* record only if the row names it.
RecordBase(h) ==
    /\ tlsHost[h].step \in {"none", "boot"} =>
        tlsHost[h].row = "none" /\ tlsHost[h].reaper = "none" /\ h \notin aRecord
    /\ tlsHost[h].step # "done" => ~tlsHost[h].linked
    /\ tlsHost[h].step = "dns" => h \notin aRecord
    /\ tlsHost[h].step \in {"link", "unlink"} => h \in aRecord
    /\ tlsHost[h].reaper = "record" => tlsHost[h].row = "deleted"
    /\ tlsHost[h].named => tlsHost[h].linked
    /\ InUse(h) /\ tlsHost[h].linked => h \in aRecord
    /\ h \in aRecord =>
        \/ tlsHost[h].step \in {"link", "unlink"}
        \/ InUse(h) /\ tlsHost[h].linked
        \/ tlsHost[h].reaper = "record" /\ tlsHost[h].named
        \/ h \in strayed

\* Every step keeps it.
LEMMA RecordBaseStep ==
    ASSUME CertTyped, \A h \in TLSHost : RecordBase(h), [TLSNext]_tlsVars
    PROVE  \A h \in TLSHost : RecordBase(h)'
<1> USE DEF Certificates, hostVars, storedPair
<1>1. /\ tlsHost \in [TLSHost -> TLSHostRecord]
      /\ \A h \in TLSHost : tlsHost[h] \in TLSHostRecord
  BY DEF CertTyped
\* What concerns one host concerns no other.
<1>2. ASSUME NEW h \in TLSHost, RecordBase(h)', NEW r, tlsHost' = [tlsHost EXCEPT ![h] = r],
             \A g \in TLSHost \ {h} : (g \in aRecord' <=> g \in aRecord) /\ (g \in strayed => g \in strayed')
      PROVE  \A g \in TLSHost : RecordBase(g)'
  <2> SUFFICES ASSUME NEW g \in TLSHost, g # h PROVE RecordBase(g)'
    BY <1>2
  <2>1. tlsHost'[g] = tlsHost[g]
    BY <1>1, <1>2
  <2> QED
    BY <1>2, <2>1 DEF RecordBase, InUse
<1>3. ASSUME NEW m \in Machine, NEW h \in TLSHost, BuildHostTLSOpts(m, h) PROVE \A g \in TLSHost : RecordBase(g)'
  <2> DEFINE r == [NoTLSHost EXCEPT !.step = "boot", !.by = m, !.pair = machine[m].pair]
  <2>1. tlsHost' = [tlsHost EXCEPT ![h] = r] /\ UNCHANGED <<aRecord, strayed>> /\ tlsHost[h].step = "none"
    BY <1>3 DEF BuildHostTLSOpts
  <2>2. r.step = "boot" /\ r.row = "none" /\ r.reaper = "none" /\ r.linked = FALSE /\ r.named = FALSE
    BY DEF NoTLSHost
  <2> HIDE DEF r
  <2>3. RecordBase(h)'
    BY <1>1, <2>1, <2>2 DEF RecordBase, InUse
  <2> QED
    BY <1>2, <2>1, <2>3
<1>4. ASSUME NEW h \in TLSHost, TLSHostReady(h) PROVE \A g \in TLSHost : RecordBase(g)'
  <2>1. PICK s \in {"dns", "done"}, row \in {"ready", "provisioning"} :
          tlsHost' = [tlsHost EXCEPT ![h] = [tlsHost[h] EXCEPT !.step = s, !.row = row]]
    BY <1>4 DEF TLSHostReady
  <2>2. tlsHost[h].step = "boot" /\ UNCHANGED <<aRecord, strayed>>
    BY <1>4 DEF TLSHostReady
  <2>3. RecordBase(h)'
    BY <1>1, <2>1, <2>2 DEF RecordBase, InUse, TLSHostRecord
  <2> QED
    BY <1>2, <2>1, <2>2, <2>3
<1>5. ASSUME NEW h \in TLSHost, CreateARecord(h) \/ DeleteUnsavedRecord(h) PROVE \A g \in TLSHost : RecordBase(g)'
  <2>1. PICK s \in {"link", "done"} : tlsHost' = [tlsHost EXCEPT ![h] = [tlsHost[h] EXCEPT !.step = s]]
    BY <1>5 DEF CreateARecord, DeleteUnsavedRecord, Reach
  <2>2. /\ tlsHost[h].step \in {"dns", "unlink"}
        /\ \A g \in TLSHost \ {h} : (g \in aRecord' <=> g \in aRecord) /\ (g \in strayed => g \in strayed')
    BY <1>5 DEF CreateARecord, DeleteUnsavedRecord, Unrecord
  <2>3. tlsHost'[h].step = "link" => h \in aRecord'
    BY <1>1, <1>5 DEF CreateARecord, DeleteUnsavedRecord, Reach, TLSHostRecord
  <2>4. tlsHost'[h].step = "done" => h \in strayed' \/ h \notin aRecord'
    <3>1. CASE CreateARecord(h)
      <4>1. Reach(h, "link") \/ h \in strayed' \/ (UNCHANGED aRecord /\ tlsHost[h].step = "dns")
        BY <3>1 DEF CreateARecord
      <4> QED
        BY <1>1, <4>1 DEF Reach, RecordBase, TLSHostRecord
    <3>2. CASE DeleteUnsavedRecord(h)
      BY <3>2 DEF DeleteUnsavedRecord, Unrecord
    <3> QED
      BY <1>5, <3>1, <3>2
  <2>5. RecordBase(h)'
    BY <1>1, <2>1, <2>2, <2>3, <2>4 DEF RecordBase, InUse, TLSHostRecord
  <2> QED
    BY <1>2, <2>1, <2>2, <2>5
<1>6. ASSUME NEW h \in TLSHost, SetMachineHostHostname(h) PROVE \A g \in TLSHost : RecordBase(g)'
  <2>1. /\ tlsHost[h].step = "link" /\ UNCHANGED aRecord
        /\ \A g \in TLSHost : g \in strayed => g \in strayed'
    BY <1>6 DEF SetMachineHostHostname
  <2>2. CASE tlsHost' = [tlsHost EXCEPT ![h].step = "done", ![h].linked = TRUE]
    <3>1. tlsHost' = [tlsHost EXCEPT ![h] = [tlsHost[h] EXCEPT !.step = "done", !.linked = TRUE]]
      BY <2>2
    <3>2. ~InUse(h) => h \in strayed'
      BY <1>6, <2>1, <2>2, <1>1 DEF SetMachineHostHostname, Reach, TLSHostRecord
    <3>3. RecordBase(h)'
      BY <1>1, <2>1, <3>1, <3>2 DEF RecordBase, InUse, TLSHostRecord
    <3> QED
      BY <1>2, <2>1, <3>1, <3>3
  <2>3. CASE Reach(h, "unlink")
    <3>1. tlsHost' = [tlsHost EXCEPT ![h] = [tlsHost[h] EXCEPT !.step = "unlink"]]
      BY <2>3 DEF Reach
    <3>2. RecordBase(h)'
      BY <1>1, <2>1, <3>1 DEF RecordBase, InUse, TLSHostRecord
    <3> QED
      BY <1>2, <2>1, <3>1, <3>2
  <2> QED
    BY <1>6, <2>2, <2>3 DEF SetMachineHostHostname
<1>7. ASSUME NEW h \in TLSHost, RetireTLSHost(h) PROVE \A g \in TLSHost : RecordBase(g)'
  <2>1. /\ tlsHost' = [tlsHost EXCEPT ![h] = [tlsHost[h] EXCEPT !.reaper = "count", !.named = tlsHost[h].linked]]
        /\ UNCHANGED <<aRecord, strayed>> /\ tlsHost[h].reaper = "none" /\ tlsHost[h].row # "none"
    BY <1>7 DEF RetireTLSHost
  <2>2. RecordBase(h)'
    BY <1>1, <2>1 DEF RecordBase, InUse, TLSHostRecord
  <2> QED
    BY <1>2, <2>1, <2>2
<1>8. ASSUME NEW h \in TLSHost, BuryTLSHost(h) PROVE \A g \in TLSHost : RecordBase(g)'
  <2>1. tlsHost[h].reaper = "count" /\ UNCHANGED aRecord /\ \A g \in TLSHost : g \in strayed => g \in strayed'
    BY <1>8 DEF BuryTLSHost
  <2>2. CASE tlsHost' = Reaped(h)
    <3>1. tlsHost' = [tlsHost EXCEPT ![h] = [tlsHost[h] EXCEPT !.reaper = "none", !.named = FALSE]]
      BY <2>2 DEF Reaped
    <3>2. RecordBase(h)'
      BY <1>1, <2>1, <3>1 DEF RecordBase, InUse, TLSHostRecord
    <3> QED
      BY <1>2, <2>1, <3>1, <3>2
  <2>3. CASE tlsHost' # Reaped(h)
    <3>1. /\ tlsHost' = [tlsHost EXCEPT ![h] = [tlsHost[h] EXCEPT !.reaper = "record", !.row = "deleted"]]
          /\ tlsHost[h].linked /\ ~tlsHost[h].named => h \in strayed'
      BY <1>8, <2>3 DEF BuryTLSHost
    <3>2. RecordBase(h)'
      BY <1>1, <2>1, <3>1 DEF RecordBase, InUse, TLSHostRecord
    <3> QED
      BY <1>2, <2>1, <3>1, <3>2
  <2> QED
    BY <2>2, <2>3
<1>9. ASSUME NEW h \in TLSHost, DeleteHostRecord(h) \/ ReaperStops(h) PROVE \A g \in TLSHost : RecordBase(g)'
  <2>1. /\ tlsHost' = [tlsHost EXCEPT ![h] = [tlsHost[h] EXCEPT !.reaper = "none", !.named = FALSE]]
        /\ \A g \in TLSHost \ {h} : (g \in aRecord' <=> g \in aRecord) /\ (g \in strayed => g \in strayed')
    BY <1>9 DEF DeleteHostRecord, ReaperStops, Reaped, Unrecord
  <2>2. /\ h \in aRecord' => h \in aRecord
        /\ h \in strayed => h \in strayed'
        /\ h \in aRecord /\ h \notin aRecord' => tlsHost[h].reaper = "record" /\ tlsHost[h].named
        /\ tlsHost[h].reaper = "record" /\ tlsHost[h].named /\ h \in aRecord' => h \in strayed'
    BY <1>9 DEF DeleteHostRecord, ReaperStops, NamesRecord, Unrecord
  <2>3. RecordBase(h)'
    BY <1>1, <2>1, <2>2 DEF RecordBase, InUse, TLSHostRecord
  <2> QED
    BY <1>2, <2>1, <2>3
<1>10. ASSUME NEW h \in TLSHost, LoseTLSHost(h) PROVE \A g \in TLSHost : RecordBase(g)'
  <2>1. /\ tlsHost' = [tlsHost EXCEPT ![h] = [tlsHost[h] EXCEPT !.row = "deleted"]]
        /\ UNCHANGED aRecord /\ tlsHost[h].row = "ready" /\ (tlsHost[h].linked => h \in strayed')
        /\ \A g \in TLSHost : g \in strayed => g \in strayed'
    BY <1>10 DEF LoseTLSHost
  <2>2. RecordBase(h)'
    BY <1>1, <2>1 DEF RecordBase, InUse, TLSHostRecord
  <2> QED
    BY <1>2, <2>1, <2>2
\* A machine that stops abandons several hosts at once.
<1>11. ASSUME NEW m \in Machine, MachineStops(m) PROVE \A g \in TLSHost : RecordBase(g)'
  <2> SUFFICES ASSUME NEW g \in TLSHost PROVE RecordBase(g)'
    OBVIOUS
  <2>1. aRecord' = aRecord /\ (g \in strayed => g \in strayed')
    BY <1>11 DEF MachineStops
  <2>2. CASE tlsHost[g].by = m
    <3>1. tlsHost'[g] = [tlsHost[g] EXCEPT !.step = Abandoned(g)]
      BY <1>11, <2>2 DEF MachineStops
    <3>2. g \in aRecord /\ tlsHost[g].step \in {"link", "unlink"} => g \in strayed'
      BY <1>11, <2>2 DEF MachineStops
    <3>3. CASE tlsHost[g].step \in {"boot", "dns", "link", "unlink"}
      <4>1. Abandoned(g) = IF tlsHost[g].step = "boot" THEN "none" ELSE "done"
        BY <3>3 DEF Abandoned
      <4> QED
        BY <1>1, <2>1, <3>1, <3>2, <3>3, <4>1 DEF RecordBase, InUse, TLSHostRecord
    <3>4. CASE tlsHost[g].step \notin {"boot", "dns", "link", "unlink"}
      <4>1. Abandoned(g) = tlsHost[g].step
        BY <3>4 DEF Abandoned
      <4> QED
        BY <1>1, <2>1, <3>1, <4>1 DEF RecordBase, InUse, TLSHostRecord
    <3> QED
      BY <3>3, <3>4
  <2>3. CASE tlsHost[g].by # m
    <3>1. tlsHost'[g] = tlsHost[g]
      BY <1>11, <2>3 DEF MachineStops
    <3> QED
      BY <2>1, <3>1 DEF RecordBase, InUse
  <2> QED
    BY <2>2, <2>3
\* The certificate's steps leave the hosts alone.
<1>12. CASE UNCHANGED <<tlsHost, aRecord, strayed>>
  BY <1>12 DEF RecordBase, InUse
<1> QED
  <2>1. CASE UNCHANGED tlsVars
    BY <1>12, <2>1 DEF tlsVars
  <2>2. CASE MonthPasses
    BY <1>12, <2>2 DEF MonthPasses
  <2>3. ASSUME NEW m \in Machine, EnsureFresh(m) \/ Refresh(m) \/ IssueFails(m) \/ PutPairFails(m)
        PROVE  \A g \in TLSHost : RecordBase(g)'
    BY <1>12, <2>3 DEF EnsureFresh, Refresh, IssueFails, PutPairFails, LoadAccount, RegisterAccount, LoadCert,
                       LoadKey, Obtain, Renew, PutCert, PutKey
  <2> QED
    BY <1>3, <1>4, <1>5, <1>6, <1>7, <1>8, <1>9, <1>10, <1>11, <2>1, <2>2, <2>3 DEF TLSNext

\* The machines, the storage and the hosts keep their types.
THEOREM CertificateTypes == TLSSpec => []TLSTypeOK
<1>1. CertBase => TLSTypeOK
  BY TypedIsTypeOK DEF CertBase
<1> QED
  BY <1>1, CertificateInvariance, PTL

\* A row in use that names a record has one, and a record belongs to a row that
\* names it, to a host being made or reaped, or to a failure or race that the code
\* passes over, though rows are buried while their records are being made
\* (dns.go:52-79, pairPlayers.go:221-228, reportResults.go:255).
THEOREM RecordsFollowRows == TLSSpec => []RecordFollowsRow
<1> DEFINE Inv == \A h \in TLSHost : RecordBase(h)
<1>1. TLSInit => Inv
  <2> SUFFICES ASSUME TLSInit PROVE Inv
    OBVIOUS
  <2>1. aRecord = {} /\ \A h \in TLSHost : tlsHost[h] = NoTLSHost
    BY DEF TLSInit
  <2> QED
    BY <2>1 DEF RecordBase, InUse, NoTLSHost
<1>2. CertBase /\ Inv /\ [TLSNext]_tlsVars => Inv'
  <2>1. CertBase => CertTyped
    BY DEF CertBase
  <2> QED
    BY <2>1, RecordBaseStep
<1>3. Inv => RecordFollowsRow
  BY DEF RecordBase, RecordFollowsRow
<1> HIDE DEF Inv
<1>4. TLSSpec => []Inv
  BY <1>1, <1>2, CertificateInvariance, PTL DEF TLSSpec
<1> QED
  BY <1>3, <1>4, PTL
=============================================================================
