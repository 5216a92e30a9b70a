---------------------------- MODULE WildcardTLS ----------------------------
(***************************************************************************)
(* The wildcard certificate that all machines share through two S3         *)
(* objects, and what a game-server host gets of it: a copy of the pair at  *)
(* creation, and a DNS record whose ID its row keeps.                      *)
(*                                                                         *)
(* EnsureFresh runs at start-up and then on the worker's certificate tick, *)
(* so never twice at once on one machine; hosts are created by pairing,    *)
(* warm-pool and HTTP goroutines beside it.                                *)
(***************************************************************************)
EXTENDS Naturals

CONSTANTS
    Machine,    \* machines that run the backend
    TLSHost,    \* hosts that may ever be created
    Key,        \* private keys that may ever be generated
    NoPEM,      \* no object in storage, nothing in memory
    MaxMonth,   \* how far time goes
    TLSFaults   \* which may happen: "crash", "acme", "get", "put", "dns", "db", "lost"

ASSUME TLSAssumption ==
    /\ NoPEM \notin Key
    /\ NoPEM \notin Machine
    /\ NoPEM \notin [key: Key, month: 0 .. MaxMonth]
    /\ MaxMonth \in Nat

VARIABLES       \* the certificate
    month,      \* a certificate is fresh in the month of its issue, due for
                \* renewal in the next one, and expired after that
    storedCert, \* wildcard-tls/cert.pem
    storedKey,  \* wildcard-tls/key.pem
    account,    \* whether wildcard-tls/account.json exists
    machine,    \* machine[m]: whether it is in service, its step, the fields of
                \* its Manager, and new, the pair EnsureFresh has in hand;
                \* as history, whether a tick succeeded this month, whether
                \* a month passed without one since, and whether the last failed
    generated   \* the keys generated so far

VARIABLES       \* the hosts
    tlsHost,    \* tlsHost[h]: its maker's step, its maker, the pair in its
                \* cloud-init, its row and whether that names a record; and
                \* the step of its reaper, and whether the row as he read it did
    aRecord      \* the hosts that have an A record

VARIABLES       \* history
    contended,  \* somebody loaded or issued while another machine was issuing
                \* the first certificate
    strayed     \* the hosts whose record was left behind by a crash, a failed
                \* deletion, the loss of the VM, or a burial before the row
                \* named it or by somebody who had read it before

storedPair == <<storedCert, storedKey>>
hostVars == <<tlsHost, aRecord, strayed>>
tlsVars == <<month, storedPair, account, machine, generated, hostVars, contended>>

TLSFault(f) == f \in TLSFaults

NoPair == [cert |-> NoPEM, key |-> NoPEM]
Off == [up |-> FALSE, step |-> "rest", client |-> FALSE, pair |-> NoPair, new |-> NoPair,
        ticked |-> FALSE, late |-> FALSE, failed |-> FALSE]
NoTLSHost == [step |-> "none", by |-> NoPEM, pair |-> NoPair, row |-> "none", linked |-> FALSE,
              reaper |-> "none", named |-> FALSE]

Loaded(pair) == pair.cert # NoPEM
Due(cert) == month > cert.month
Expired(cert) == month > cert.month + 1
Matching(pair) == pair.cert.key = pair.key

TLSInit ==
    /\ month = 0
    /\ storedCert = NoPEM
    /\ storedKey = NoPEM
    /\ account = FALSE
    /\ machine = [m \in Machine |-> Off]
    /\ generated = {}
    /\ tlsHost = [h \in TLSHost |-> NoTLSHost]
    /\ aRecord = {}
    /\ contended = FALSE
    /\ strayed = {}

\* Two machines that issue, or load and issue, the first pair at once may mix
\* the certificate of one with the key of the other.
IssuesFirst(r) == ~Loaded(r.pair) /\ r.step \in {"obtain", "putCert", "putKey"}
Contention ==
    \E m \in Machine : IssuesFirst(machine[m]) /\
        \E n \in Machine \ {m} : machine[n].step \in {"loadKey", "obtain", "putCert", "putKey"}

(***************************************************************************)
(* EnsureFresh.                                                            *)
(***************************************************************************)
Becomes(m, r) ==
    /\ machine' = [machine EXCEPT ![m] = r]
    /\ contended' = (contended \/ Contention')


\* Without an error a starting machine goes into service; with one its process
\* ends, while a tick is only logged.
Succeeds(r) == [r EXCEPT !.up = TRUE, !.step = "rest", !.new = NoPair, !.ticked = TRUE, !.late = FALSE]
Fails(r) == IF r.up THEN [r EXCEPT !.step = "rest", !.new = NoPair, !.failed = TRUE] ELSE Off

EnsureFresh(m) ==
    /\ machine[m].step = "rest"
    /\ Becomes(m, [machine[m] EXCEPT !.failed = FALSE, !.step = IF machine[m].client THEN "loadCert" ELSE "user"])
    /\ UNCHANGED <<month, storedPair, account, generated, hostVars>>

LoadAccount(m) ==
    LET r == machine[m]
    IN  /\ r.step = "user"
        /\ \/ account /\ Becomes(m, [r EXCEPT !.client = TRUE, !.step = "loadCert"])
           \/ ~account /\ Becomes(m, [r EXCEPT !.step = "register"])
           \/ TLSFault("get") /\ Becomes(m, Fails(r))
        /\ UNCHANGED <<month, storedPair, account, generated, hostVars>>

RegisterAccount(m) ==
    LET r == machine[m]
    IN  /\ r.step = "register"
        /\ \/ Becomes(m, [r EXCEPT !.client = TRUE, !.step = "loadCert"]) /\ account' = TRUE
           \/ TLSFault("acme") /\ Becomes(m, Fails(r)) /\ UNCHANGED account
           \/ TLSFault("put") /\ Becomes(m, Fails(r)) /\ account' \in {account, TRUE}
        /\ UNCHANGED <<month, storedPair, generated, hostVars>>

\* What EnsureFresh does next with what is in memory after loading.
NextStep(r) ==
    IF ~Loaded(r.pair) THEN [r EXCEPT !.step = "obtain"]
    ELSE IF Due(r.pair.cert) THEN [r EXCEPT !.step = "renew"]
    ELSE Succeeds(r)

\* An object that is missing leaves memory as it is; any other error of a GET
\* ends the call.
LoadCert(m) ==
    LET r == machine[m]
    IN  /\ r.step = "loadCert"
        /\ \/ storedCert = NoPEM /\ Becomes(m, NextStep(r))
           \/ storedCert # NoPEM /\ Becomes(m, [r EXCEPT !.new.cert = storedCert, !.step = "loadKey"])
           \/ TLSFault("get") /\ Becomes(m, Fails(r))
        /\ UNCHANGED <<month, storedPair, account, generated, hostVars>>

LoadKey(m) ==
    LET r == machine[m]
    IN  /\ r.step = "loadKey"
        /\ \/ storedKey = NoPEM /\ Becomes(m, NextStep(r))
           \/ storedKey # NoPEM /\ Becomes(m, NextStep([r EXCEPT !.pair = [cert |-> r.new.cert, key |-> storedKey]]))
           \/ TLSFault("get") /\ Becomes(m, Fails(r))
        /\ UNCHANGED <<month, storedPair, account, generated, hostVars>>

Issue(k) == [cert |-> [key |-> k, month |-> month], key |-> k]

Obtain(m) ==
    /\ machine[m].step = "obtain"
    /\ \E k \in Key \ generated :
        /\ Becomes(m, [machine[m] EXCEPT !.step = "putCert", !.new = Issue(k)])
        /\ generated' = generated \cup {k}
    /\ UNCHANGED <<month, storedPair, account, hostVars>>

\* lego is given the private key and asks for a certificate for it.
RenewStale(r) == r.pair
Renewed(r) == Issue(r.pair.key)
Renew(m) ==
    LET r == machine[m]
    IN  /\ r.step = "renew"
        /\ Becomes(m, [r EXCEPT !.step = "putCert", !.new = Renewed(r)])
        /\ UNCHANGED <<month, storedPair, account, generated, hostVars>>

IssueFails(m) ==
    /\ TLSFault("acme")
    /\ machine[m].step \in {"obtain", "renew"}
    /\ Becomes(m, Fails(machine[m]))
    /\ UNCHANGED <<month, storedPair, account, generated, hostVars>>

PutCert(m) ==
    /\ machine[m].step = "putCert"
    /\ storedCert' = machine[m].new.cert
    /\ Becomes(m, [machine[m] EXCEPT !.step = "putKey"])
    /\ UNCHANGED <<month, storedKey, account, generated, hostVars>>

MemoryForgotten(r) == r.pair
InMemory(r) == r.new
PutKey(m) ==
    LET r == machine[m]
    IN  /\ r.step = "putKey"
        /\ storedKey' = r.new.key
        /\ Becomes(m, Succeeds([r EXCEPT !.pair = InMemory(r)]))
        /\ UNCHANGED <<month, storedCert, account, generated, hostVars>>

\* An error of either PUT, which may have been carried out.
PutPairFails(m) ==
    LET r == machine[m]
    IN  /\ TLSFault("put")
        /\ \/ r.step = "putCert" /\ storedCert' \in {storedCert, r.new.cert} /\ UNCHANGED storedKey
           \/ r.step = "putKey" /\ storedKey' \in {storedKey, r.new.key} /\ UNCHANGED storedCert
        /\ Becomes(m, Fails(r))
        /\ UNCHANGED <<month, account, generated, hostVars>>

\* No order takes a month; a machine whose ticks all failed in it is late.
MonthPasses ==
    /\ month < MaxMonth
    /\ \A m \in Machine : machine[m].step = "rest"
    /\ month' = month + 1
    /\ machine' = [m \in Machine |->
                     [machine[m] EXCEPT !.ticked = FALSE,
                                        !.late = machine[m].late \/ (machine[m].up /\ ~machine[m].ticked)]]
    /\ UNCHANGED <<storedPair, account, generated, contended, hostVars>>

(***************************************************************************)
(* A host: its pair, its record and its end.                               *)
(***************************************************************************)
Reach(h, s) == tlsHost' = [tlsHost EXCEPT ![h].step = s]
InUse(h) == tlsHost[h].row \in {"provisioning", "ready"}
Certificates == <<month, storedPair, account, machine, generated, contended>>

BuildHostTLSOpts(m, h) ==
    /\ machine[m].up
    /\ Loaded(machine[m].pair)
    /\ tlsHost[h].step = "none"
    /\ tlsHost' = [tlsHost EXCEPT ![h] = [NoTLSHost EXCEPT !.step = "boot", !.by = m, !.pair = machine[m].pair]]
    /\ UNCHANGED <<Certificates, aRecord, strayed>>

\* CreateHost has booted the VM with the pair, and its row is ready, before it
\* has a record; when the row fails to become ready StartMatch goes on and the
\* warm pool gives up.
TLSHostReady(h) ==
    /\ tlsHost[h].step = "boot"
    /\ \/ tlsHost' = [tlsHost EXCEPT ![h].step = "dns", ![h].row = "ready"]
       \/ /\ TLSFault("db")
          /\ \E s \in {"dns", "done"} :
                tlsHost' = [tlsHost EXCEPT ![h].step = s, ![h].row = "provisioning"]
    /\ UNCHANGED <<Certificates, aRecord, strayed>>

CreateARecord(h) ==
    /\ tlsHost[h].step = "dns"
    /\ \/ Reach(h, "link") /\ aRecord' = aRecord \cup {h} /\ UNCHANGED strayed
       \/ TLSFault("dns") /\ Reach(h, "done") /\ UNCHANGED <<aRecord, strayed>>
       \/ TLSFault("dns") /\ Reach(h, "done") /\ aRecord' = aRecord \cup {h} /\ strayed' = strayed \cup {h}
    /\ UNCHANGED Certificates

\* Whether the row is still in use is not asked.
SetMachineHostHostname(h) ==
    /\ tlsHost[h].step = "link"
    /\ \/ /\ tlsHost' = [tlsHost EXCEPT ![h].step = "done", ![h].linked = TRUE]
          /\ strayed' = IF InUse(h) THEN strayed ELSE strayed \cup {h}
       \/ TLSFault("db") /\ Reach(h, "unlink") /\ UNCHANGED strayed
    /\ UNCHANGED <<Certificates, aRecord>>

\* DeleteARecord: the record is gone, or stays with nobody to name it.
Unrecord(h) ==
    \/ aRecord' = aRecord \ {h} /\ UNCHANGED strayed
    \/ TLSFault("dns") /\ strayed' = strayed \cup {h} /\ UNCHANGED aRecord

DeleteUnsavedRecord(h) ==
    /\ tlsHost[h].step = "unlink"
    /\ Reach(h, "done")
    /\ Unrecord(h)
    /\ UNCHANGED Certificates

\* A match that was placed on the host ends: its teardown reads the row, as soon
\* as there is one and long before tryDeleteIdleHost, which uses what it read.
RetireTLSHost(h) ==
    /\ tlsHost[h].reaper = "none"
    /\ tlsHost[h].row # "none"
    /\ tlsHost' = [tlsHost EXCEPT ![h].reaper = "count", ![h].named = tlsHost[h].linked]
    /\ UNCHANGED <<Certificates, aRecord, strayed>>

Reaped(h) == [tlsHost EXCEPT ![h].reaper = "none", ![h].named = FALSE]

\* The row is marked deleted, unless the host is still needed.
BuryTLSHost(h) ==
    /\ tlsHost[h].reaper = "count"
    /\ \/ tlsHost' = Reaped(h) /\ UNCHANGED strayed
       \/ /\ tlsHost' = [tlsHost EXCEPT ![h].reaper = "record", ![h].row = "deleted"]
          /\ strayed' = IF tlsHost[h].linked /\ ~tlsHost[h].named THEN strayed \cup {h} ELSE strayed
    /\ UNCHANGED <<Certificates, aRecord>>

NamesRecordAnyway(h) == FALSE
NamesRecord(h) == tlsHost[h].named
DeleteHostRecord(h) ==
    /\ tlsHost[h].reaper = "record"
    /\ tlsHost' = Reaped(h)
    /\ IF NamesRecord(h) THEN Unrecord(h) ELSE UNCHANGED <<aRecord, strayed>>
    /\ UNCHANGED Certificates

\* ReconcileLiveHosts buries a ready row that the provider does not list, and
\* looks at no record.
LoseTLSHost(h) ==
    /\ TLSFault("lost")
    /\ tlsHost[h].row = "ready"
    /\ tlsHost' = [tlsHost EXCEPT ![h].row = "deleted"]
    /\ strayed' = IF tlsHost[h].linked THEN strayed \cup {h} ELSE strayed
    /\ UNCHANGED <<Certificates, aRecord>>

\* The machine stops, with the hosts it was making; a row that is there stays.
Abandoned(h) ==
    CASE tlsHost[h].step = "boot" -> "none"
      [] tlsHost[h].step \in {"dns", "link", "unlink"} -> "done"
      [] OTHER -> tlsHost[h].step

MachineStops(m) ==
    LET its == {h \in TLSHost : tlsHost[h].by = m}
    IN  /\ TLSFault("crash")
        /\ machine[m] # Off
        /\ Becomes(m, Off)
        /\ tlsHost' = [h \in TLSHost |-> IF h \in its THEN [tlsHost[h] EXCEPT !.step = Abandoned(h)] ELSE tlsHost[h]]
        /\ strayed' = strayed \cup {h \in its \cap aRecord : tlsHost[h].step \in {"link", "unlink"}}
        /\ UNCHANGED <<month, storedPair, account, generated, aRecord>>

\* So may the reaper's, whichever it is.
ReaperStops(h) ==
    /\ TLSFault("crash")
    /\ tlsHost[h].reaper # "none"
    /\ tlsHost' = Reaped(h)
    /\ strayed' = IF tlsHost[h].reaper = "record" THEN strayed \cup ({h} \cap aRecord) ELSE strayed
    /\ UNCHANGED <<Certificates, aRecord>>

Refresh(m) ==
    \/ LoadAccount(m)
    \/ RegisterAccount(m)
    \/ LoadCert(m)
    \/ LoadKey(m)
    \/ Obtain(m)
    \/ Renew(m)
    \/ PutCert(m)
    \/ PutKey(m)

TLSNext ==
    \/ MonthPasses
    \/ \E m \in Machine : EnsureFresh(m) \/ Refresh(m) \/ IssueFails(m) \/ PutPairFails(m) \/ MachineStops(m)
    \/ \E m \in Machine, h \in TLSHost : BuildHostTLSOpts(m, h)
    \/ \E h \in TLSHost :
        \/ TLSHostReady(h)
        \/ CreateARecord(h)
        \/ SetMachineHostHostname(h)
        \/ DeleteUnsavedRecord(h)
        \/ RetireTLSHost(h)
        \/ BuryTLSHost(h)
        \/ DeleteHostRecord(h)
        \/ LoseTLSHost(h)
        \/ ReaperStops(h)

TLSSpec == TLSInit /\ [][TLSNext]_tlsVars

\* The certificate tick keeps coming, and begun calls return.  Nothing starts a
\* machine that is off.
TLSFairness ==
    \A m \in Machine :
        /\ WF_tlsVars(machine[m].up /\ EnsureFresh(m))
        /\ WF_tlsVars(Refresh(m))

-----------------------------------------------------------------------------
Cert == [key: Key, month: 0 .. MaxMonth]
Pair == [cert: Cert \cup {NoPEM}, key: Key \cup {NoPEM}]

TLSTypeOK ==
    /\ month \in 0 .. MaxMonth
    /\ storedCert \in Cert \cup {NoPEM}
    /\ storedKey \in Key \cup {NoPEM}
    /\ account \in BOOLEAN
    /\ machine \in [Machine -> [up: BOOLEAN, client: BOOLEAN, pair: Pair, new: Pair,
                            ticked: BOOLEAN, late: BOOLEAN, failed: BOOLEAN,
                                step: {"rest", "user", "register", "loadCert", "loadKey", "obtain", "renew",
                                       "putCert", "putKey"}]]
    /\ generated \subseteq Key
    /\ tlsHost \in [TLSHost -> [step: {"none", "boot", "dns", "link", "unlink", "done"},
                                by: Machine \cup {NoPEM}, pair: Pair,
                                row: {"none", "provisioning", "ready", "deleted"}, linked: BOOLEAN,
                                reaper: {"none", "count", "record"}, named: BOOLEAN]]
    /\ aRecord \subseteq TLSHost
    /\ contended \in BOOLEAN
    /\ strayed \subseteq TLSHost

\* A machine in service has a pair to give to a new host that has not expired
\* (server.go:96-99, manager.go:38-41), whatever another machine is writing
\* meanwhile, if each month, which the threshold leaves for retries, one of its
\* ticks succeeded.
ServesValid ==
    \A m \in Machine : machine[m].up /\ ~machine[m].late =>
        Loaded(machine[m].pair) /\ ~Expired(machine[m].pair.cert)

\* The certificate that a machine holds is for the key beside it, through
\* crashes and failures between the two PUTs and between the two GETs, and
\* however machines renew at once; unless machines competed for the very first
\* one.
PairMatches ==
    ~contended => \A m \in Machine : Loaded(machine[m].pair) => Matching(machine[m].pair)

\* What a new host is given works.
PairInService == ServesValid /\ PairMatches

\* Names and records go together: a row in use that names a record has one, and
\* a record belongs to a row in use that names it, to a provisioning under way,
\* to a reaper who is about to delete it, or to one of the failures and races
\* the code passes over.
RecordFollowsRow ==
    \A h \in TLSHost :
        /\ InUse(h) /\ tlsHost[h].linked => h \in aRecord
        /\ h \in aRecord =>
            \/ tlsHost[h].step \in {"link", "unlink"}
            \/ InUse(h) /\ tlsHost[h].linked
            \/ tlsHost[h].reaper = "record" /\ tlsHost[h].named
            \/ h \in strayed

\* A machine that holds a due certificate holds a fresh one in the end, once
\* its ticks have stopped failing, and one that matches its key even
\* if the pair in storage did not: renewal repairs what competing first issues
\* have mixed up.
RenewalHeals ==
    \A m \in Machine :
        <>[](~machine[m].failed) =>
            ((machine[m].up /\ Due(machine[m].pair.cert)) ~>
                (machine[m].up => ~Due(machine[m].pair.cert) /\ Matching(machine[m].pair)))

=============================================================================
