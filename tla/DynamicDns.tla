----------------------------- MODULE DynamicDns -----------------------------
(***************************************************************************)
(* The Dynamic DNS updater (services/ddns-updater.ts) with the public-IP   *)
(* poll that feeds it (services/public-ip.ts), the live configuration it   *)
(* reads (the holder in main.ts), and the Test connection route            *)
(* (http/routes/ddns-test.ts).  A push is a request in flight: the part of *)
(* tick() before its await runs at once, and the snapshot is written when  *)
(* the answer comes, so pushes of the timer, of an address change, of a    *)
(* saved setting and of the test button overlap freely.                    *)
(***************************************************************************)
EXTENDS Naturals

CONSTANTS
    Hosts,      \* hostnames the operator may configure
    IPs,        \* addresses the provider may hand to the box
    None,       \* no hostname configured, no address known
    MaxUpsets   \* bound on rotations, edits, tests, restarts and failed pushes

ASSUME DdnsAssumption ==
    /\ None \notin Hosts \cup IPs
    /\ IPs # {}
    /\ MaxUpsets \in Nat

\* Who pushes: the interval, onIpChange, onConfigSaved, the test route.
Callers == {"timer", "ip", "save", "test"}

VARIABLES
    wan,        \* the address the box really has
    records,    \* the provider's A record of each hostname
    cached,     \* PublicIpService.snapshot.ip
    setting,    \* the hostname in the configuration table
    held,       \* the hostname in cfgRefHolder, which the updater reads
    tick,       \* the hostname a controller tick in flight has read, or "idle"
    snapshot,   \* DdnsSnapshot: last_pushed_ip, younger than HEARTBEAT_MS?, no last_error?
    pushes,     \* one request per caller
    claim,      \* ghost: the hostname of the last accepted push, if it flew alone
    upsets      \* ghost: budget of disturbances

vars == <<wan, records, cached, setting, held, tick, snapshot, pushes, claim, upsets>>

Idle == [pc |-> "idle", host |-> None, ip |-> None, alone |-> TRUE]
NoSnapshot == [ip |-> None, recent |-> FALSE, ok |-> FALSE]

TypeOK ==
    /\ wan \in IPs
    /\ records \in [Hosts -> IPs \cup {None}]
    /\ cached \in IPs \cup {None}
    /\ setting \in Hosts \cup {None} /\ held \in Hosts \cup {None}
    /\ tick \in Hosts \cup {None, "idle"}
    /\ snapshot \in [ip : IPs \cup {None}, recent : BOOLEAN, ok : BOOLEAN]
    /\ pushes \in [Callers -> [pc : {"idle", "sent", "done"}, host : Hosts \cup {None},
                               ip : IPs \cup {None}, alone : BOOLEAN]]
    /\ claim \in Hosts \cup {None}
    /\ upsets \in 0..MaxUpsets

Upset == upsets < MaxUpsets /\ upsets' = upsets + 1

Flying(by) == pushes[by].pc # "idle"

-----------------------------------------------------------------------------
(* Sending.                                                                *)

\* A request leaves.  A test carries no address: the provider takes the
\* sender's (ip is None until it answers).
Send(by, host, ip) ==
    LET lone == \A c \in Callers : ~Flying(c) IN
    pushes' = [c \in Callers |->
                IF c = by
                THEN [pc |-> "sent", host |-> host, ip |-> ip, alone |-> lone]
                ELSE [pushes[c] EXCEPT !.alone = @ /\ ~Flying(c)]]

\* A skip rule without the hourly heartbeat.
Skips_NoHeartbeat(ip) == snapshot.ip = ip

\* The skip rule: same address as the last accepted push, and that is recent.
Skips(ip) == snapshot.ip = ip /\ snapshot.recent

\* tick() up to its await, on the hostname host and the cached address ip.
Consult(by, host, ip) ==
    \/ /\ host = None \/ (ip # None /\ Skips(ip))
       /\ UNCHANGED <<snapshot, pushes>>
    \/ /\ host # None /\ ip = None
       /\ snapshot' = [snapshot EXCEPT !.ok = FALSE]
       /\ UNCHANGED pushes
    \/ /\ host # None /\ ip # None /\ ~Skips(ip)
       /\ Send(by, host, ip)
       /\ UNCHANGED snapshot

\* The five-minute interval.
Timer ==
    /\ ~Flying("timer")
    /\ Consult("timer", held, cached)
    /\ UNCHANGED <<wan, records, cached, setting, held, tick, claim, upsets>>

\* refresh(): a rotation from one known address to another kicks the updater.
Refresh ==
    /\ cached # wan /\ ~Flying("ip")
    /\ cached' = wan
    /\ IF cached = None THEN UNCHANGED <<snapshot, pushes>>
                        ELSE Consult("ip", held, wan)
    /\ UNCHANGED <<wan, records, setting, held, tick, claim, upsets>>

\* The operator saves another hostname: onConfigSaved refreshes the holder and kicks.
SaveConfig(h) ==
    /\ h # setting /\ ~Flying("save")
    /\ Upset
    /\ setting' = h /\ held' = h
    /\ Consult("save", h, cached)
    /\ UNCHANGED <<wan, records, cached, tick, claim>>

\* The operator presses Test connection on what the form holds, saved or not.
Test(h) ==
    /\ ~Flying("test")
    /\ Upset
    /\ Send("test", h, None)
    /\ UNCHANGED <<wan, records, cached, setting, held, tick, snapshot, claim>>

-----------------------------------------------------------------------------
(* Answering.                                                              *)

\* The provider takes a request: it stores the address sent, or the sender's.
Apply(by) ==
    LET ip == IF pushes[by].ip = None THEN wan ELSE pushes[by].ip IN
    /\ pushes[by].pc = "sent"
    /\ records' = [records EXCEPT ![pushes[by].host] = ip]
    /\ pushes' = [pushes EXCEPT ![by].pc = "done", ![by].ip = ip]
    /\ UNCHANGED <<wan, cached, setting, held, tick, snapshot, claim, upsets>>

\* What a good answer of a request for ip leaves in the snapshot.
Accepted(ip) == [ip |-> ip, recent |-> TRUE, ok |-> TRUE]

\* The answer is good or nochg.  A test records the address the provider
\* names; DuckDNS names none, and the cached one is recorded in its place.
Land(by) ==
    /\ pushes[by].pc = "done"
    /\ \/ /\ snapshot' = Accepted(pushes[by].ip)
          /\ claim' = IF pushes[by].alone THEN pushes[by].host ELSE None
       \/ /\ by = "test" /\ cached # None
          /\ snapshot' = Accepted(cached)
          /\ claim' = None
       \/ /\ by = "test" /\ cached = None
          /\ claim' = None
          /\ UNCHANGED snapshot
    /\ pushes' = [pushes EXCEPT ![by] = Idle]
    /\ UNCHANGED <<wan, records, cached, setting, held, tick, upsets>>

\* Any answer at all stamps the snapshot.
Failed_Stamps(by) == IF by = "test" THEN snapshot ELSE Accepted(pushes[by].ip)

\* What any other answer, or none, leaves: the history stays, the error shows;
\* a failed test is invisible to the snapshot.
Failed(by) == IF by = "test" THEN snapshot ELSE [snapshot EXCEPT !.ok = FALSE]

\* The provider refuses, or the request is aborted before or after it was taken.
Fail(by) ==
    /\ Flying(by)
    /\ Upset
    /\ snapshot' = Failed(by)
    /\ claim' = IF pushes[by].pc = "done" THEN None ELSE claim
    /\ pushes' = [pushes EXCEPT ![by] = Idle]
    /\ UNCHANGED <<wan, records, cached, setting, held, tick>>

-----------------------------------------------------------------------------
(* Surroundings.                                                           *)

\* An hour passes since the last accepted push.
Expire ==
    /\ snapshot.recent
    /\ snapshot' = [snapshot EXCEPT !.recent = FALSE]
    /\ UNCHANGED <<wan, records, cached, setting, held, tick, pushes, claim, upsets>>

\* The provider gives the box another address.
Rotate ==
    /\ Upset
    /\ \E ip \in IPs \ {wan} : wan' = ip
    /\ UNCHANGED <<records, cached, setting, held, tick, snapshot, pushes, claim>>

\* A controller tick reads the configuration, and puts it in the holder at its end.
StartTick ==
    /\ tick = "idle"
    /\ tick' = setting
    /\ UNCHANGED <<wan, records, cached, setting, held, snapshot, pushes, claim, upsets>>

EndTick ==
    /\ tick # "idle"
    /\ held' = tick
    /\ tick' = "idle"
    /\ UNCHANGED <<wan, records, cached, setting, snapshot, pushes, claim, upsets>>

\* The daemon is restarted: nothing of the updater is persisted.
Restart ==
    /\ Upset
    /\ held' = setting /\ tick' = "idle" /\ cached' = None
    /\ snapshot' = NoSnapshot /\ claim' = None
    /\ pushes' = [c \in Callers |-> Idle]
    /\ UNCHANGED <<wan, records, setting>>

Init ==
    /\ wan \in IPs
    /\ records = [h \in Hosts |-> None]
    /\ cached = None
    /\ setting \in Hosts \cup {None} /\ held = setting
    /\ tick = "idle"
    /\ snapshot = NoSnapshot
    /\ pushes = [c \in Callers |-> Idle]
    /\ claim = None
    /\ upsets = 0

Next ==
    \/ Timer \/ Refresh
    \/ \E h \in Hosts \cup {None} : SaveConfig(h)
    \/ \E h \in Hosts : Test(h)
    \/ \E by \in Callers : Apply(by) \/ Land(by) \/ Fail(by)
    \/ Expire \/ Rotate \/ StartTick \/ EndTick \/ Restart

Spec == Init /\ [][Next]_vars

\* Intervals keep firing, requests are answered or aborted, hours pass and the
\* controller keeps ticking; what fails is bounded by MaxUpsets.
FairSpec ==
    /\ Spec
    /\ WF_vars(Timer) /\ WF_vars(Refresh) /\ WF_vars(Expire)
    /\ WF_vars(StartTick) /\ WF_vars(EndTick)
    /\ \A by \in Callers : WF_vars(Apply(by)) /\ WF_vars(Land(by))

-----------------------------------------------------------------------------
(* Properties.                                                             *)

\* The dashboard's "last successful push" is true: when nothing is in flight,
\* the last attempt did not fail, and the accepted push neither overlapped
\* another nor guessed its address, the provider's record of the hostname it
\* was for is the address the snapshot shows, whatever was edited, refused,
\* tested or restarted since.
SnapshotHonest ==
    /\ TypeOK
    /\ (\A by \in Callers : ~Flying(by)) /\ snapshot.ok /\ claim # None
          => records[claim] = snapshot.ip

\* Once rotations, edits and failures stop, the configured hostname points at
\* the box for good: a push that was lost, overtaken by an older one, or
\* skipped because the address was recently pushed to the hostname configured
\* before, is made good by the heartbeat.
RecordFollows == <>[](setting # None => records[setting] = wan)
=============================================================================
