---------------------------- MODULE Accreditation ----------------------------
(***************************************************************************)
(* maru.accreditation: credentials, the signed manifests that relay        *)
(* devices take offline, and the check-ins that devices report when they   *)
(* are connected again, next to the check-ins of the front desk.           *)
(*                                                                         *)
(* Generating a manifest takes no lock that keeps others out and is two    *)
(* actions.  The other transactions lock the rows they decide on and are   *)
(* one action each.  Uploads may be lost, repeated, delayed and reordered: *)
(* any scan of a device may reach the server at any time, and again.       *)
(*                                                                         *)
(* Once the edition is archived or cancelled, the database refuses every   *)
(* write of a registration, and the transaction around it leaves no trace; *)
(* credentials, manifests and devices can still be written.                *)
(***************************************************************************)
EXTENDS Integers, Sequences, FiniteSets, Functions

CONSTANTS
    Registrations,
    Devices,
    MaxCredentials, \* bound on the credentials
    MaxManifests,   \* bound on the manifests
    MaxGenerators,  \* bound on the manifests under way at once
    MaxScans        \* bound on the scans of all devices

ASSUME AccreditationAssumption ==
    MaxCredentials \in Nat /\ MaxManifests \in Nat /\ MaxGenerators \in Nat /\ MaxScans \in Nat

VARIABLES
    state,          \* Registration.state
    entitled,       \* registrations with an active entitlement
    desk,           \* registrations with a CheckInRecord of the front desk
    editionClosed,  \* whether the edition is archived or cancelled
    credentials,    \* Credential rows in the order they were issued; "ended" stands
                    \*   for replaced and revoked, which nothing tells apart
    manifests,      \* OfflineCredentialManifest rows by sequence
    generating,     \* what the requests that generate a manifest have read
    enabled,        \* devices that are enabled and not revoked
    scans,          \* device -> what it has scanned, in its own order
    lastSequence,   \* RelayDevice.last_sequence
    recorded,       \* OfflineCheckInOperation.outcome by device and sequence
    form,           \* last_sequence in an open form of the administration
    overwritten     \* history: devices whose last_sequence a form has set back

registrationVars == <<state, entitled, desk, editionClosed>>
deviceVars == <<enabled, scans, lastSequence, recorded, form, overwritten>>
vars == <<registrationVars, credentials, manifests, generating, deviceVars>>

Closed == -1
Saved == -2

Init ==
    /\ state = [r \in Registrations |-> "confirmed"]
    /\ entitled = Registrations
    /\ desk = {}
    /\ editionClosed = FALSE
    /\ credentials = <<>>
    /\ manifests = <<>>
    /\ generating = {}
    /\ enabled = Devices
    /\ scans = [d \in Devices |-> <<>>]
    /\ lastSequence = [d \in Devices |-> 0]
    /\ recorded = [d \in Devices |-> [n \in 1 .. MaxScans |-> "none"]]
    /\ form = [d \in Devices |-> Closed]
    /\ overwritten = {}

-----------------------------------------------------------------------------
(* Credentials *)

Admissible(r) == state[r] \in {"confirmed", "checked_in"}

\* Variant: the credential that is in use stays issued.
IssueAnother(r) ==
    /\ Len(credentials) < MaxCredentials
    /\ Admissible(r) /\ r \in entitled
    /\ credentials' = Append(credentials, [registration |-> r, status |-> "issued"])
    /\ UNCHANGED <<registrationVars, manifests, generating, deviceVars>>

\* issue_credential: an issued credential of the registration is replaced.
IssueCredential(r) ==
    /\ Len(credentials) < MaxCredentials
    /\ Admissible(r) /\ r \in entitled
    /\ credentials' =
        Append([c \in DOMAIN credentials |->
                    IF credentials[c].registration = r /\ credentials[c].status = "issued"
                    THEN [credentials[c] EXCEPT !.status = "ended"] ELSE credentials[c]],
               [registration |-> r, status |-> "issued"])
    /\ UNCHANGED <<registrationVars, manifests, generating, deviceVars>>

\* revoke_credential, and a restriction that is about credentials only
RevokeCredential(c) ==
    /\ credentials[c].status = "issued"
    /\ credentials' = [credentials EXCEPT ![c].status = "ended"]
    /\ UNCHANGED <<registrationVars, manifests, generating, deviceVars>>

-----------------------------------------------------------------------------
(* generate_offline_manifest *)

Presentable ==
    {c \in DOMAIN credentials :
        credentials[c].status = "issued" /\ Admissible(credentials[c].registration)}

\* The row lock asked for does not survive the aggregation.  The next sequence
\* and then the credentials are read; nothing between the two reads matters
\* but another manifest, which makes this one fail.  known is history: how many
\* credentials there were.
BeginManifest ==
    /\ Cardinality(generating) < MaxGenerators /\ Len(manifests) < MaxManifests
    /\ generating' = generating \union
            {[sequence |-> Len(manifests) + 1, credentials |-> Presentable,
              known |-> Len(credentials)]}
    /\ UNCHANGED <<registrationVars, credentials, manifests, deviceVars>>

\* Variant: the database numbers the manifests.
AlwaysFree(sequence) == TRUE

\* offline_manifest_sequence_unique
SequenceFree(sequence) == sequence \notin DOMAIN manifests

InsertManifest(g) ==
    /\ SequenceFree(g.sequence)
    /\ manifests' = Append(manifests, [credentials |-> g.credentials, known |-> g.known])
    /\ generating' = generating \ {g}
    /\ UNCHANGED <<registrationVars, credentials, deviceVars>>

\* The slower of two requests with one sequence fails.
ManifestRefused(g) ==
    /\ ~ SequenceFree(g.sequence)
    /\ generating' = generating \ {g}
    /\ UNCHANGED <<registrationVars, credentials, manifests, deviceVars>>

-----------------------------------------------------------------------------
(* Relay devices and reconcile_offline_check_in *)

\* An unknown badge, or a manifest that does not exist or is not valid at the
\* time that the device reports, which only its own clock vouches for.
Unusable == [credential |-> 0, listed |-> FALSE]

\* What a scan reports: a credential, and a manifest, of which it only matters
\* whether the credential is in it, as that never changes.
Scans ==
    {[credential |-> c, listed |-> c \in manifests[m].credentials] :
        c \in DOMAIN credentials, m \in DOMAIN manifests} \union {Unusable}

Scan(d, s) ==
    /\ SumFunction([e \in Devices |-> Len(scans[e])]) < MaxScans
    /\ scans' = [scans EXCEPT ![d] = Append(@, s)]
    /\ UNCHANGED <<registrationVars, credentials, manifests, generating, enabled, lastSequence,
                   recorded, form, overwritten>>

\* Variant: a registration that is checked in may arrive again.
OutcomeUnlessCancelled(s) ==
    IF s = Unusable THEN "rejected"
    ELSE IF \/ ~ s.listed \/ credentials[s.credential].status # "issued"
            \/ state[credentials[s.credential].registration] = "cancelled" THEN "conflict"
    ELSE "applied"

Outcome(s) ==
    IF s = Unusable THEN "rejected"
    ELSE IF ~ s.listed \/ credentials[s.credential].status # "issued" THEN "conflict"
    ELSE IF state[credentials[s.credential].registration] = "checked_in" THEN "duplicate"
    ELSE IF state[credentials[s.credential].registration] # "confirmed" THEN "conflict"
    ELSE "applied"

\* Variants: gaps are skipped; an invalid scan raises an error.
AnyLater(d, n) == n > lastSequence[d]
NextAndValid(d, n) == n = lastSequence[d] + 1 /\ Outcome(scans[d][n]) # "rejected"

NextInSequence(d, n) == n = lastSequence[d] + 1

\* An operation that is recorded is only returned; one that is out of sequence,
\* or that would check somebody in when the edition is closed, is refused and
\* leaves no trace.
Reconcile(d, n) ==
    /\ d \in enabled /\ n <= Len(scans[d])
    /\ recorded[d][n] = "none" /\ NextInSequence(d, n)
    /\ editionClosed => Outcome(scans[d][n]) # "applied"
    /\ recorded' = [recorded EXCEPT ![d][n] = Outcome(scans[d][n])]
    /\ lastSequence' = [lastSequence EXCEPT ![d] = n]
    /\ state' = IF Outcome(scans[d][n]) = "applied"
                THEN [state EXCEPT ![credentials[scans[d][n].credential].registration] = "checked_in"]
                ELSE state
    /\ UNCHANGED <<entitled, desk, editionClosed, credentials, manifests, generating, enabled, scans,
                   form, overwritten>>

\* The form of RelayDeviceAdmin is opened and, later, saved: with all the
\* fields it shows, last_sequence among them.  Once for each device is enough.
OpenDeviceForm(d) ==
    /\ form[d] = Closed
    /\ form' = [form EXCEPT ![d] = lastSequence[d]]
    /\ UNCHANGED <<registrationVars, credentials, manifests, generating, enabled, scans, lastSequence,
                   recorded, overwritten>>

SaveDeviceForm(d, enable) ==
    /\ form[d] \in Nat
    /\ form' = [form EXCEPT ![d] = Saved]
    /\ enabled' = IF enable THEN enabled \union {d} ELSE enabled \ {d}
    /\ lastSequence' = [lastSequence EXCEPT ![d] = form[d]]
    /\ overwritten' = IF form[d] = lastSequence[d] THEN overwritten ELSE overwritten \union {d}
    /\ UNCHANGED <<registrationVars, credentials, manifests, generating, scans, recorded>>

-----------------------------------------------------------------------------
(* What registration does meanwhile *)

\* check_in_registration at the front desk
CheckIn(r) ==
    /\ state[r] = "confirmed" /\ ~ editionClosed
    /\ state' = [state EXCEPT ![r] = "checked_in"]
    /\ desk' = desk \union {r}
    /\ UNCHANGED <<entitled, editionClosed, credentials, manifests, generating, deviceVars>>

\* A cancellation that finance approves ends the admission, and leaves the
\* credential as it is.
CancelRegistration(r) ==
    /\ state[r] = "confirmed" /\ ~ editionClosed
    /\ state' = [state EXCEPT ![r] = "cancelled"]
    /\ entitled' = entitled \ {r}
    /\ UNCHANGED <<desk, editionClosed, credentials, manifests, generating, deviceVars>>

\* apply_restriction_consequences for a restriction of attendance: who has not
\* arrived is cancelled, and in any case the entitlement and, in the same
\* transaction, the credential are revoked.
RestrictAttendance(r) ==
    /\ ~ (state[r] = "confirmed" /\ editionClosed)
    /\ state' = IF state[r] = "confirmed" THEN [state EXCEPT ![r] = "cancelled"] ELSE state
    /\ entitled' = entitled \ {r}
    /\ credentials' =
        [c \in DOMAIN credentials |->
            IF credentials[c].registration = r /\ credentials[c].status = "issued"
            THEN [credentials[c] EXCEPT !.status = "ended"] ELSE credentials[c]]
    /\ UNCHANGED <<desk, editionClosed, manifests, generating, deviceVars>>

\* transition_edition to cancelled, or to archived: closure counts look at the
\* operations a device has uploaded, not at the scans it still has.
CloseEdition ==
    /\ ~ editionClosed
    /\ editionClosed' = TRUE
    /\ UNCHANGED <<state, entitled, desk, credentials, manifests, generating, deviceVars>>

-----------------------------------------------------------------------------
Next ==
    \/ \E r \in Registrations :
           IssueCredential(r) \/ CheckIn(r) \/ CancelRegistration(r) \/ RestrictAttendance(r)
    \/ CloseEdition
    \/ \E c \in DOMAIN credentials : RevokeCredential(c)
    \/ BeginManifest
    \/ \E g \in generating : InsertManifest(g) \/ ManifestRefused(g)
    \/ \E d \in Devices :
        \/ OpenDeviceForm(d)
        \/ \E enable \in BOOLEAN : SaveDeviceForm(d, enable)
        \/ \E s \in Scans : Scan(d, s)
        \/ \E n \in 1 .. MaxScans : Reconcile(d, n)

\* A device that is connected uploads a scan until it is answered.
Fairness == \A d \in Devices, n \in 1 .. MaxScans : WF_vars(Reconcile(d, n))

Spec == Init /\ [][Next]_vars /\ Fairness

-----------------------------------------------------------------------------
(* Properties *)

Credentials == [registration : Registrations, status : {"issued", "ended"}]

RegistrationsOK ==
    /\ state \in [Registrations -> {"confirmed", "checked_in", "cancelled"}]
    /\ entitled \subseteq Registrations /\ desk \subseteq Registrations
    /\ editionClosed \in BOOLEAN

ManifestsOK ==
    /\ credentials \in Seq(Credentials)
    /\ manifests \in Seq([credentials : SUBSET DOMAIN credentials, known : 0 .. MaxCredentials])
    /\ generating \subseteq [sequence : 1 .. MaxManifests, credentials : SUBSET DOMAIN credentials,
                             known : 0 .. MaxCredentials]

DevicesOK ==
    /\ enabled \subseteq Devices
    /\ scans \in [Devices -> Seq([credential : 0 .. MaxCredentials, listed : BOOLEAN])]
    /\ lastSequence \in [Devices -> 0 .. MaxScans]
    /\ recorded \in [Devices -> [1 .. MaxScans -> {"none", "applied", "rejected", "conflict", "duplicate"}]]
    /\ form \in [Devices -> {Closed, Saved} \union 0 .. MaxScans]
    /\ overwritten \subseteq Devices

\* At most one of these credentials belongs to a registration.
OnePerRegistration(S) ==
    \A c, e \in S : credentials[c].registration = credentials[e].registration => c = e

\* The rows have their types, and each registration has at most one issued
\* credential, also in every manifest.
TypeOK ==
    /\ RegistrationsOK /\ ManifestsOK /\ DevicesOK
    /\ OnePerRegistration(Presentable)
    /\ \A m \in DOMAIN manifests : OnePerRegistration(manifests[m].credentials)

\* The scans, by device and number, that have checked a registration in.
ArrivalScans(r) ==
    {x \in Devices \X (1 .. MaxScans) :
        /\ recorded[x[1]][x[2]] = "applied"
        /\ credentials[scans[x[1]][x[2]].credential].registration = r}

\* Whatever front desk and devices do at the same time, and however often a
\* scan is uploaded, a registration arrives once: it is checked in by exactly
\* one record of the desk or of one device.
ArrivesOnce ==
    \A r \in Registrations :
        Cardinality(ArrivalScans(r)) + (IF r \in desk THEN 1 ELSE 0)
        = IF state[r] = "checked_in" THEN 1 ELSE 0

\* The history of a device has no gap: with uploads lost, repeated and out of
\* order, exactly the operations up to last_sequence have an outcome, or more
\* of them once a form has set last_sequence back.
DeviceLogComplete ==
    \A d \in Devices :
        \E last \in lastSequence[d] .. MaxScans :
            /\ {n \in 1 .. MaxScans : recorded[d][n] # "none"} = 1 .. last
            /\ d \notin overwritten => last = lastSequence[d]

\* Revocation propagates into later manifests: a credential that an earlier
\* manifest left out is in no later one, whatever requests overlap.
RevocationPropagates ==
    \A m, n \in DOMAIN manifests :
        m < n => \A c \in manifests[n].credentials :
                    c <= manifests[m].known => c \in manifests[m].credentials

\* The next scan of a device is one that nothing will ever be recorded for: it
\* would check somebody in, and the edition is closed.
Stuck(d) ==
    \E n \in 1 .. Len(scans[d]) :
        NextInSequence(d, n) /\ editionClosed /\ Outcome(scans[d][n]) = "applied"

\* Every scan of a device that stays enabled gets an outcome in the end, and an
\* invalid one does not block those after it.  Two things do block the device:
\* a form that was open while operations arrived and sets last_sequence back,
\* and an arrival that is reported after the edition was closed.
EveryScanAnswered ==
    \A d \in Devices, n \in 1 .. MaxScans :
        n <= Len(scans[d]) ~>
            (recorded[d][n] # "none" \/ d \notin enabled \/ d \in overwritten \/ Stuck(d))
=============================================================================
