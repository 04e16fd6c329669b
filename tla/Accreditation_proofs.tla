------------------------ MODULE Accreditation_proofs ------------------------
(***************************************************************************)
(* Proofs about Accreditation for every set of registrations and devices   *)
(* and every bound on credentials, manifests, requests and scans.          *)
(***************************************************************************)
EXTENDS Accreditation, SequenceTheorems, FiniteSetTheorems, TLAPS

-----------------------------------------------------------------------------
(* The inductive invariant *)

\* The bounds hold, and the requests under way refer to what exists.
Bounded ==
    /\ Len(credentials) <= MaxCredentials /\ Len(manifests) <= MaxManifests
    /\ \A g \in generating : g.sequence <= Len(manifests) + 1 /\ g.known <= Len(credentials)
    /\ \A m \in DOMAIN manifests : manifests[m].known <= Len(credentials)

\* A registration has at most one issued credential, and at most one in what a
\* request has read.
OneIssued ==
    /\ OnePerRegistration({c \in DOMAIN credentials : credentials[c].status = "issued"})
    /\ \A m \in DOMAIN manifests : OnePerRegistration(manifests[m].credentials)
    /\ \A g \in generating : OnePerRegistration(g.credentials)

\* What a reader has left out of the first known credentials.
LeftOut(known, chosen) == {c \in DOMAIN credentials : c <= known /\ c \notin chosen}

\* A credential that was left out once can never be presented again; and a
\* request that is to follow a manifest has read after that manifest, as has
\* every later manifest.
LeftOutForGood ==
    /\ \A m \in DOMAIN manifests :
        LeftOut(manifests[m].known, manifests[m].credentials) \intersect Presentable = {}
    /\ \A g \in generating : LeftOut(g.known, g.credentials) \intersect Presentable = {}
    /\ \A g \in generating, m \in DOMAIN manifests :
        m < g.sequence => LeftOut(manifests[m].known, manifests[m].credentials)
                            \intersect g.credentials = {}
    /\ \A m, n \in DOMAIN manifests :
        m < n => LeftOut(manifests[m].known, manifests[m].credentials)
                    \intersect manifests[n].credentials = {}

\* A scan names a credential that exists, or nothing usable.
ScansNameRows ==
    \A d \in Devices : \A n \in DOMAIN scans[d] :
        scans[d][n] = Unusable \/ scans[d][n].credential \in DOMAIN credentials

\* Only scans have outcomes, and only those of a credential are applied.
OutcomesOfScans ==
    \A d \in Devices : \A n \in 1 .. MaxScans :
        /\ recorded[d][n] # "none" => n \in DOMAIN scans[d]
        /\ recorded[d][n] = "applied" => scans[d][n].credential \in DOMAIN credentials

\* The outcomes of a device are those of its first scans; neither last_sequence
\* nor an open form is ahead of them.
LogPrefix ==
    \A d \in Devices :
        \E last \in 0 .. MaxScans :
            /\ \A n \in 1 .. MaxScans : recorded[d][n] # "none" <=> n <= last
            /\ lastSequence[d] <= last
            /\ form[d] <= last
            /\ d \notin overwritten => last = lastSequence[d]

\* Who is checked in has come to the desk or by one scan, and nobody else has.
OneArrival ==
    \A r \in Registrations :
        \/ state[r] # "checked_in" /\ r \notin desk /\ ArrivalScans(r) = {}
        \/ state[r] = "checked_in" /\ r \in desk /\ ArrivalScans(r) = {}
        \/ state[r] = "checked_in" /\ r \notin desk
               /\ \E x \in Devices \X (1 .. MaxScans) : ArrivalScans(r) = {x}

IInv ==
    /\ TypeOK /\ Bounded /\ OneIssued /\ LeftOutForGood
    /\ ScansNameRows /\ OutcomesOfScans /\ LogPrefix /\ OneArrival

\* The initial state, with no credential, manifest or scan.
LEMMA InitIInv == Init => IInv
<1> SUFFICES ASSUME Init PROVE IInv
  OBVIOUS
<1> USE AccreditationAssumption
<1>1. \A S : <<>> \in Seq(S) /\ Len(<<>>) = 0
  BY EmptySeq
<1>2. DOMAIN credentials = {} /\ DOMAIN manifests = {} /\ \A d \in Devices : DOMAIN scans[d] = {}
  BY <1>1, LenProperties DEF Init
<1>3. RegistrationsOK
  BY DEF Init, RegistrationsOK
<1>4. ManifestsOK
  BY <1>1 DEF Init, ManifestsOK
<1>5. DevicesOK
  BY <1>1 DEF Init, DevicesOK
<1>6. OnePerRegistration(Presentable) /\ \A m \in DOMAIN manifests : OnePerRegistration(manifests[m].credentials)
  BY <1>2 DEF Presentable, OnePerRegistration
<1>7. Bounded
  BY <1>1, <1>2 DEF Init, Bounded
<1>8. OneIssued
  BY <1>2 DEF Init, OneIssued, OnePerRegistration
<1>9. LeftOutForGood
  BY <1>2 DEF Init, LeftOutForGood
<1>10. ScansNameRows
  BY <1>2 DEF ScansNameRows
<1>11. OutcomesOfScans
  BY DEF Init, OutcomesOfScans
<1>12. LogPrefix
  <2> SUFFICES ASSUME NEW d \in Devices
               PROVE  /\ \A n \in 1 .. MaxScans : recorded[d][n] # "none" <=> n <= 0
                      /\ lastSequence[d] <= 0 /\ form[d] <= 0
                      /\ d \notin overwritten => 0 = lastSequence[d]
    BY DEF LogPrefix
  <2> QED
    BY DEF Init, Closed
<1>13. OneArrival
  BY DEF Init, OneArrival, ArrivalScans
<1> QED
  BY <1>3, <1>4, <1>5, <1>6, <1>7, <1>8, <1>9, <1>10, <1>11, <1>12, <1>13 DEF IInv, TypeOK

-----------------------------------------------------------------------------
(* What the steps do to the rows *)

\* The sequences and their rows.
LEMMA Rows ==
    ASSUME ManifestsOK
    PROVE  /\ Len(credentials) \in Nat /\ DOMAIN credentials = 1 .. Len(credentials)
           /\ \A c \in DOMAIN credentials : credentials[c] \in Credentials
           /\ Len(manifests) \in Nat /\ DOMAIN manifests = 1 .. Len(manifests)
           /\ \A m \in DOMAIN manifests :
                manifests[m].credentials \subseteq DOMAIN credentials /\ manifests[m].known \in Nat
<1> DEFINE M == [credentials : SUBSET DOMAIN credentials, known : 0 .. MaxCredentials]
<1>1. credentials \in Seq(Credentials) /\ manifests \in Seq(M)
  BY DEF ManifestsOK
<1>2. \A m \in DOMAIN manifests : manifests[m] \in M
  BY <1>1, LenProperties, ElementOfSeq
<1>3. \A m \in DOMAIN manifests :
        manifests[m].credentials \subseteq DOMAIN credentials /\ manifests[m].known \in Nat
  BY <1>2, AccreditationAssumption
<1> QED
  BY <1>1, <1>3, LenProperties, ElementOfSeq

\* Credentials are only added; they keep their registration, and one that is
\* no longer issued never is again.
CredentialsGrow ==
    /\ credentials' \in Seq(Credentials)
    /\ Len(credentials') \in Nat /\ Len(credentials) <= Len(credentials')
    /\ DOMAIN credentials' = 1 .. Len(credentials')
    /\ Len(credentials') <= MaxCredentials
    /\ DOMAIN credentials \subseteq DOMAIN credentials'
    /\ \A c \in DOMAIN credentials :
        /\ credentials'[c].registration = credentials[c].registration
        /\ credentials'[c].status = "issued" => credentials[c].status = "issued"

\* Issuing a credential.
LEMMA IssueStep ==
    ASSUME TypeOK, Bounded, NEW r \in Registrations, IssueCredential(r)
    PROVE  /\ CredentialsGrow
           /\ DOMAIN credentials' = DOMAIN credentials \union {Len(credentials) + 1}
           /\ credentials'[Len(credentials) + 1] = [registration |-> r, status |-> "issued"]
           /\ \A c \in DOMAIN credentials :
                credentials'[c].status = "issued" => credentials[c].registration # r
<1> DEFINE f == [c \in DOMAIN credentials |->
                    IF credentials[c].registration = r /\ credentials[c].status = "issued"
                    THEN [credentials[c] EXCEPT !.status = "ended"] ELSE credentials[c]]
           v == [registration |-> r, status |-> "issued"]
<1>1. /\ Len(credentials) \in Nat /\ DOMAIN credentials = 1 .. Len(credentials)
      /\ \A c \in DOMAIN credentials : credentials[c] \in Credentials
  BY Rows DEF TypeOK
<1>2. v \in Credentials
  BY DEF Credentials
<1>3. \A c \in DOMAIN credentials :
        /\ f[c] \in Credentials
        /\ f[c].registration = credentials[c].registration
        /\ f[c].status = "issued" => credentials[c].status = "issued" /\ credentials[c].registration # r
  BY <1>1 DEF Credentials
<1>4. f \in [1 .. Len(credentials) -> Credentials]
  BY <1>1, <1>3
<1>5. f \in Seq(Credentials) /\ Len(f) = Len(credentials)
  BY <1>1, <1>4, SeqDef
<1>6. credentials' = Append(f, v) /\ Len(credentials) < MaxCredentials
  BY DEF IssueCredential
<1> HIDE DEF f, v
<1>7. /\ credentials' \in Seq(Credentials) /\ Len(credentials') = Len(credentials) + 1
      /\ credentials'[Len(credentials) + 1] = v
      /\ \A c \in 1 .. Len(credentials) : credentials'[c] = f[c]
  BY <1>1, <1>2, <1>5, <1>6, AppendProperties
<1>8. DOMAIN credentials' = 1 .. Len(credentials) + 1
  BY <1>7, LenProperties
<1> QED
  BY <1>1, <1>3, <1>6, <1>7, <1>8, AccreditationAssumption DEF CredentialsGrow, v

\* Revoking a credential.
LEMMA RevokeStep ==
    ASSUME TypeOK, Bounded, NEW c \in DOMAIN credentials, RevokeCredential(c)
    PROVE  CredentialsGrow /\ DOMAIN credentials' = DOMAIN credentials
<1>1. /\ Len(credentials) \in Nat /\ DOMAIN credentials = 1 .. Len(credentials)
      /\ \A e \in DOMAIN credentials : credentials[e] \in Credentials
      /\ credentials \in Seq(Credentials)
  BY Rows DEF TypeOK, ManifestsOK
<1> DEFINE v == [credentials[c] EXCEPT !.status = "ended"]
<1>2. /\ v \in Credentials /\ v.status # "issued"
      /\ v.registration = credentials[c].registration
      /\ credentials' = [credentials EXCEPT ![c] = v]
  BY <1>1 DEF RevokeCredential, Credentials
<1> HIDE DEF v
<1>3. credentials' \in Seq(Credentials) /\ Len(credentials') = Len(credentials)
  BY <1>1, <1>2, ExceptSeq
<1>4. credentials'[c] = v /\ \A e \in DOMAIN credentials : e # c => credentials'[e] = credentials[e]
  BY <1>1, <1>2
<1>5. DOMAIN credentials' = DOMAIN credentials
  BY <1>1, <1>3, LenProperties
<1> QED
  BY <1>1, <1>2, <1>3, <1>4, <1>5 DEF CredentialsGrow, Bounded

\* A restriction revokes the credential of a registration.
LEMMA RestrictStep ==
    ASSUME TypeOK, Bounded, NEW r \in Registrations, RestrictAttendance(r)
    PROVE  CredentialsGrow /\ DOMAIN credentials' = DOMAIN credentials
<1> DEFINE f == [c \in DOMAIN credentials |->
                    IF credentials[c].registration = r /\ credentials[c].status = "issued"
                    THEN [credentials[c] EXCEPT !.status = "ended"] ELSE credentials[c]]
<1>1. /\ Len(credentials) \in Nat /\ DOMAIN credentials = 1 .. Len(credentials)
      /\ \A c \in DOMAIN credentials : credentials[c] \in Credentials
  BY Rows DEF TypeOK
<1>2. \A c \in DOMAIN credentials :
        /\ f[c] \in Credentials
        /\ f[c].registration = credentials[c].registration
        /\ f[c].status = "issued" => credentials[c].status = "issued"
  BY <1>1 DEF Credentials
<1>3. f \in [1 .. Len(credentials) -> Credentials]
  BY <1>1, <1>2
<1>4. f \in Seq(Credentials) /\ Len(f) = Len(credentials)
  BY <1>1, <1>3, SeqDef
<1>5. credentials' = f
  BY DEF RestrictAttendance
<1>6. DOMAIN f = DOMAIN credentials
  OBVIOUS
<1> HIDE DEF f
<1> QED
  BY <1>1, <1>2, <1>4, <1>5, <1>6 DEF CredentialsGrow, Bounded
-----------------------------------------------------------------------------
(* Steps on the credentials *)

\* A credential that cannot be presented stays so, because a registration
\* that is not admitted is never admitted again.
LEMMA PresentableShrinks ==
    ASSUME TypeOK, CredentialsGrow, \A r \in Registrations : Admissible(r)' => Admissible(r)
    PROVE  Presentable' \intersect DOMAIN credentials \subseteq Presentable
<1> SUFFICES ASSUME NEW c \in DOMAIN credentials, c \in Presentable'
             PROVE  c \in Presentable
  OBVIOUS
<1>1. credentials'[c].registration \in Registrations /\ credentials'[c].registration = credentials[c].registration
  BY Rows DEF TypeOK, CredentialsGrow, Credentials
<1>2. Admissible(credentials[c].registration)
  BY <1>1 DEF Presentable, Admissible
<1> QED
  BY <1>2 DEF Presentable, CredentialsGrow

\* What was left out stays left out when credentials are added.
LEMMA LeftOutGrows ==
    ASSUME ManifestsOK, CredentialsGrow, NEW known \in Nat, known <= Len(credentials), NEW chosen
    PROVE  LeftOut(known, chosen)' = LeftOut(known, chosen)
BY Rows DEF LeftOut, CredentialsGrow

\* Whatever happens to the credentials alone, the manifests keep their types
\* and what they left out.
LEMMA CredentialsKeepManifests ==
    ASSUME IInv, CredentialsGrow, UNCHANGED <<manifests, generating>>,
           \A r \in Registrations : Admissible(r)' => Admissible(r)
    PROVE  ManifestsOK' /\ Bounded' /\ LeftOutForGood'
<1>0. /\ Len(credentials) \in Nat /\ DOMAIN credentials = 1 .. Len(credentials)
      /\ \A m \in DOMAIN manifests :
            manifests[m].credentials \subseteq DOMAIN credentials /\ manifests[m].known \in Nat
      /\ \A g \in generating : g.known \in Nat /\ g.credentials \subseteq DOMAIN credentials
  BY Rows, AccreditationAssumption DEF IInv, TypeOK, ManifestsOK
<1>1. Bounded'
  BY <1>0 DEF IInv, Bounded, CredentialsGrow
<1>2. ManifestsOK'
  <2> DEFINE M(D) == [credentials : SUBSET D, known : 0 .. MaxCredentials]
  <2>1. M(DOMAIN credentials) \subseteq M(DOMAIN credentials')
    BY DEF CredentialsGrow
  <2>2. manifests \in Seq(M(DOMAIN credentials'))
    BY <2>1, SeqMonotonic DEF IInv, TypeOK, ManifestsOK
  <2>3. generating \subseteq [sequence : 1 .. MaxManifests, credentials : SUBSET DOMAIN credentials',
                             known : 0 .. MaxCredentials]
    BY DEF IInv, TypeOK, ManifestsOK, CredentialsGrow
  <2> QED
    BY <2>2, <2>3 DEF ManifestsOK, CredentialsGrow
<1>3. Presentable' \intersect DOMAIN credentials \subseteq Presentable
  BY PresentableShrinks DEF IInv
<1>4. \A m \in DOMAIN manifests :
        LeftOut(manifests[m].known, manifests[m].credentials)'
            = LeftOut(manifests[m].known, manifests[m].credentials)
  BY <1>0, LeftOutGrows DEF IInv, Bounded, TypeOK
<1>5. \A g \in generating :
        LeftOut(g.known, g.credentials)' = LeftOut(g.known, g.credentials)
  BY <1>0, LeftOutGrows DEF IInv, Bounded, TypeOK
<1>6. \A known, chosen : LeftOut(known, chosen) \subseteq DOMAIN credentials
  BY DEF LeftOut
<1>7. LeftOutForGood'
  <2> USE DEF IInv, LeftOutForGood
  <2>1. \A m \in DOMAIN manifests :
          LeftOut(manifests[m].known, manifests[m].credentials) \intersect Presentable' = {}
    BY <1>3, <1>6
  <2>2. \A g \in generating : LeftOut(g.known, g.credentials) \intersect Presentable' = {}
    BY <1>3, <1>6
  <2> QED
    BY <1>4, <1>5, <2>1, <2>2
<1> QED
  BY <1>1, <1>2, <1>7

\* Scans and arrivals refer to credentials that stay what they are.
LEMMA CredentialsKeepScans ==
    ASSUME IInv, CredentialsGrow, UNCHANGED <<desk, scans, recorded>>,
           \A r \in Registrations : state'[r] = "checked_in" <=> state[r] = "checked_in"
    PROVE  ScansNameRows' /\ OutcomesOfScans' /\ OneArrival'
<1>1. ScansNameRows' /\ OutcomesOfScans'
  BY DEF IInv, ScansNameRows, OutcomesOfScans, CredentialsGrow
<1>2. \A r \in Registrations : ArrivalScans(r)' = ArrivalScans(r)
  <2> SUFFICES ASSUME NEW r \in Registrations, NEW d \in Devices, NEW n \in 1 .. MaxScans,
                      recorded[d][n] = "applied"
               PROVE  credentials'[scans[d][n].credential].registration
                        = credentials[scans[d][n].credential].registration
    BY DEF ArrivalScans
  <2> QED
    BY DEF IInv, OutcomesOfScans, CredentialsGrow
<1>3. OneArrival'
  BY <1>2 DEF IInv, OneArrival
<1> QED
  BY <1>1, <1>3

\* Nothing but the credentials has changed: the rest of the invariant.
LEMMA OthersKept ==
    ASSUME IInv, UNCHANGED <<registrationVars, deviceVars>>
    PROVE  RegistrationsOK' /\ DevicesOK' /\ LogPrefix'
<1>1. RegistrationsOK'
  BY DEF IInv, TypeOK, RegistrationsOK, registrationVars
<1>2. DevicesOK'
  BY DEF IInv, TypeOK, DevicesOK, deviceVars
<1>3. LogPrefix'
  BY DEF IInv, LogPrefix, deviceVars
<1> QED
  BY <1>1, <1>2, <1>3

\* The sets that were read keep one credential for each registration.
LEMMA OnePerKept ==
    ASSUME CredentialsGrow, NEW S \in SUBSET DOMAIN credentials, OnePerRegistration(S)
    PROVE  OnePerRegistration(S)'
BY DEF OnePerRegistration, CredentialsGrow

\* Credentials that change in this way keep the invariant, if a registration
\* still has at most one that is issued.
LEMMA CredentialsKeepInvariant ==
    ASSUME IInv, CredentialsGrow, UNCHANGED <<desk, manifests, generating, deviceVars>>,
           RegistrationsOK',
           \A r \in Registrations :
                /\ Admissible(r)' => Admissible(r)
                /\ state'[r] = "checked_in" <=> state[r] = "checked_in",
           OnePerRegistration({c \in DOMAIN credentials : credentials[c].status = "issued"})'
    PROVE  IInv'
<1>1. ManifestsOK' /\ Bounded' /\ LeftOutForGood'
  BY CredentialsKeepManifests
<1>2. ScansNameRows' /\ OutcomesOfScans' /\ OneArrival'
  BY CredentialsKeepScans DEF deviceVars
<1>3. DevicesOK' /\ LogPrefix'
  BY DEF IInv, TypeOK, DevicesOK, LogPrefix, deviceVars
<1>4. /\ \A m \in DOMAIN manifests : OnePerRegistration(manifests[m].credentials)'
      /\ \A g \in generating : OnePerRegistration(g.credentials)'
  <2>1. /\ \A m \in DOMAIN manifests : manifests[m].credentials \in SUBSET DOMAIN credentials
        /\ \A g \in generating : g.credentials \in SUBSET DOMAIN credentials
    BY Rows DEF IInv, TypeOK, ManifestsOK
  <2>2. \A m \in DOMAIN manifests : manifests'[m].credentials = manifests[m].credentials
    OBVIOUS
  <2> QED
    BY <2>1, <2>2, OnePerKept DEF IInv, OneIssued, OnePerRegistration
<1>5. OneIssued'
  BY <1>4 DEF OneIssued
<1>6. TypeOK'
  BY <1>1, <1>3, <1>5 DEF OneIssued, TypeOK, OnePerRegistration, Presentable
<1> QED
  BY <1>1, <1>2, <1>3, <1>5, <1>6 DEF IInv

\* No credential comes to be issued when there is no new one.
LEMMA OneIssuedKept ==
    ASSUME IInv, CredentialsGrow, DOMAIN credentials' = DOMAIN credentials
    PROVE  OnePerRegistration({c \in DOMAIN credentials : credentials[c].status = "issued"})'
BY DEF IInv, OneIssued, OnePerRegistration, CredentialsGrow

\* Issuing replaces the credential in use.
LEMMA IssueKeeps ==
    ASSUME IInv, NEW r \in Registrations, IssueCredential(r)
    PROVE  IInv'
<1> DEFINE new == Len(credentials) + 1
<1>1. /\ CredentialsGrow
      /\ DOMAIN credentials' = DOMAIN credentials \union {new}
      /\ credentials'[new] = [registration |-> r, status |-> "issued"]
      /\ \A c \in DOMAIN credentials :
            credentials'[c].status = "issued" => credentials[c].registration # r
  BY IssueStep DEF IInv
<1>2. UNCHANGED <<registrationVars, manifests, generating, deviceVars>>
  BY DEF IssueCredential
<1>3. OnePerRegistration({c \in DOMAIN credentials : credentials[c].status = "issued"})'
  <2>1. credentials'[new].registration = r
    BY <1>1
  <2> HIDE DEF new
  <2> SUFFICES ASSUME NEW c \in DOMAIN credentials', NEW e \in DOMAIN credentials',
                      credentials'[c].status = "issued", credentials'[e].status = "issued",
                      credentials'[c].registration = credentials'[e].registration
               PROVE  c = e
    BY DEF OnePerRegistration
  <2>2. CASE c \in DOMAIN credentials /\ e \in DOMAIN credentials
    BY <1>1, <2>2 DEF IInv, OneIssued, OnePerRegistration, CredentialsGrow
  <2>3. CASE c = new \/ e = new
    BY <1>1, <2>1, <2>3 DEF CredentialsGrow
  <2> QED
    BY <1>1, <2>2, <2>3
<1>4. RegistrationsOK'
  BY <1>2, OthersKept
<1> QED
  BY <1>1, <1>2, <1>3, <1>4, CredentialsKeepInvariant DEF registrationVars, Admissible

\* Revoking ends it, and so does a restriction, which ends the admission of
\* those who have not arrived.
LEMMA RevokeKeeps ==
    ASSUME IInv,
           \/ \E c \in DOMAIN credentials : RevokeCredential(c)
           \/ \E r \in Registrations : RestrictAttendance(r)
    PROVE  IInv'
<1>1. CredentialsGrow /\ DOMAIN credentials' = DOMAIN credentials
  BY RevokeStep, RestrictStep DEF IInv
<1>2. OnePerRegistration({c \in DOMAIN credentials : credentials[c].status = "issued"})'
  BY <1>1, OneIssuedKept
<1>3. CASE \E c \in DOMAIN credentials : RevokeCredential(c)
  <2>1. UNCHANGED <<registrationVars, manifests, generating, deviceVars>>
    BY <1>3 DEF RevokeCredential
  <2>2. RegistrationsOK'
    BY <2>1, OthersKept
  <2> QED
    BY <1>1, <1>2, <2>1, <2>2, CredentialsKeepInvariant DEF registrationVars, Admissible
<1>4. ASSUME NEW r \in Registrations, RestrictAttendance(r) PROVE IInv'
  <2>1. /\ UNCHANGED <<desk, editionClosed, manifests, generating, deviceVars>>
        /\ entitled' = entitled \ {r}
        /\ state' = IF state[r] = "confirmed" THEN [state EXCEPT ![r] = "cancelled"] ELSE state
    BY <1>4 DEF RestrictAttendance
  <2>2. state \in [Registrations -> {"confirmed", "checked_in", "cancelled"}]
    BY DEF IInv, TypeOK, RegistrationsOK
  <2>3. RegistrationsOK'
    BY <2>1 DEF IInv, TypeOK, RegistrationsOK
  <2>4. \A q \in Registrations :
            /\ Admissible(q)' => Admissible(q)
            /\ state'[q] = "checked_in" <=> state[q] = "checked_in"
    BY <2>1, <2>2 DEF Admissible
  <2> QED
    BY <1>1, <1>2, <2>1, <2>3, <2>4, CredentialsKeepInvariant
<1> QED
  BY <1>3, <1>4

-----------------------------------------------------------------------------
(* Steps on the manifests *)

\* Scans and arrivals do not depend on requests, and manifests are only added.
LEMMA ManifestsKeepScans ==
    ASSUME IInv, UNCHANGED <<state, desk, credentials, scans, recorded>>,
           DOMAIN manifests \subseteq DOMAIN manifests'
    PROVE  ScansNameRows' /\ OutcomesOfScans' /\ OneArrival'
<1>1. ScansNameRows' /\ OutcomesOfScans'
  BY DEF IInv, ScansNameRows, OutcomesOfScans
<1>2. OneArrival'
  BY DEF IInv, OneArrival, ArrivalScans
<1> QED
  BY <1>1, <1>2

\* A request reads the next sequence and what can be presented now.
LEMMA BeginStep ==
    ASSUME IInv, BeginManifest
    PROVE  IInv'
<1> DEFINE g == [sequence |-> Len(manifests) + 1, credentials |-> Presentable,
                 known |-> Len(credentials)]
<1>0. /\ Len(credentials) \in Nat /\ DOMAIN credentials = 1 .. Len(credentials)
      /\ Len(manifests) \in Nat /\ DOMAIN manifests = 1 .. Len(manifests)
  BY Rows DEF IInv, TypeOK
<1>1. /\ UNCHANGED <<registrationVars, credentials, manifests, deviceVars>>
      /\ generating' = generating \union {g} /\ Len(manifests) < MaxManifests
  BY DEF BeginManifest
<1>2. Presentable' = Presentable /\ Presentable \subseteq DOMAIN credentials
  BY <1>1 DEF Presentable, Admissible, registrationVars
<1>3. g \in [sequence : 1 .. MaxManifests, credentials : SUBSET DOMAIN credentials,
             known : 0 .. MaxCredentials]
  BY <1>0, <1>1, <1>2, AccreditationAssumption DEF IInv, Bounded
<1>4. ManifestsOK'
  BY <1>1, <1>3 DEF IInv, TypeOK, ManifestsOK
<1>5. Bounded'
  BY <1>0, <1>1 DEF IInv, Bounded
<1>6. OneIssued'
  <2>1. OnePerRegistration(Presentable)
    BY DEF IInv, TypeOK
  <2> QED
    BY <1>1, <2>1 DEF IInv, OneIssued, OnePerRegistration
<1>7. LeftOutForGood'
  <2>1. LeftOut(g.known, g.credentials) \intersect Presentable = {}
    BY DEF LeftOut
  <2>2. \A m \in DOMAIN manifests :
          LeftOut(manifests[m].known, manifests[m].credentials) \intersect g.credentials = {}
    BY DEF IInv, LeftOutForGood
  <2> HIDE DEF g
  <2> QED
    BY <1>1, <1>2, <2>1, <2>2 DEF IInv, LeftOutForGood, LeftOut
<1>8. ScansNameRows' /\ OutcomesOfScans' /\ OneArrival'
  BY <1>1, ManifestsKeepScans DEF registrationVars, deviceVars
<1>9. RegistrationsOK' /\ DevicesOK' /\ LogPrefix'
  BY <1>1, OthersKept
<1>10. TypeOK'
  BY <1>4, <1>6, <1>9 DEF OneIssued, TypeOK, OnePerRegistration, Presentable
<1> QED
  BY <1>4, <1>5, <1>6, <1>7, <1>8, <1>9, <1>10 DEF IInv
\* The request whose sequence is free adds the next manifest; the others that
\* read the same sequence are refused.
LEMMA InsertStep ==
    ASSUME IInv, NEW g \in generating, InsertManifest(g)
    PROVE  IInv'
<1> DEFINE v == [credentials |-> g.credentials, known |-> g.known]
           M == [credentials : SUBSET DOMAIN credentials, known : 0 .. MaxCredentials]
           last == Len(manifests) + 1
<1>0. /\ Len(credentials) \in Nat /\ DOMAIN credentials = 1 .. Len(credentials)
      /\ Len(manifests) \in Nat /\ DOMAIN manifests = 1 .. Len(manifests)
      /\ manifests \in Seq(M)
  BY Rows DEF IInv, TypeOK, ManifestsOK
<1>1. /\ UNCHANGED <<registrationVars, credentials, deviceVars>>
      /\ generating' = generating \ {g} /\ manifests' = Append(manifests, v)
  BY DEF InsertManifest
<1>2. /\ g.sequence \in 1 .. MaxManifests /\ g.sequence = last
      /\ v \in M /\ v.credentials = g.credentials /\ v.known = g.known
  <2>1. g.sequence \in 1 .. MaxManifests /\ g.credentials \in SUBSET DOMAIN credentials
        /\ g.known \in 0 .. MaxCredentials
    BY DEF IInv, TypeOK, ManifestsOK
  <2>2. g.sequence <= Len(manifests) + 1 /\ g.sequence \notin DOMAIN manifests
    BY DEF IInv, Bounded, InsertManifest, SequenceFree
  <2> QED
    BY <1>0, <2>1, <2>2, AccreditationAssumption
<1> HIDE DEF v, M
<1>3. /\ manifests' \in Seq(M) /\ Len(manifests') = last
      /\ manifests'[last] = v
      /\ \A m \in 1 .. Len(manifests) : manifests'[m] = manifests[m]
  BY <1>0, <1>1, <1>2, AppendProperties
<1>4. DOMAIN manifests' = DOMAIN manifests \union {last}
  BY <1>0, <1>3, LenProperties
<1>5. Presentable' = Presentable
  BY <1>1 DEF Presentable, Admissible, registrationVars
<1>6. ManifestsOK'
  BY <1>1, <1>3 DEF IInv, TypeOK, ManifestsOK, M
<1>7. Bounded'
  <2>1. \A h \in generating' : h.sequence <= Len(manifests') + 1 /\ h.known <= Len(credentials')
    <3> SUFFICES ASSUME NEW h \in generating
                 PROVE  h.sequence <= last + 1 /\ h.known <= Len(credentials)
      BY <1>1, <1>3
    <3>1. h.sequence \in Nat /\ h.sequence <= last /\ h.known <= Len(credentials)
      BY AccreditationAssumption DEF IInv, Bounded, TypeOK, ManifestsOK
    <3> QED
      BY <1>0, <3>1
  <2>2. \A m \in DOMAIN manifests' : manifests'[m].known <= Len(credentials')
    BY <1>0, <1>1, <1>2, <1>3, <1>4 DEF IInv, Bounded
  <2>3. Len(manifests') <= MaxManifests
    BY <1>2, <1>3, AccreditationAssumption
  <2> QED
    BY <1>1, <2>1, <2>2, <2>3 DEF IInv, Bounded
<1>8. OneIssued'
  <2>1. OnePerRegistration(g.credentials)
    BY DEF IInv, OneIssued
  <2>2. \A m \in DOMAIN manifests' : OnePerRegistration(manifests'[m].credentials)
    BY <1>0, <1>2, <1>3, <1>4, <2>1 DEF IInv, OneIssued
  <2> QED
    BY <1>1, <2>2 DEF IInv, OneIssued, OnePerRegistration
<1>9. LeftOutForGood'
  <2>0. \A known, chosen : LeftOut(known, chosen)' = LeftOut(known, chosen)
    BY <1>1 DEF LeftOut
  <2>1. \A m \in DOMAIN manifests' :
          LeftOut(manifests'[m].known, manifests'[m].credentials) \intersect Presentable = {}
    BY <1>0, <1>2, <1>3, <1>4 DEF IInv, LeftOutForGood
  <2>2. \A h \in generating', m \in DOMAIN manifests' :
          m < h.sequence => LeftOut(manifests'[m].known, manifests'[m].credentials)
                              \intersect h.credentials = {}
    <3> SUFFICES ASSUME NEW h \in generating, NEW m \in DOMAIN manifests', m < h.sequence
                 PROVE  LeftOut(manifests'[m].known, manifests'[m].credentials)
                          \intersect h.credentials = {}
      BY <1>1
    <3>1. h.sequence \in Nat /\ h.sequence <= last
      BY AccreditationAssumption DEF IInv, Bounded, TypeOK, ManifestsOK
    <3>2. m \in DOMAIN manifests
      BY <1>0, <1>4, <3>1
    <3> QED
      BY <1>0, <1>3, <3>2 DEF IInv, LeftOutForGood
  <2>3. \A h \in generating' : LeftOut(h.known, h.credentials) \intersect Presentable = {}
    BY <1>1 DEF IInv, LeftOutForGood
  <2>4. \A m, n \in DOMAIN manifests' :
          m < n => LeftOut(manifests'[m].known, manifests'[m].credentials)
                      \intersect manifests'[n].credentials = {}
    <3> SUFFICES ASSUME NEW m \in DOMAIN manifests', NEW n \in DOMAIN manifests', m < n
                 PROVE  LeftOut(manifests'[m].known, manifests'[m].credentials)
                          \intersect manifests'[n].credentials = {}
      OBVIOUS
    <3>1. m \in DOMAIN manifests /\ manifests'[m] = manifests[m]
      BY <1>0, <1>3, <1>4
    <3>2. CASE n \in DOMAIN manifests
      BY <1>0, <1>3, <3>1, <3>2 DEF IInv, LeftOutForGood
    <3>3. CASE n = last
      BY <1>2, <1>3, <3>1, <3>3 DEF IInv, LeftOutForGood
    <3> QED
      BY <1>4, <3>2, <3>3
  <2> QED
    BY <1>5, <2>1, <2>2, <2>3, <2>4 DEF LeftOutForGood, LeftOut, InsertManifest
<1>10. ScansNameRows' /\ OutcomesOfScans' /\ OneArrival'
  BY <1>1, <1>4, ManifestsKeepScans DEF registrationVars, deviceVars
<1>11. RegistrationsOK' /\ DevicesOK' /\ LogPrefix'
  BY <1>1, OthersKept
<1>12. TypeOK'
  BY <1>6, <1>8, <1>11 DEF OneIssued, TypeOK, OnePerRegistration, Presentable
<1> QED
  BY <1>6, <1>7, <1>8, <1>9, <1>10, <1>11, <1>12 DEF IInv

\* Steps that touch neither credentials nor manifests, while no registration
\* is admitted anew and requests are only dropped.
LEMMA ManifestsKept ==
    ASSUME IInv, UNCHANGED <<credentials, manifests>>, generating' \subseteq generating,
           \A r \in Registrations : Admissible(r)' => Admissible(r)
    PROVE  ManifestsOK' /\ Bounded' /\ OneIssued' /\ LeftOutForGood'
<1>1. Presentable' \subseteq Presentable
  BY Rows DEF IInv, TypeOK, Presentable, Credentials, Admissible
<1>2. ManifestsOK'
  BY DEF IInv, TypeOK, ManifestsOK
<1>3. Bounded'
  BY DEF IInv, Bounded
<1>4. OneIssued'
  BY DEF IInv, OneIssued, OnePerRegistration
<1>5. LeftOutForGood'
  BY <1>1 DEF IInv, LeftOutForGood, LeftOut
<1> QED
  BY <1>2, <1>3, <1>4, <1>5

LEMMA RefusedStep ==
    ASSUME IInv, NEW g \in generating, ManifestRefused(g)
    PROVE  IInv'
<1>1. /\ UNCHANGED <<registrationVars, credentials, manifests, deviceVars>>
      /\ generating' \subseteq generating
  BY DEF ManifestRefused
<1>2. ManifestsOK' /\ Bounded' /\ OneIssued' /\ LeftOutForGood'
  BY <1>1, ManifestsKept DEF registrationVars, Admissible
<1>3. ScansNameRows' /\ OutcomesOfScans' /\ OneArrival'
  BY <1>1, ManifestsKeepScans DEF registrationVars, deviceVars
<1>4. RegistrationsOK' /\ DevicesOK' /\ LogPrefix'
  BY <1>1, OthersKept
<1>5. TypeOK'
  BY <1>2, <1>4 DEF OneIssued, TypeOK, OnePerRegistration, Presentable
<1> QED
  BY <1>2, <1>3, <1>4, <1>5 DEF IInv
-----------------------------------------------------------------------------
(* Steps of the devices *)

\* A scan is added to the end of what its device has scanned.
LEMMA ScanStep ==
    ASSUME IInv, NEW d \in Devices, NEW s \in Scans, Scan(d, s)
    PROVE  IInv'
<1> DEFINE S == [credential : 0 .. MaxCredentials, listed : BOOLEAN]
           last == Len(scans[d]) + 1
<1>0. /\ UNCHANGED <<registrationVars, credentials, manifests, generating, enabled, lastSequence,
                     recorded, form, overwritten>>
      /\ scans' = [scans EXCEPT ![d] = Append(scans[d], s)]
  BY DEF Scan
<1>1. s \in S /\ (s = Unusable \/ s.credential \in DOMAIN credentials)
  <2>1. /\ DOMAIN credentials = 1 .. Len(credentials) /\ Len(credentials) \in Nat
        /\ Len(credentials) <= MaxCredentials
    BY Rows DEF IInv, TypeOK, Bounded
  <2>2. DOMAIN credentials \subseteq 0 .. MaxCredentials /\ 0 \in 0 .. MaxCredentials
    BY <2>1, AccreditationAssumption
  <2>3. CASE s = Unusable
    BY <2>2, <2>3 DEF Unusable
  <2>4. CASE s # Unusable
    <3>1. PICK c \in DOMAIN credentials, m \in DOMAIN manifests :
              s = [credential |-> c, listed |-> c \in manifests[m].credentials]
      BY <2>4 DEF Scans
    <3>2. (c \in manifests[m].credentials) \in BOOLEAN
      OBVIOUS
    <3> QED
      BY <2>2, <3>1, <3>2
  <2> QED
    BY <2>3, <2>4
<1>2. scans \in [Devices -> Seq(S)] /\ scans[d] \in Seq(S)
  BY DEF IInv, TypeOK, DevicesOK
<1> HIDE DEF S
<1>3. /\ Append(scans[d], s) \in Seq(S)
      /\ Len(Append(scans[d], s)) = last
      /\ Append(scans[d], s)[last] = s
      /\ \A n \in 1 .. Len(scans[d]) : Append(scans[d], s)[n] = scans[d][n]
  BY <1>1, <1>2, AppendProperties
<1>4. /\ scans' \in [Devices -> Seq(S)]
      /\ scans'[d] = Append(scans[d], s)
      /\ \A e \in Devices : e # d => scans'[e] = scans[e]
  BY <1>0, <1>2, <1>3
<1>5. /\ DOMAIN scans[d] = 1 .. Len(scans[d]) /\ Len(scans[d]) \in Nat
      /\ DOMAIN scans'[d] = DOMAIN scans[d] \union {last}
  <2>1. DOMAIN scans[d] = 1 .. Len(scans[d]) /\ Len(scans[d]) \in Nat
    BY <1>2, LenProperties
  <2>2. DOMAIN scans'[d] = 1 .. last
    BY <1>3, <1>4, LenProperties
  <2> QED
    BY <2>1, <2>2
<1>6. \A e \in Devices : DOMAIN scans[e] \subseteq DOMAIN scans'[e]
                         /\ \A n \in DOMAIN scans[e] : scans'[e][n] = scans[e][n]
  BY <1>3, <1>4, <1>5
<1>7. ScansNameRows'
  <2> SUFFICES ASSUME NEW e \in Devices, NEW n \in DOMAIN scans'[e]
               PROVE  scans'[e][n] = Unusable \/ scans'[e][n].credential \in DOMAIN credentials
    BY <1>0 DEF ScansNameRows
  <2>1. CASE e = d /\ n = last
    BY <1>1, <1>3, <1>4, <2>1
  <2>2. CASE n \in DOMAIN scans[e]
    BY <1>6, <2>2 DEF IInv, ScansNameRows
  <2> QED
    BY <1>4, <1>5, <2>1, <2>2
<1>8. OutcomesOfScans'
  <2> SUFFICES ASSUME NEW e \in Devices, NEW n \in 1 .. MaxScans
               PROVE  /\ recorded[e][n] # "none" => n \in DOMAIN scans'[e]
                      /\ recorded[e][n] = "applied" => scans'[e][n].credential \in DOMAIN credentials
    BY <1>0 DEF OutcomesOfScans
  <2> QED
    BY <1>6, "applied" # "none" DEF IInv, OutcomesOfScans
<1>9. OneArrival'
  <2>1. \A r \in Registrations : ArrivalScans(r)' = ArrivalScans(r)
    <3> SUFFICES ASSUME NEW r \in Registrations, NEW e \in Devices, NEW n \in 1 .. MaxScans,
                        recorded[e][n] = "applied"
                 PROVE  scans'[e][n] = scans[e][n]
      BY <1>0 DEF ArrivalScans
    <3> QED
      BY <1>6, "applied" # "none" DEF IInv, OutcomesOfScans
  <2> QED
    BY <1>0, <2>1 DEF IInv, OneArrival, registrationVars
<1>10. ManifestsOK' /\ Bounded' /\ OneIssued' /\ LeftOutForGood'
  BY <1>0, ManifestsKept DEF registrationVars, Admissible
<1>11. RegistrationsOK' /\ LogPrefix'
  BY <1>0 DEF IInv, TypeOK, RegistrationsOK, LogPrefix, registrationVars
<1>12. DevicesOK'
  BY <1>0, <1>4 DEF IInv, TypeOK, DevicesOK, S
<1>13. TypeOK'
  BY <1>10, <1>11, <1>12 DEF OneIssued, TypeOK, OnePerRegistration, Presentable
<1> QED
  BY <1>7, <1>8, <1>9, <1>10, <1>11, <1>13 DEF IInv

\* What an outcome says about the scan.
LEMMA OutcomeFacts ==
    ASSUME NEW s
    PROVE  /\ Outcome(s) \in {"applied", "rejected", "conflict", "duplicate"}
           /\ Outcome(s) = "applied" =>
                s # Unusable /\ state[credentials[s.credential].registration] = "confirmed"
BY DEF Outcome

\* The field of the form is a number.
LEMMA FormType ==
    ASSUME DevicesOK, NEW d \in Devices
    PROVE  form[d] \in Int /\ (form[d] \in Nat => form[d] \in 0 .. MaxScans)
<1>1. Closed = -1 /\ Saved = -2
  BY DEF Closed, Saved
<1>2. form[d] = Closed \/ form[d] = Saved \/ form[d] \in 0 .. MaxScans
  BY DEF DevicesOK
<1> QED
  BY <1>1, <1>2, AccreditationAssumption

\* A scan is judged in its turn, and checks in at most a confirmed registration.
LEMMA ReconcileStep ==
    ASSUME IInv, NEW d \in Devices, NEW n \in 1 .. MaxScans, Reconcile(d, n)
    PROVE  IInv'
<1>0. PICK v : v = Outcome(scans[d][n])
  OBVIOUS
<1>1. /\ UNCHANGED <<entitled, desk, editionClosed, credentials, manifests, generating, enabled, scans,
                     form, overwritten>>
      /\ recorded' = [recorded EXCEPT ![d][n] = v]
      /\ lastSequence' = [lastSequence EXCEPT ![d] = n]
      /\ recorded[d][n] = "none" /\ n = lastSequence[d] + 1
      /\ n <= Len(scans[d])
  BY <1>0 DEF Reconcile, NextInSequence
<1>2. v \in {"applied", "rejected", "conflict", "duplicate"}
  BY <1>0, OutcomeFacts
<1>3. n \in DOMAIN scans[d]
  BY <1>1, LenProperties DEF IInv, TypeOK, DevicesOK
<1>4. PICK r : r = credentials[scans[d][n].credential].registration
  OBVIOUS
<1>5. v = "applied" =>
        /\ scans[d][n].credential \in DOMAIN credentials
        /\ r \in Registrations /\ state[r] = "confirmed"
  BY <1>0, <1>3, <1>4, OutcomeFacts, Rows DEF IInv, ScansNameRows, TypeOK, Credentials
<1>6. state' = IF v = "applied" THEN [state EXCEPT ![r] = "checked_in"] ELSE state
  BY <1>0, <1>4 DEF Reconcile
<1>7. /\ recorded'[d][n] = v
      /\ \A e \in Devices, k \in 1 .. MaxScans :
            <<e, k>> # <<d, n>> => recorded'[e][k] = recorded[e][k]
      /\ recorded' \in [Devices -> [1 .. MaxScans -> {"none", "applied", "rejected", "conflict", "duplicate"}]]
  BY <1>1, <1>2 DEF IInv, TypeOK, DevicesOK
<1>8. /\ lastSequence'[d] = n /\ \A e \in Devices : e # d => lastSequence'[e] = lastSequence[e]
      /\ lastSequence' \in [Devices -> 0 .. MaxScans]
  BY <1>1, AccreditationAssumption DEF IInv, TypeOK, DevicesOK
<1>9. RegistrationsOK'
  BY <1>1, <1>5, <1>6 DEF IInv, TypeOK, RegistrationsOK
<1>10. DevicesOK'
  BY <1>1, <1>7, <1>8 DEF IInv, TypeOK, DevicesOK
<1>11. \A q \in Registrations : Admissible(q)' => Admissible(q)
  BY <1>5, <1>6 DEF Admissible, IInv, TypeOK, RegistrationsOK
<1>12. ManifestsOK' /\ Bounded' /\ OneIssued' /\ LeftOutForGood'
  BY <1>1, <1>11, ManifestsKept
<1>13. ScansNameRows'
  BY <1>1 DEF IInv, ScansNameRows
<1>14. OutcomesOfScans'
  BY <1>1, <1>3, <1>5, <1>7 DEF IInv, OutcomesOfScans
<1>15. LogPrefix'
  <2> SUFFICES ASSUME NEW e \in Devices
               PROVE  \E last \in 0 .. MaxScans :
                        /\ \A k \in 1 .. MaxScans : recorded'[e][k] # "none" <=> k <= last
                        /\ lastSequence'[e] <= last /\ form[e] <= last
                        /\ e \notin overwritten => last = lastSequence'[e]
    BY <1>1 DEF LogPrefix
  <2>1. PICK last \in 0 .. MaxScans :
            /\ \A k \in 1 .. MaxScans : recorded[e][k] # "none" <=> k <= last
            /\ lastSequence[e] <= last /\ form[e] <= last
            /\ e \notin overwritten => last = lastSequence[e]
    BY DEF IInv, LogPrefix
  <2>2. CASE e # d
    BY <1>7, <1>8, <2>1, <2>2
  <2>3. CASE e = d
    <3>1. lastSequence[d] \in 0 .. MaxScans /\ form[d] \in Int
      BY FormType DEF IInv, TypeOK, DevicesOK
    <3>2. n = last + 1
      BY <1>1, <2>1, <2>3, <3>1
    <3>3. \A k \in 1 .. MaxScans : recorded'[d][k] # "none" <=> k <= n
      BY <1>2, <1>7, <2>1, <2>3, <3>2
    <3> QED
      BY <1>8, <2>1, <2>3, <3>1, <3>2, <3>3
  <2> QED
    BY <2>2, <2>3
<1>16. OneArrival'
  <2>1. \A q \in Registrations : (v = "applied" /\ q = r) \/ ArrivalScans(q)' = ArrivalScans(q)
    <3> SUFFICES ASSUME NEW q \in Registrations, ~ (v = "applied" /\ q = r)
                 PROVE  ArrivalScans(q)' = ArrivalScans(q)
      OBVIOUS
    <3>1. \A e \in Devices, k \in 1 .. MaxScans :
            (/\ recorded'[e][k] = "applied"
             /\ credentials[scans[e][k].credential].registration = q)
            <=> (/\ recorded[e][k] = "applied"
                 /\ credentials[scans[e][k].credential].registration = q)
      BY <1>1, <1>4, <1>7
    <3> QED
      BY <1>1, <3>1 DEF ArrivalScans
  <2>2. v = "applied" => ArrivalScans(r)' = ArrivalScans(r) \union {<<d, n>>}
    <3> SUFFICES ASSUME v = "applied"
                 PROVE  ArrivalScans(r)' = ArrivalScans(r) \union {<<d, n>>}
      OBVIOUS
    <3>1. \A x \in Devices \X (1 .. MaxScans) :
            x \in ArrivalScans(r)' <=> x \in ArrivalScans(r) \/ x = <<d, n>>
      <4> SUFFICES ASSUME NEW e \in Devices, NEW k \in 1 .. MaxScans
                   PROVE  (/\ recorded'[e][k] = "applied"
                           /\ credentials[scans[e][k].credential].registration = r)
                          <=> (\/ /\ recorded[e][k] = "applied"
                                  /\ credentials[scans[e][k].credential].registration = r
                               \/ <<e, k>> = <<d, n>>)
        BY <1>1 DEF ArrivalScans
      <4> QED
        BY <1>4, <1>7
    <3>2. /\ ArrivalScans(r) \subseteq Devices \X (1 .. MaxScans)
          /\ ArrivalScans(r)' \subseteq Devices \X (1 .. MaxScans)
          /\ <<d, n>> \in Devices \X (1 .. MaxScans)
      BY DEF ArrivalScans
    <3> QED
      BY <3>1, <3>2
  <2>3. v = "applied" => ArrivalScans(r) = {} /\ r \notin desk
    BY <1>5 DEF IInv, OneArrival
  <2>4. \A q \in Registrations : q # r \/ v # "applied" => state'[q] = state[q]
    BY <1>5, <1>6 DEF IInv, TypeOK, RegistrationsOK
  <2>5. v = "applied" => state'[r] = "checked_in"
    BY <1>5, <1>6 DEF IInv, TypeOK, RegistrationsOK
  <2>6. v = "applied" => \E x \in Devices \X (1 .. MaxScans) : ArrivalScans(r)' = {x}
    BY <2>2, <2>3
  <2> SUFFICES ASSUME NEW q \in Registrations
               PROVE  \/ state'[q] # "checked_in" /\ q \notin desk /\ ArrivalScans(q)' = {}
                      \/ state'[q] = "checked_in" /\ q \in desk /\ ArrivalScans(q)' = {}
                      \/ /\ state'[q] = "checked_in" /\ q \notin desk
                         /\ \E x \in Devices \X (1 .. MaxScans) : ArrivalScans(q)' = {x}
    BY <1>1 DEF OneArrival
  <2>7. CASE v = "applied" /\ q = r
    BY <2>3, <2>5, <2>6, <2>7
  <2>8. CASE ~ (v = "applied" /\ q = r)
    BY <2>1, <2>4, <2>8 DEF IInv, OneArrival
  <2> QED
    BY <2>7, <2>8
<1>17. TypeOK'
  BY <1>9, <1>10, <1>12 DEF OneIssued, TypeOK, OnePerRegistration, Presentable
<1> QED
  BY <1>12, <1>13, <1>14, <1>15, <1>16, <1>17 DEF IInv
\* Opening and saving the form of a device.
LEMMA FormStep ==
    ASSUME IInv, NEW d \in Devices,
           OpenDeviceForm(d) \/ \E enable \in BOOLEAN : SaveDeviceForm(d, enable)
    PROVE  IInv'
<1>1. UNCHANGED <<registrationVars, credentials, manifests, generating, scans, recorded>>
  BY DEF OpenDeviceForm, SaveDeviceForm
<1>2. form[d] \in Int /\ (form[d] \in Nat => form[d] \in 0 .. MaxScans)
  BY FormType DEF IInv, TypeOK
<1>3. lastSequence \in [Devices -> 0 .. MaxScans]
  BY DEF IInv, TypeOK, DevicesOK
<1>4. DevicesOK'
  BY <1>1, <1>2, <1>3 DEF OpenDeviceForm, SaveDeviceForm, IInv, TypeOK, DevicesOK
<1>5. LogPrefix'
  <2> SUFFICES ASSUME NEW e \in Devices
               PROVE  \E last \in 0 .. MaxScans :
                        /\ \A k \in 1 .. MaxScans : recorded[e][k] # "none" <=> k <= last
                        /\ lastSequence'[e] <= last /\ form'[e] <= last
                        /\ e \notin overwritten' => last = lastSequence'[e]
    BY <1>1 DEF LogPrefix
  <2>1. PICK last \in 0 .. MaxScans :
            /\ \A k \in 1 .. MaxScans : recorded[e][k] # "none" <=> k <= last
            /\ lastSequence[e] <= last /\ form[e] <= last
            /\ e \notin overwritten => last = lastSequence[e]
    BY DEF IInv, LogPrefix
  <2>2. /\ lastSequence'[e] <= last /\ form'[e] <= last
        /\ e \notin overwritten' => last = lastSequence'[e]
    <3>1. CASE OpenDeviceForm(d)
      BY <2>1, <3>1 DEF OpenDeviceForm, IInv, TypeOK, DevicesOK
    <3>2. CASE \E enable \in BOOLEAN : SaveDeviceForm(d, enable)
      <4>1. Saved <= last
        BY AccreditationAssumption DEF Saved
      <4> QED
        BY <2>1, <3>2, <4>1 DEF SaveDeviceForm, IInv, TypeOK, DevicesOK
    <3> QED
      BY <3>1, <3>2
  <2> QED
    BY <2>1, <2>2
<1>6. ManifestsOK' /\ Bounded' /\ OneIssued' /\ LeftOutForGood'
  BY <1>1, ManifestsKept DEF registrationVars, Admissible
<1>7. RegistrationsOK'
  BY <1>1 DEF IInv, TypeOK, RegistrationsOK, registrationVars
<1>8. ScansNameRows' /\ OutcomesOfScans' /\ OneArrival'
  BY <1>1, ManifestsKeepScans DEF registrationVars
<1>9. TypeOK'
  BY <1>4, <1>6, <1>7 DEF OneIssued, TypeOK, OnePerRegistration, Presentable
<1> QED
  BY <1>5, <1>6, <1>8, <1>9 DEF IInv

-----------------------------------------------------------------------------
(* Steps of registration *)

\* The desk, a cancellation, and the end of the edition.
LEMMA RegistrationStep ==
    ASSUME IInv,
           CloseEdition \/ \E r \in Registrations : CheckIn(r) \/ CancelRegistration(r)
    PROVE  IInv'
<1>1. UNCHANGED <<credentials, manifests, generating, deviceVars>>
  BY DEF CheckIn, CancelRegistration, CloseEdition
<1>2. RegistrationsOK' /\ \A q \in Registrations : Admissible(q)' => Admissible(q)
  BY DEF CheckIn, CancelRegistration, CloseEdition, IInv, TypeOK, RegistrationsOK, Admissible
<1>3. ManifestsOK' /\ Bounded' /\ OneIssued' /\ LeftOutForGood'
  BY <1>1, <1>2, ManifestsKept
<1>4. DevicesOK' /\ LogPrefix'
  BY <1>1 DEF IInv, TypeOK, DevicesOK, LogPrefix, deviceVars
<1>5. ScansNameRows' /\ OutcomesOfScans'
  BY <1>1 DEF IInv, ScansNameRows, OutcomesOfScans, deviceVars
<1>6. OneArrival'
  <2>1. \A q \in Registrations : ArrivalScans(q)' = ArrivalScans(q)
    BY <1>1 DEF ArrivalScans, deviceVars
  <2>2. ASSUME NEW r \in Registrations, CheckIn(r) PROVE OneArrival'
    BY <2>1, <2>2 DEF CheckIn, IInv, OneArrival, TypeOK, RegistrationsOK
  <2>3. ASSUME NEW r \in Registrations, CancelRegistration(r) PROVE OneArrival'
    BY <2>1, <2>3 DEF CancelRegistration, IInv, OneArrival, TypeOK, RegistrationsOK
  <2>4. CASE CloseEdition
    BY <2>1, <2>4 DEF CloseEdition, IInv, OneArrival
  <2> QED
    BY <2>2, <2>3, <2>4
<1>7. TypeOK'
  BY <1>2, <1>3, <1>4 DEF OneIssued, TypeOK, OnePerRegistration, Presentable
<1> QED
  BY <1>3, <1>4, <1>5, <1>6, <1>7 DEF IInv

-----------------------------------------------------------------------------
(* The theorems *)

\* Every step keeps the inductive invariant.
LEMMA NextIInv == IInv /\ [Next]_vars => IInv'
<1> SUFFICES ASSUME IInv, [Next]_vars PROVE IInv'
  OBVIOUS
<1>1. CASE UNCHANGED vars
  <2>1. UNCHANGED <<registrationVars, credentials, manifests, generating, deviceVars>>
    BY <1>1 DEF vars
  <2>2. ManifestsOK' /\ Bounded' /\ OneIssued' /\ LeftOutForGood'
    BY <2>1, ManifestsKept DEF registrationVars, Admissible
  <2>3. ScansNameRows' /\ OutcomesOfScans' /\ OneArrival'
    BY <2>1, ManifestsKeepScans DEF registrationVars, deviceVars
  <2>4. RegistrationsOK' /\ DevicesOK' /\ LogPrefix'
    BY <2>1, OthersKept
  <2> QED
    BY <2>2, <2>3, <2>4 DEF IInv, OneIssued, TypeOK, OnePerRegistration, Presentable
<1>2. CASE \/ \E r \in Registrations : IssueCredential(r) \/ RestrictAttendance(r)
           \/ \E c \in DOMAIN credentials : RevokeCredential(c)
  BY <1>2, IssueKeeps, RevokeKeeps
<1>3. CASE BeginManifest
  BY <1>3, BeginStep
<1>4. CASE \E g \in generating : InsertManifest(g) \/ ManifestRefused(g)
  BY <1>4, InsertStep, RefusedStep
<1>5. CASE \E d \in Devices : \E s \in Scans : Scan(d, s)
  BY <1>5, ScanStep
<1>6. CASE \E d \in Devices : \E n \in 1 .. MaxScans : Reconcile(d, n)
  BY <1>6, ReconcileStep
<1>7. CASE \E d \in Devices :
              OpenDeviceForm(d) \/ \E enable \in BOOLEAN : SaveDeviceForm(d, enable)
  BY <1>7, FormStep
<1>8. CASE CloseEdition \/ \E r \in Registrations : CheckIn(r) \/ CancelRegistration(r)
  BY <1>8, RegistrationStep
<1> QED
  BY <1>1, <1>2, <1>3, <1>4, <1>5, <1>6, <1>7, <1>8 DEF Next

\* The inductive invariant holds in every behaviour.
LEMMA Inductive == Spec => []IInv
BY InitIInv, NextIInv, PTL DEF Spec

\* The rows keep their types, and a registration never has two credentials
\* that could be presented, nor two in one manifest.
THEOREM TypeCorrect == Spec => []TypeOK
<1>1. IInv => TypeOK
  BY DEF IInv
<1> QED
  BY <1>1, Inductive, PTL

\* A registration arrives once: whatever desk and devices do at the same time
\* and however often a scan is uploaded, who is checked in has exactly one
\* record of the desk or of one device.
THEOREM RegistrationArrivesOnce == Spec => []ArrivesOnce
<1>1. IInv => ArrivesOnce
  <2> SUFFICES ASSUME IInv, NEW r \in Registrations
               PROVE  Cardinality(ArrivalScans(r)) + (IF r \in desk THEN 1 ELSE 0)
                        = IF state[r] = "checked_in" THEN 1 ELSE 0
    BY DEF ArrivesOnce
  <2>1. ArrivalScans(r) = {} => Cardinality(ArrivalScans(r)) = 0
    BY FS_EmptySet
  <2>2. (\E x : ArrivalScans(r) = {x}) => Cardinality(ArrivalScans(r)) = 1
    BY FS_Singleton
  <2>3. CASE state[r] = "checked_in" /\ r \in desk /\ ArrivalScans(r) = {}
    BY <2>1, <2>3
  <2>4. CASE state[r] = "checked_in" /\ r \notin desk /\ \E x : ArrivalScans(r) = {x}
    BY <2>2, <2>4
  <2>5. CASE state[r] # "checked_in" /\ r \notin desk /\ ArrivalScans(r) = {}
    BY <2>1, <2>5
  <2> QED
    BY <2>3, <2>4, <2>5 DEF IInv, OneArrival
<1> QED
  BY <1>1, Inductive, PTL

\* The history of a device has no gap, whatever uploads are lost, repeated or
\* out of order, and whatever a form of the administration overwrites.
THEOREM DeviceLogHasNoGap == Spec => []DeviceLogComplete
<1>1. IInv => DeviceLogComplete
  <2> SUFFICES ASSUME IInv, NEW d \in Devices
               PROVE  \E last \in lastSequence[d] .. MaxScans :
                        /\ {n \in 1 .. MaxScans : recorded[d][n] # "none"} = 1 .. last
                        /\ d \notin overwritten => last = lastSequence[d]
    BY DEF DeviceLogComplete
  <2>1. PICK last \in 0 .. MaxScans :
            /\ \A n \in 1 .. MaxScans : recorded[d][n] # "none" <=> n <= last
            /\ lastSequence[d] <= last
            /\ d \notin overwritten => last = lastSequence[d]
    BY DEF IInv, LogPrefix
  <2>2. lastSequence[d] \in 0 .. MaxScans
    BY DEF IInv, TypeOK, DevicesOK
  <2>3. last \in lastSequence[d] .. MaxScans
    BY <2>1, <2>2, AccreditationAssumption
  <2>4. {n \in 1 .. MaxScans : recorded[d][n] # "none"} = 1 .. last
    BY <2>1, AccreditationAssumption
  <2> QED
    BY <2>1, <2>3, <2>4
<1> QED
  BY <1>1, Inductive, PTL

\* A credential that a manifest has left out is in no later manifest, whatever
\* requests overlap, and whether it was revoked by staff, replaced, or revoked
\* by a restriction.
THEOREM RevocationIsPropagated == Spec => []RevocationPropagates
<1>1. IInv => RevocationPropagates
  <2> SUFFICES ASSUME IInv, NEW m \in DOMAIN manifests, NEW n \in DOMAIN manifests, m < n,
                      NEW c \in manifests[n].credentials, c <= manifests[m].known,
                      c \notin manifests[m].credentials
               PROVE  FALSE
    BY DEF RevocationPropagates
  <2>1. c \in DOMAIN credentials
    BY Rows DEF IInv, TypeOK
  <2>2. c \in LeftOut(manifests[m].known, manifests[m].credentials)
    BY <2>1 DEF LeftOut
  <2> QED
    BY <2>2 DEF IInv, LeftOutForGood
<1> QED
  BY <1>1, Inductive, PTL
=============================================================================
