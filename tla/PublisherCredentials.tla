------------------------ MODULE PublisherCredentials ------------------------
(***************************************************************************)
(* Credential profiles, their encrypted secrets, the publishers that use   *)
(* them, and the way a changed secret reaches the running publisher.       *)
(*                                                                         *)
(* credential/, publisher/secret.go, secret_cipher.go, secret_rotation.go, *)
(* publisher/postgres/, the part of publisher/service.go and manager.go    *)
(* that reads them.                                                        *)
(*                                                                         *)
(* An administrator's request is a few transactions; a reconciliation of   *)
(* the manager (see PublisherManager for the rest of it) interleaves with  *)
(* them, and opens a transport with the secrets it finds, one read each.   *)
(* The material of a secret is a number given once; the kind of a secret   *)
(* follows from its slot.                                                  *)
(***************************************************************************)
EXTENDS Integers, Sequences

CONSTANTS
    Profiles, ProfileType,            \* the credential profiles, "mqtt" or "http" each
    Publishers, PublisherType,        \* the publishers, "mqtt" or "http_server" each
    SecretSlots(_),                   \* the slots of a type of profile
    Needs(_),                         \* the sequence of slots that the transport of a publisher reads
    Keys,                             \* master keys the process may be started with
    Administrators,
    RotationBuffer,                   \* defaultSecretRotationBuffer
    MaxMaterial, MaxAsks, MaxBoots,   \* bounds
    None

AllSlots == UNION {SecretSlots(t) : t \in {"mqtt", "http"}}

Secret == [material : 1..MaxMaterial, key : Keys, revision : Nat]
PublisherRow == [credential : Profiles \cup {None}, enabled : BOOLEAN, revision : Nat]
Opened == [revision : Nat, secrets : Seq(1..MaxMaterial), moved : Nat]

ASSUME CredentialsAssumption ==
    /\ \A f \in Profiles : ProfileType[f] \in {"mqtt", "http"}
    /\ \A p \in Publishers : PublisherType[p] \in {"mqtt", "http_server"}
    /\ \A p \in Publishers : Needs(PublisherType[p]) \in Seq(AllSlots)
    /\ None \notin Profiles /\ None \notin Nat /\ None \notin PublisherRow
    /\ RotationBuffer \in Nat \ {0} /\ MaxMaterial \in Nat \ {0} /\ MaxAsks \in Nat /\ MaxBoots \in Nat

VARIABLES
    profile,     \* credential_profiles: None or the secret_revision
    secret,      \* credential_secrets: None or a row, per profile and slot
    publisher,   \* data_publishers: None or a row
    asked,       \* the request of each caller
    asks,        \* begun so far
    material,    \* secrets made so far
    key,         \* the key of the running process
    boots,       \* starts of the process so far
    events,      \* the manager's subscription of rotations: None after a lag
    pass,        \* the reconciliation under way
    opened,      \* the manager's job of each publisher
    moved,       \* history: how often each publisher was created, deleted or given another profile
    settled      \* history: nothing was written since the listing of the last reconciliation

credentialVars == <<profile, secret, publisher, asked, asks, material, key, boots, events, pass, opened,
                  moved, settled>>
store == <<profile, secret, publisher>>
process == <<key, boots, events, pass, opened>>

NotAsked == [at |-> "none", f |-> None, s |-> None, p |-> None, r |-> None, m |-> 0]
NoPass == [at |-> "none", seen |-> [p \in Publishers |-> None], todo |-> {}, p |-> None, got |-> <<>>,
           moved |-> [p \in Publishers |-> 0]]
NoSecrets == <<>>   \* the secrets of a job that ended with an error

CredentialsTypeOK ==
    /\ profile \in [Profiles -> Nat \cup {None}]
    /\ secret \in [Profiles -> [AllSlots -> Secret \cup {None}]]
    /\ \A f \in Profiles, s \in AllSlots :
          secret[f][s] # None => profile[f] # None /\ s \in SecretSlots(ProfileType[f])
    /\ publisher \in [Publishers -> PublisherRow \cup {None}]
    /\ opened \in [Publishers -> Opened \cup {None}]
    /\ material \in 1..MaxMaterial /\ key \in Keys /\ boots \in 0..MaxBoots
    /\ events \in 0..RotationBuffer \cup {None}

(* A database in use: every profile has its secrets, a publisher exists or not; the *)
(* process is about to reconcile for the first time.                                *)
CredentialsInit ==
    /\ profile = [f \in Profiles |-> 1]
    /\ key \in Keys
    /\ secret = [f \in Profiles |-> [s \in AllSlots |->
                   IF s \in SecretSlots(ProfileType[f]) THEN [material |-> 1, key |-> key, revision |-> 1]
                   ELSE None]]
    /\ publisher \in [Publishers -> {None} \cup [credential : {None} \cup Profiles, enabled : BOOLEAN,
                                            revision : {1}]]
    /\ asked = [c \in Administrators |-> NotAsked] /\ asks = 0
    /\ material = 1 /\ boots = 0
    /\ events = 0 /\ pass = NoPass
    /\ opened = [p \in Publishers |-> None]
    /\ moved = [p \in Publishers |-> 0] /\ settled = FALSE

AsksFor(c, r) ==
    /\ asked[c].at = "none" /\ asks < MaxAsks
    /\ asks' = asks + 1
    /\ asked' = [asked EXCEPT ![c] = r]
Replied(c) == asked' = [asked EXCEPT ![c] = NotAsked]

----------------------------------------------------------------------------
(* Profiles. *)

CreateProfile(c, f) ==
    /\ profile[f] = None /\ asked[c].at = "none" /\ asks < MaxAsks
    /\ asks' = asks + 1
    /\ profile' = [profile EXCEPT ![f] = 0]
    /\ settled' = FALSE
    /\ UNCHANGED <<secret, publisher, asked, material, process, moved>>

(* The foreign key of data_publishers restricts, that of the secrets cascades. *)
DeleteProfile(c, f) ==
    /\ profile[f] # None /\ asked[c].at = "none" /\ asks < MaxAsks
    /\ asks' = asks + 1
    /\ \A p \in Publishers : publisher[p] # None => publisher[p].credential # f
    /\ profile' = [profile EXCEPT ![f] = None]
    /\ secret' = [secret EXCEPT ![f] = [s \in AllSlots |-> None]]
    /\ settled' = FALSE
    /\ UNCHANGED <<publisher, asked, material, process, moved>>

----------------------------------------------------------------------------
(* Secrets. *)

(* PutSecret: the profile is read, the slot must be one of its type, and the material is *)
(* sealed for this profile, slot and kind.                                               *)
PutSecret(c, f, s) ==
    /\ profile[f] # None /\ s \in SecretSlots(ProfileType[f]) /\ material < MaxMaterial
    /\ material' = material + 1
    /\ AsksFor(c, [NotAsked EXCEPT !.at = "put", !.f = f, !.s = s, !.m = material + 1])
    /\ UNCHANGED <<store, process, moved, settled>>

DeleteSecret(c, f, s) ==
    /\ profile[f] # None /\ s \in SecretSlots(ProfileType[f])
    /\ AsksFor(c, [NotAsked EXCEPT !.at = "drop", !.f = f, !.s = s])
    /\ UNCHANGED <<store, material, process, moved, settled>>

(* Faulty variant: the publishers of the profile are not told. *)
ProfileChangedOnly(f) ==
    /\ profile' = [profile EXCEPT ![f] = @ + 1]
    /\ UNCHANGED publisher

(* The revisions of the profile and of every publisher that uses it. *)
ProfileChanged(f) ==
    /\ profile' = [profile EXCEPT ![f] = @ + 1]
    /\ publisher' = [p \in Publishers |->
                 IF publisher[p] # None /\ publisher[p].credential = f THEN [publisher[p] EXCEPT !.revision = @ + 1]
                 ELSE publisher[p]]

(* Upsert, one transaction; refused when the profile is gone. *)
Upsert(c) ==
    /\ asked[c].at = "put"
    /\ LET f == asked[c].f   s == asked[c].s
           revision == IF secret[f][s] = None THEN 1 ELSE secret[f][s].revision + 1
       IN IF profile[f] = None
            THEN Replied(c) /\ UNCHANGED <<store, settled>>
            ELSE /\ secret' = [secret EXCEPT ![f][s] =
                                 [material |-> asked[c].m, key |-> key, revision |-> revision]]
                 /\ ProfileChanged(f)
                 /\ asked' = [asked EXCEPT ![c].at = "tell"]
                 /\ settled' = FALSE
    /\ UNCHANGED <<asks, material, process, moved>>

DropSecret(c) ==
    /\ asked[c].at = "drop"
    /\ LET f == asked[c].f   s == asked[c].s
       IN IF secret[f][s] = None
            THEN Replied(c) /\ UNCHANGED <<store, settled>>
            ELSE /\ secret' = [secret EXCEPT ![f][s] = None]
                 /\ ProfileChanged(f)
                 /\ asked' = [asked EXCEPT ![c].at = "tell"]
                 /\ settled' = FALSE
    /\ UNCHANGED <<asks, material, process, moved>>

(* PublishSecretRotation, after the commit: a subscriber whose buffer is full is closed. *)
PublishSecretRotation(c) ==
    /\ asked[c].at = "tell"
    /\ events' = IF events = None \/ events = RotationBuffer THEN None ELSE events + 1
    /\ Replied(c)
    /\ UNCHANGED <<store, asks, material, key, boots, pass, opened, moved, settled>>

----------------------------------------------------------------------------
(* Publishers. *)

(* ValidateCredential: the profile exists and its type fits. *)
Compatible(p, f) ==
    f # None => /\ profile[f] # None
                /\ (PublisherType[p] = "mqtt") = (ProfileType[f] = "mqtt")

(* Create and Update of the service, up to the write: the entity is read, changed, checked. *)
Validated(c, p, f, enabled) ==
    /\ Compatible(p, f)
    /\ AsksFor(c, [NotAsked EXCEPT !.at = IF publisher[p] = None THEN "insert" ELSE "update", !.p = p,
                                   !.r = [credential |-> f, enabled |-> enabled]])
    /\ UNCHANGED <<store, material, process, moved, settled>>

(* An identifier is never given twice. *)
CreatePublisher(c, p, f, enabled) ==
    /\ publisher[p] = None /\ moved[p] = 0 /\ \A d \in Administrators : asked[d].p # p
    /\ Validated(c, p, f, enabled)

(* The request names a credential or whether the publisher is enabled, or both; disabling *)
(* alone checks nothing and writes the row as it was read.                                *)
UpdatePublisher(c, p, f, enabled) ==
    /\ publisher[p] # None
    /\ \/ Validated(c, p, f, enabled)
       \/ /\ f = publisher[p].credential /\ ~enabled
          /\ AsksFor(c, [NotAsked EXCEPT !.at = "update", !.p = p,
                                         !.r = [credential |-> f, enabled |-> FALSE]])
          /\ UNCHANGED <<store, material, process, moved, settled>>

(* The write: refused by the foreign key, or when an update finds no row; the revision *)
(* is not among the columns it writes.                                                 *)
SavePublisher(c) ==
    /\ asked[c].at \in {"insert", "update"}
    /\ LET p == asked[c].p   f == asked[c].r.credential
           refused == \/ f # None /\ profile[f] = None
                      \/ (asked[c].at = "insert") # (publisher[p] = None)
           revision == IF publisher[p] = None THEN 0 ELSE publisher[p].revision
       IN IF refused
            THEN UNCHANGED <<publisher, moved, settled>>
            ELSE /\ publisher' = [publisher EXCEPT ![p] = [credential |-> f, enabled |-> asked[c].r.enabled,
                                               revision |-> revision]]
                 /\ moved' = IF publisher[p] = None \/ publisher[p].credential # f
                               THEN [moved EXCEPT ![p] = @ + 1] ELSE moved
                 /\ settled' = FALSE
    /\ Replied(c)
    /\ UNCHANGED <<profile, secret, asks, material, process>>

DeletePublisher(c, p) ==
    /\ publisher[p] # None /\ asked[c].at = "none" /\ asks < MaxAsks
    /\ asks' = asks + 1
    /\ publisher' = [publisher EXCEPT ![p] = None]
    /\ moved' = [moved EXCEPT ![p] = @ + 1]
    /\ settled' = FALSE
    /\ UNCHANGED <<profile, secret, asked, material, process>>

----------------------------------------------------------------------------
(* The manager. *)

(* publisherRuntimeFingerprint: type, configuration and sources are fixed here. *)
publisherRuntimeFingerprint(r) == [revision |-> r.revision]

(* A rotation was received, the ticker ticks, or a handler saved a publisher. *)
Reconcile(rotation) ==
    /\ pass.at = "none"
    /\ IF rotation THEN events # None /\ events > 0 /\ events' = events - 1 ELSE UNCHANGED events
    /\ pass' = [NoPass EXCEPT !.at = "listed", !.moved = moved,
                              !.seen = [p \in Publishers |-> IF publisher[p] # None /\ publisher[p].enabled THEN publisher[p]
                                                             ELSE None]]
    /\ settled' = TRUE
    /\ UNCHANGED <<store, asked, asks, material, key, boots, opened, moved>>

(* Jobs that are not wanted, or wanted with another fingerprint, end. *)
StopJobs ==
    /\ pass.at = "listed"
    /\ LET keep == {p \in Publishers : /\ opened[p] # None /\ pass.seen[p] # None
                                       /\ publisherRuntimeFingerprint(opened[p])
                                            = publisherRuntimeFingerprint(pass.seen[p])}
       IN /\ opened' = [p \in Publishers |-> IF p \in keep THEN opened[p] ELSE None]
          /\ pass' = [pass EXCEPT !.at = "start", !.todo = {p \in Publishers \ keep : pass.seen[p] # None}]
    /\ UNCHANGED <<store, asked, asks, material, key, boots, events, moved, settled>>

BeginPublisher(p) ==
    /\ pass.at = "start" /\ p \in pass.todo
    /\ pass' = [pass EXCEPT !.at = "resolve", !.todo = @ \ {p}, !.p = p, !.got = <<>>]
    /\ UNCHANGED <<store, asked, asks, material, key, boots, events, opened, moved, settled>>

(* Resolve: the publisher's row names the profile, the row of the secret is read and opened *)
(* with the key it was sealed with.                                                         *)
Resolve(p, s) ==
    LET f == IF publisher[p] = None THEN None ELSE publisher[p].credential
    IN IF f = None \/ secret[f][s] = None \/ secret[f][s].key # key THEN 0 ELSE secret[f][s].material

(* The job runs with the secrets that were read, or is kept as one that failed. *)
Stores(secrets) ==
    /\ opened' = [opened EXCEPT ![pass.p] = [revision |-> pass.seen[pass.p].revision, secrets |-> secrets,
                                       moved |-> pass.moved[pass.p]]]
    /\ pass' = [pass EXCEPT !.at = "start", !.p = None, !.got = <<>>]

ResolveNext ==
    /\ pass.at = "resolve"
    /\ LET needs == Needs(PublisherType[pass.p])
           n == Len(pass.got) + 1
       IN IF n > Len(needs) THEN Stores(pass.got)
          ELSE LET m == Resolve(pass.p, needs[n])
               IN IF m = 0 THEN Stores(NoSecrets)
                  ELSE /\ pass' = [pass EXCEPT !.got = Append(@, m)]
                       /\ UNCHANGED opened
    /\ UNCHANGED <<store, asked, asks, material, key, boots, events, moved, settled>>

PassEnds ==
    /\ pass.at = "start" /\ pass.todo = {}
    /\ pass' = NoPass
    /\ UNCHANGED <<store, asked, asks, material, key, boots, events, opened, moved, settled>>

(* The process ends at any point, and is started again, with the same key or another. *)
Boot(k) ==
    /\ boots < MaxBoots /\ boots' = boots + 1
    /\ key' = k /\ events' = 0 /\ pass' = NoPass
    /\ opened' = [p \in Publishers |-> None]
    /\ asked' = [c \in Administrators |-> NotAsked]
    /\ settled' = FALSE
    /\ UNCHANGED <<store, asks, material, moved>>

CredentialsNext ==
    \/ \E c \in Administrators, f \in Profiles :
         \/ CreateProfile(c, f) \/ DeleteProfile(c, f)
         \/ \E s \in AllSlots : PutSecret(c, f, s) \/ DeleteSecret(c, f, s)
    \/ \E c \in Administrators, p \in Publishers :
         \/ \E f \in Profiles \cup {None}, e \in BOOLEAN :
              CreatePublisher(c, p, f, e) \/ UpdatePublisher(c, p, f, e)
         \/ DeletePublisher(c, p)
    \/ \E c \in Administrators : Upsert(c) \/ DropSecret(c) \/ PublishSecretRotation(c) \/ SavePublisher(c)
    \/ \E rotation \in BOOLEAN : Reconcile(rotation)
    \/ StopJobs \/ (\E p \in Publishers : BeginPublisher(p)) \/ ResolveNext \/ PassEnds
    \/ \E k \in Keys : Boot(k)

CredentialsSpec == CredentialsInit /\ [][CredentialsNext]_credentialVars

----------------------------------------------------------------------------
(* The secrets a publisher would be opened with now. *)
Stored(p) ==
    LET needs == Needs(PublisherType[p])
        now == [n \in DOMAIN needs |-> Resolve(p, needs[n])]
    IN IF \E n \in DOMAIN now : now[n] = 0 THEN NoSecrets ELSE now

(* When nothing was written since the listing of the last reconciliation,  *)
(* every publisher that is still with the profile it was listed with runs  *)
(* with the secrets stored there, all of them of one moment, or has failed *)
(* for want of one: whatever was rotated while they were read, however     *)
(* many events were lost.                                                  *)
RotationApplied ==
    (pass.at = "none" /\ settled) =>
        \A p \in Publishers :
            (opened[p] # None /\ opened[p].moved = moved[p]) => opened[p].secrets = Stored(p)

(* The same of every publisher: the one it was moved to, "the selected     *)
(* Credential Profile", is where its secrets come from.                    *)
CredentialApplied ==
    (pass.at = "none" /\ settled) => \A p \in Publishers : opened[p] # None => opened[p].secrets = Stored(p)
=============================================================================
