------------------------------- MODULE KeyPair -------------------------------
(***************************************************************************)
(* generate_and_save_keypair (forensics/keys.py): a key pair goes to two    *)
(* files that several callers may try to create at once, while a signer may *)
(* already read the private one.  A caller stands for one call and for the  *)
(* key that call generates.                                                 *)
(***************************************************************************)
EXTENDS Naturals

CONSTANTS
    Callers,   \* calls of generate_and_save_keypair on the same two paths
    OLD,       \* the key of a file that was there before
    NONE,      \* no file
    MaxFaults  \* bound: I/O errors and deaths

ASSUME KeyPairAssumption == /\ OLD \notin Callers
                            /\ NONE \notin [key : Callers \cup {OLD}, whole : BOOLEAN]
                            /\ MaxFaults \in Nat

VARIABLES
    private, public,  \* the two files
    pc,               \* per call: where it is
    signing,          \* keys that a signer has loaded
    faults

vars == <<private, public, pc, signing, faults>>

Half(k) == [key |-> k, whole |-> FALSE]   \* created, not all of it written
Whole(k) == [key |-> k, whole |-> TRUE]

Init == /\ private \in {NONE, Half(OLD), Whole(OLD)}
        /\ public \in {NONE, Half(OLD), Whole(OLD)}
        /\ pc = [c \in Callers |-> "called"]
        /\ signing = {}
        /\ faults = 0

Goto(c, label) == pc' = [pc EXCEPT ![c] = label]

-----------------------------------------------------------------------------
\* Variant: only the private file is looked for.
MayCreatePrivateOnly == private = NONE

\* Neither of the two files exists.
MayCreate == private = NONE /\ public = NONE

CheckTargets(c) ==
    /\ pc[c] = "called"
    /\ Goto(c, IF MayCreate THEN "checked" ELSE "raised")
    /\ UNCHANGED <<private, public, signing, faults>>

\* Variant: the private file is opened without O_EXCL.
CreatesOverwriting == TRUE

\* os.open with O_CREAT and O_EXCL succeeds.
CreatesExclusively == private = NONE

CreatePrivate(c) ==
    /\ pc[c] = "checked"
    /\ IF CreatesExclusively
       THEN private' = Half(c) /\ Goto(c, "writing_private")
       ELSE UNCHANGED private /\ Goto(c, "raised")
    /\ UNCHANGED <<public, signing, faults>>

WritePrivate(c) ==
    /\ pc[c] = "writing_private"
    /\ private' = Whole(c)
    /\ Goto(c, "private_saved")
    /\ UNCHANGED <<public, signing, faults>>

\* write, flush or fsync raises.  save_private_key is outside the try block: what
\* is in the file, a part of the key or all of it, stays.
PrivateFails(c) ==
    /\ pc[c] = "writing_private" /\ faults < MaxFaults
    /\ private' \in {Half(c), Whole(c)}
    /\ Goto(c, "raised")
    /\ faults' = faults + 1
    /\ UNCHANGED <<public, signing>>

\* open("xb") of the public file; FileExistsError is caught like any other error.
CreatePublic(c) ==
    /\ pc[c] = "private_saved"
    /\ IF public = NONE
       THEN public' = Half(c) /\ Goto(c, "writing_public")
       ELSE UNCHANGED public /\ Goto(c, "cleanup")
    /\ UNCHANGED <<private, signing, faults>>

WritePublic(c) ==
    /\ pc[c] = "writing_public"
    /\ public' = Whole(c)
    /\ Goto(c, "returned")
    /\ UNCHANGED <<private, signing, faults>>

\* The public file is left as it is, and blocks every later call.
PublicFails(c) ==
    /\ pc[c] \in {"private_saved", "writing_public"} /\ faults < MaxFaults
    /\ public' \in IF pc[c] = "writing_public" THEN {Half(c), Whole(c)} ELSE {public}
    /\ Goto(c, "cleanup")
    /\ faults' = faults + 1
    /\ UNCHANGED <<private, signing>>

UnlinkPrivate(c) ==
    /\ pc[c] = "cleanup"
    /\ private' = NONE
    /\ Goto(c, "raised")
    /\ UNCHANGED <<public, signing, faults>>

Ended(c) == pc[c] \in {"returned", "raised", "dead"}

Die(c) ==
    /\ ~ Ended(c) /\ faults < MaxFaults
    /\ Goto(c, "dead")
    /\ faults' = faults + 1
    /\ UNCHANGED <<private, public, signing>>

\* load_private_key by a logger: a file that is not complete does not parse.
LoadPrivateKey ==
    /\ private # NONE /\ private.whole
    /\ signing' = signing \cup {private.key}
    /\ UNCHANGED <<private, public, pc, faults>>

Next == \/ \E c \in Callers :
             \/ CheckTargets(c) \/ CreatePrivate(c) \/ WritePrivate(c)
             \/ PrivateFails(c) \/ CreatePublic(c) \/ WritePublic(c)
             \/ PublicFails(c) \/ UnlinkPrivate(c) \/ Die(c)
        \/ LoadPrivateKey

Spec == Init /\ [][Next]_vars

-----------------------------------------------------------------------------
(* Properties *)

\* A pair that a call returned stays on disk, both halves of it, whatever the
\* calls that passed the existence check at the same time do, fail at or clean up
\* (keys.py:89-98 and 101-105).  In particular at most one call returns.
ReturnedPairStays ==
    \A c \in Callers : pc[c] = "returned" => private = Whole(c) /\ public = Whole(c)

\* Nobody signs with a key that has no public half: when no I/O error or death
\* happened, a call whose private key a logger has loaded ends with its public key
\* published, also when another pair, or half of one, was there before
\* (keys.py:89-97: the existence check covers both files before either is made).
SignerHasPublicHalf ==
    faults = 0 => \A c \in Callers \cap signing : Ended(c) => public = Whole(c)

\* No single failure leaves the two halves of different keys behind.  It takes
\* two: a public key whose fsync failed stays while its private key is removed,
\* and a call that had passed the existence check before dies after writing its
\* own private key (keys.py:52-55, 89 and 95-96).
MixedPairNeedsTwoFaults ==
    /\ faults < 2 /\ \A c \in Callers : Ended(c)
    /\ private # NONE /\ public # NONE
    => private.key = public.key
=============================================================================
