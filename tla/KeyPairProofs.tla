---------------------------- MODULE KeyPairProofs ----------------------------
(* Theorems about KeyPair, for every set of concurrent calls and every number *)
(* of I/O errors and deaths.                                                 *)
EXTENDS KeyPair, TLAPS

-----------------------------------------------------------------------------
(* The inductive invariant *)

Labels == {"called", "checked", "writing_private", "private_saved", "writing_public",
           "cleanup", "returned", "raised", "dead"}

Files == [key : Callers \cup {OLD}, whole : BOOLEAN]

\* Every variable has its type.
TypeOK == /\ private \in Files \cup {NONE}
          /\ public \in Files \cup {NONE}
          /\ pc \in [Callers -> Labels]
          /\ signing \subseteq Callers \cup {OLD}
          /\ faults \in Nat

\* A call between its O_EXCL open and its end has its own private key on disk.
PrivateOwned ==
    /\ \A c \in Callers : pc[c] = "writing_private" => private = Half(c)
    /\ \A c \in Callers :
          pc[c] \in {"private_saved", "writing_public", "cleanup", "returned"} =>
              private = Whole(c)

\* So has a call that created the public file.
PublicOwned ==
    /\ \A c \in Callers : pc[c] = "writing_public" => public = Half(c)
    /\ \A c \in Callers : pc[c] = "returned" => public = Whole(c)

\* As long as nothing failed, no private key is ever removed, and so the existence
\* check still holds for whoever wins the O_EXCL open.
NothingFailed ==
    faults = 0 =>
        /\ \A c \in Callers : pc[c] \notin {"cleanup", "dead"}
        /\ (\E c \in Callers : pc[c] = "checked") /\ private = NONE => public = NONE
        /\ \A c \in Callers : pc[c] \in {"writing_private", "private_saved"} => public = NONE

\* As long as nothing failed, the call whose key is on disk or loaded by a signer
\* is one that will publish it.
KeyHasCall ==
    faults = 0 =>
        \A c \in Callers :
            /\ private # NONE /\ private.key = c =>
                  pc[c] \in {"writing_private", "private_saved", "writing_public", "returned"}
            /\ c \in signing => pc[c] \in {"private_saved", "writing_public", "returned"}

\* Nothing is published next to a private key that was there before.
OldStaysAlone ==
    private # NONE /\ public # NONE /\ private.key = OLD => public.key = OLD

\* After one failure the two halves may differ only while the call that owns the
\* private one is still on its way to remove it.
MixedIsPassing ==
    faults < 2 /\ private # NONE /\ public # NONE /\ private.key # public.key =>
        \E c \in Callers : /\ private.key = c
                           /\ pc[c] \in {"writing_private", "private_saved", "cleanup"}

IInv == /\ TypeOK /\ PrivateOwned /\ PublicOwned
        /\ NothingFailed /\ KeyHasCall /\ OldStaysAlone /\ MixedIsPassing

-----------------------------------------------------------------------------
(* Lemmas *)

\* A file holds the key it was made from, complete or not, and is not "no file".
LEMMA FileFacts ==
    ASSUME NEW k \in Callers \cup {OLD}
    PROVE  /\ Half(k) \in Files /\ Whole(k) \in Files
           /\ Half(k) # NONE /\ Whole(k) # NONE
           /\ Half(k).key = k /\ Whole(k).key = k
           /\ ~ Half(k).whole /\ Whole(k).whole
           /\ Half(k) # Whole(k)
<1>1. Half(k) \in Files /\ Whole(k) \in Files
  BY DEF Files, Half, Whole
<1>2. Half(k).key = k /\ Whole(k).key = k /\ ~ Half(k).whole /\ Whole(k).whole
  BY DEF Half, Whole
<1> QED BY <1>1, <1>2, KeyPairAssumption DEF Files

\* Two files are the same only if they hold the same key.
LEMMA FilesDiffer ==
    ASSUME NEW j \in Callers \cup {OLD}, NEW k \in Callers \cup {OLD}, j # k
    PROVE  Half(j) # Half(k) /\ Half(j) # Whole(k) /\ Whole(j) # Half(k) /\ Whole(j) # Whole(k)
  BY FileFacts

\* The half-written file of one key is never the complete one of any.
LEMMA HalfIsNotWhole ==
    ASSUME NEW j \in Callers \cup {OLD}, NEW k \in Callers \cup {OLD}
    PROVE  Half(j) # Whole(k)
  BY FileFacts

-----------------------------------------------------------------------------
(* The invariant is inductive: one lemma per action *)

\* Whatever was on the disk before, with no call under way the invariant holds.
LEMMA InitIInv == Init => IInv
  BY KeyPairAssumption, FileFacts
  DEF Init, IInv, TypeOK, PrivateOwned, PublicOwned, NothingFailed, KeyHasCall,
      OldStaysAlone, MixedIsPassing, Labels

\* The existence check reads both files.
LEMMA CheckTargetsInv ==
    ASSUME IInv, NEW c \in Callers, CheckTargets(c)
    PROVE  IInv'
<1> USE KeyPairAssumption, FileFacts, FilesDiffer, HalfIsNotWhole
    DEF CheckTargets, MayCreate, Goto
<1>1. TypeOK'
  BY DEF IInv, TypeOK, Labels
<1>2. PrivateOwned'
  BY DEF IInv, TypeOK, PrivateOwned, Labels
<1>3. PublicOwned'
  BY DEF IInv, TypeOK, PublicOwned, Labels
<1>4. NothingFailed'
  BY DEF IInv, TypeOK, NothingFailed, Labels
<1>5. KeyHasCall'
  BY DEF IInv, TypeOK, KeyHasCall, Labels
<1>6. OldStaysAlone'
  BY DEF IInv, TypeOK, OldStaysAlone, Labels
<1>7. MixedIsPassing'
  BY DEF IInv, TypeOK, MixedIsPassing, Labels
<1> QED BY <1>1, <1>2, <1>3, <1>4, <1>5, <1>6, <1>7 DEF IInv

\* The exclusive open of the private file (keys.py:92 and 101-105).
LEMMA CreatePrivateInv ==
    ASSUME IInv, NEW c \in Callers, CreatePrivate(c)
    PROVE  IInv'
<1> USE KeyPairAssumption, FileFacts, FilesDiffer, HalfIsNotWhole
    DEF CreatePrivate, CreatesExclusively, Goto
<1>1. TypeOK'
  BY DEF IInv, TypeOK, Labels
<1>2. PrivateOwned'
  BY DEF IInv, TypeOK, PrivateOwned, Labels
<1>3. PublicOwned'
  BY DEF IInv, TypeOK, PublicOwned, Labels
<1>4. NothingFailed'
  BY DEF IInv, TypeOK, NothingFailed, Labels
<1>5. KeyHasCall'
  BY DEF IInv, TypeOK, KeyHasCall, Labels
<1>6. OldStaysAlone'
  BY DEF IInv, TypeOK, OldStaysAlone, Labels
<1>7. MixedIsPassing'
  BY DEF IInv, TypeOK, MixedIsPassing, Labels
<1> QED BY <1>1, <1>2, <1>3, <1>4, <1>5, <1>6, <1>7 DEF IInv

\* The private key is written and synced.
LEMMA WritePrivateInv ==
    ASSUME IInv, NEW c \in Callers, WritePrivate(c)
    PROVE  IInv'
<1> USE KeyPairAssumption, FileFacts, FilesDiffer, HalfIsNotWhole
    DEF WritePrivate, Goto
<1>1. TypeOK'
  BY DEF IInv, TypeOK, Labels
<1>2. PrivateOwned'
  BY DEF IInv, TypeOK, PrivateOwned, Labels
<1>3. PublicOwned'
  BY DEF IInv, TypeOK, PublicOwned, Labels
<1>4. NothingFailed'
  BY DEF IInv, TypeOK, NothingFailed, Labels
<1>5. KeyHasCall'
  BY DEF IInv, TypeOK, KeyHasCall, Labels
<1>6. OldStaysAlone'
  BY DEF IInv, TypeOK, OldStaysAlone, Labels
<1>7. MixedIsPassing'
  BY DEF IInv, TypeOK, MixedIsPassing, Labels
<1> QED BY <1>1, <1>2, <1>3, <1>4, <1>5, <1>6, <1>7 DEF IInv

\* save_private_key raises and leaves its file.
LEMMA PrivateFailsInv ==
    ASSUME IInv, NEW c \in Callers, PrivateFails(c)
    PROVE  IInv'
<1> USE KeyPairAssumption, FileFacts, FilesDiffer, HalfIsNotWhole
    DEF PrivateFails, Goto
<1>1. TypeOK'
  BY DEF IInv, TypeOK, Labels
<1>2. PrivateOwned'
  BY DEF IInv, TypeOK, PrivateOwned, Labels
<1>3. PublicOwned'
  BY DEF IInv, TypeOK, PublicOwned, Labels
<1>4. NothingFailed'
  BY DEF IInv, TypeOK, NothingFailed, Labels
<1>5. KeyHasCall'
  BY DEF IInv, TypeOK, KeyHasCall, Labels
<1>6. OldStaysAlone'
  BY DEF IInv, TypeOK, OldStaysAlone, Labels
<1>7. MixedIsPassing'
  BY DEF IInv, TypeOK, PrivateOwned, PublicOwned, NothingFailed, MixedIsPassing, Labels
<1> QED BY <1>1, <1>2, <1>3, <1>4, <1>5, <1>6, <1>7 DEF IInv

\* The exclusive open of the public file.
LEMMA CreatePublicInv ==
    ASSUME IInv, NEW c \in Callers, CreatePublic(c)
    PROVE  IInv'
<1> USE KeyPairAssumption, FileFacts, FilesDiffer, HalfIsNotWhole
    DEF CreatePublic, Goto
<1>1. TypeOK'
  BY DEF IInv, TypeOK, Labels
<1>2. PrivateOwned'
  BY DEF IInv, TypeOK, PrivateOwned, Labels
<1>3. PublicOwned'
  BY DEF IInv, TypeOK, PublicOwned, Labels
<1>4. NothingFailed'
  BY DEF IInv, TypeOK, PrivateOwned, PublicOwned, NothingFailed, Labels
<1>5. KeyHasCall'
  BY DEF IInv, TypeOK, PrivateOwned, PublicOwned, NothingFailed, KeyHasCall, Labels
<1>6. OldStaysAlone'
  BY DEF IInv, TypeOK, PrivateOwned, PublicOwned, OldStaysAlone, Labels
<1>7. MixedIsPassing'
  BY DEF IInv, TypeOK, PrivateOwned, PublicOwned, MixedIsPassing, Labels
<1> QED BY <1>1, <1>2, <1>3, <1>4, <1>5, <1>6, <1>7 DEF IInv

\* The public key is written and the call returns.
LEMMA WritePublicInv ==
    ASSUME IInv, NEW c \in Callers, WritePublic(c)
    PROVE  IInv'
<1> USE KeyPairAssumption, FileFacts, FilesDiffer, HalfIsNotWhole
    DEF WritePublic, Goto
<1>1. TypeOK'
  BY DEF IInv, TypeOK, Labels
<1>2. PrivateOwned'
  BY DEF IInv, TypeOK, PrivateOwned, Labels
<1>3. PublicOwned'
  BY DEF IInv, TypeOK, PublicOwned, Labels
<1>4. NothingFailed'
  BY DEF IInv, TypeOK, PrivateOwned, PublicOwned, NothingFailed, Labels
<1>5. KeyHasCall'
  BY DEF IInv, TypeOK, KeyHasCall, Labels
<1>6. OldStaysAlone'
  BY DEF IInv, TypeOK, PrivateOwned, PublicOwned, OldStaysAlone, Labels
<1>7. MixedIsPassing'
  BY DEF IInv, TypeOK, PrivateOwned, PublicOwned, MixedIsPassing, Labels
<1> QED BY <1>1, <1>2, <1>3, <1>4, <1>5, <1>6, <1>7 DEF IInv

\* An I/O error on the public file.
LEMMA PublicFailsInv ==
    ASSUME IInv, NEW c \in Callers, PublicFails(c)
    PROVE  IInv'
<1> USE KeyPairAssumption, FileFacts, FilesDiffer, HalfIsNotWhole
    DEF PublicFails, Goto
<1>1. TypeOK'
  BY DEF IInv, TypeOK, Labels
<1>2. PrivateOwned'
  BY DEF IInv, TypeOK, PrivateOwned, Labels
<1>3. PublicOwned'
  BY DEF IInv, TypeOK, PublicOwned, Labels
<1>4. NothingFailed'
  BY DEF IInv, TypeOK, NothingFailed, Labels
<1>5. KeyHasCall'
  BY DEF IInv, TypeOK, KeyHasCall, Labels
<1>6. OldStaysAlone'
  BY DEF IInv, TypeOK, PrivateOwned, PublicOwned, OldStaysAlone, Labels
<1>7. MixedIsPassing'
  BY DEF IInv, TypeOK, PrivateOwned, PublicOwned, MixedIsPassing, Labels
<1> QED BY <1>1, <1>2, <1>3, <1>4, <1>5, <1>6, <1>7 DEF IInv

\* The failed call removes the private key it created.
LEMMA UnlinkPrivateInv ==
    ASSUME IInv, NEW c \in Callers, UnlinkPrivate(c)
    PROVE  IInv'
<1> USE KeyPairAssumption, FileFacts, FilesDiffer, HalfIsNotWhole
    DEF UnlinkPrivate, Goto
<1>1. TypeOK'
  BY DEF IInv, TypeOK, Labels
<1>2. PrivateOwned'
  BY DEF IInv, TypeOK, PrivateOwned, Labels
<1>3. PublicOwned'
  BY DEF IInv, TypeOK, PublicOwned, Labels
<1>4. NothingFailed'
  BY DEF IInv, TypeOK, NothingFailed, Labels
<1>5. KeyHasCall'
  BY DEF IInv, TypeOK, KeyHasCall, Labels
<1>6. OldStaysAlone'
  BY DEF IInv, TypeOK, OldStaysAlone, Labels
<1>7. MixedIsPassing'
  BY DEF IInv, TypeOK, MixedIsPassing, Labels
<1> QED BY <1>1, <1>2, <1>3, <1>4, <1>5, <1>6, <1>7 DEF IInv

\* The process dies in the middle of a call.
LEMMA DieInv ==
    ASSUME IInv, NEW c \in Callers, Die(c)
    PROVE  IInv'
<1> USE KeyPairAssumption, FileFacts, FilesDiffer, HalfIsNotWhole
    DEF Die, Ended, Goto
<1>1. TypeOK'
  BY DEF IInv, TypeOK, Labels
<1>2. PrivateOwned'
  BY DEF IInv, TypeOK, PrivateOwned, Labels
<1>3. PublicOwned'
  BY DEF IInv, TypeOK, PublicOwned, Labels
<1>4. NothingFailed'
  BY DEF IInv, TypeOK, NothingFailed, Labels
<1>5. KeyHasCall'
  BY DEF IInv, TypeOK, KeyHasCall, Labels
<1>6. OldStaysAlone'
  BY DEF IInv, TypeOK, OldStaysAlone, Labels
<1>7. MixedIsPassing'
  BY DEF IInv, TypeOK, PrivateOwned, PublicOwned, NothingFailed, MixedIsPassing, Labels
<1> QED BY <1>1, <1>2, <1>3, <1>4, <1>5, <1>6, <1>7 DEF IInv

\* A logger loads the private key that is on the disk (keys.py:59-70).
LEMMA LoadPrivateKeyInv ==
    ASSUME IInv, LoadPrivateKey
    PROVE  IInv'
<1> USE DEF LoadPrivateKey
<1>1. TypeOK' /\ PrivateOwned' /\ PublicOwned' /\ NothingFailed'
  BY DEF IInv, TypeOK, PrivateOwned, PublicOwned, NothingFailed, Files
<1>2. KeyHasCall'
  BY FileFacts DEF IInv, TypeOK, PrivateOwned, KeyHasCall
<1>3. OldStaysAlone' /\ MixedIsPassing'
  BY DEF IInv, OldStaysAlone, MixedIsPassing
<1> QED BY <1>1, <1>2, <1>3 DEF IInv

\* Every step of any call, failure or signer keeps the invariant.
LEMMA NextIInv == IInv /\ [Next]_vars => IInv'
<1> SUFFICES ASSUME IInv, [Next]_vars PROVE IInv'
  OBVIOUS
<1>1. CASE UNCHANGED vars
  BY <1>1 DEF vars, IInv, TypeOK, PrivateOwned, PublicOwned, NothingFailed, KeyHasCall,
              OldStaysAlone, MixedIsPassing
<1>2. CASE LoadPrivateKey
  BY <1>2, LoadPrivateKeyInv
<1>3. ASSUME NEW c \in Callers,
             \/ CheckTargets(c) \/ CreatePrivate(c) \/ WritePrivate(c)
             \/ PrivateFails(c) \/ CreatePublic(c) \/ WritePublic(c)
             \/ PublicFails(c) \/ UnlinkPrivate(c) \/ Die(c)
      PROVE  IInv'
  BY <1>3, CheckTargetsInv, CreatePrivateInv, WritePrivateInv, PrivateFailsInv,
     CreatePublicInv, WritePublicInv, PublicFailsInv, UnlinkPrivateInv, DieInv
<1> QED BY <1>1, <1>2, <1>3 DEF Next

\* The invariant holds in every reachable state.
LEMMA AlwaysIInv == Spec => []IInv
  BY InitIInv, NextIInv, PTL DEF Spec

-----------------------------------------------------------------------------
(* Theorems *)

\* A pair that generate_and_save_keypair returned stays on disk, both halves of
\* it, for any number of concurrent calls and failures (keys.py:89-105).
THEOREM ReturnedPairIsKept == Spec => []ReturnedPairStays
<1>1. IInv => ReturnedPairStays
  BY DEF IInv, PrivateOwned, PublicOwned, ReturnedPairStays
<1> QED BY <1>1, AlwaysIInv, PTL

\* Without an I/O error or a death, a call whose private key a logger has loaded
\* ends with its public key published (keys.py:89-97).
THEOREM SignerIsPublished == Spec => []SignerHasPublicHalf
<1>1. IInv => SignerHasPublicHalf
  BY DEF IInv, TypeOK, PublicOwned, KeyHasCall, SignerHasPublicHalf, Ended
<1> QED BY <1>1, AlwaysIInv, PTL

\* No single I/O error or death leaves the halves of two different keys behind,
\* however many calls passed the existence check together (keys.py:52-55 and 89-96).
THEOREM OneFaultLeavesNoMixedPair == Spec => []MixedPairNeedsTwoFaults
<1>1. IInv => MixedPairNeedsTwoFaults
  BY DEF IInv, TypeOK, MixedIsPassing, MixedPairNeedsTwoFaults, Ended
<1> QED BY <1>1, AlwaysIInv, PTL
=============================================================================
