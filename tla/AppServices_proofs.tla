-------------------------- MODULE AppServices_proofs --------------------------
(***************************************************************************)
(* Three services of the application, each for any number of its callers,  *)
(* keys or attempts.                                                       *)
(*                                                                         *)
(* TailnetConnection: only its types; that a caller dials to a node that   *)
(* is up is not true of it.                                                *)
(*                                                                         *)
(* KeyStore: no key is listed without its private key, unless it was       *)
(* deleted again too early (ksAgain).  The property speaks of the box and  *)
(* of the file, but what reaches the file are the writes under way: each   *)
(* that lists a key must find the secret stored (SecretsStored), and none  *)
(* may follow the write of a deletion (DeletesLast), so that none is left  *)
(* when the secret is deleted.                                             *)
(*                                                                         *)
(* TerminalSession: a screen that shows a connection has a shell for it.   *)
(* The screen only keeps one flag, _shellStarted, for all its attempts.    *)
(* It is reset with every new attempt but the first, so that while it is   *)
(* set a shell was started since each attempt began (FlagCovers); and a    *)
(* shell that is started is the first of its connection (ShellsFresh).     *)
(***************************************************************************)
EXTENDS TailnetConnection, KeyStore, TerminalSession, SequenceTheorems, TLAPS
-----------------------------------------------------------------------------
(* TailnetConnection *)

\* Nobody has asked yet.
LEMMA TnStarts == TnInit => TnTypeOK
BY DEF TnInit, TnTypeOK

\* No step of the node or of a caller breaks the types.
LEMMA TnKept == TnTypeOK /\ [TnNext]_tnVars => TnTypeOK'
<1> SUFFICES ASSUME TnTypeOK, [TnNext]_tnVars PROVE TnTypeOK'
  OBVIOUS
<1> USE DEF TnTypeOK
<1>1. CASE TnNodeChanges
  BY <1>1 DEF TnNodeChanges
<1>2. ASSUME NEW c \in Dialers, TnDial(c) PROVE TnTypeOK'
  BY <1>2 DEF TnDial, TnGoOn
<1>3. ASSUME NEW c \in Dialers, TnSeesRunning(c) PROVE TnTypeOK'
  BY <1>3 DEF TnSeesRunning, TnGoOn
<1>4. ASSUME NEW c \in Dialers, TnBeginsUp(c) PROVE TnTypeOK'
  BY <1>4 DEF TnBeginsUp, TnGoOn
<1>5. ASSUME NEW c \in Dialers, TnKeyRead(c) PROVE TnTypeOK'
  BY <1>5 DEF TnKeyRead, TnGoOn
<1>6. ASSUME NEW c \in Dialers, TnUpSucceeds(c) PROVE TnTypeOK'
  BY <1>6 DEF TnUpSucceeds, TnFinally, TnGoOn
<1>7. ASSUME NEW c \in Dialers, TnUpFails(c) PROVE TnTypeOK'
  BY <1>7 DEF TnUpFails, TnFinally, TnGoOn
<1>8. ASSUME NEW c \in Dialers, TnWakes(c) PROVE TnTypeOK'
  BY <1>8 DEF TnWakes, TnGoOn
<1>9. CASE UNCHANGED tnVars
  BY <1>9 DEF tnVars
<1> QED  BY <1>1, <1>2, <1>3, <1>4, <1>5, <1>6, <1>7, <1>8, <1>9 DEF TnNext
-----------------------------------------------------------------------------
(* KeyStore *)

\* What is listed, or about to be written, has its secret, which nobody is deleting: but for
\* the keys deleted again too early.
SecretsStored ==
    /\ \A k \in StoredKey : ksStoring[k] = "storedSecret" => k \in ksSecret
    /\ \A k \in StoredKey \ ksAgain :
         k \in ksBox \/ KsUnsettled(k) => k \in ksSecret /\ k \notin ksErasing

\* A key that is still to be listed has left no trace of a listing.
NotYetListed ==
    \A k \in StoredKey :
        /\ k \notin ksUsed => ksStoring[k] = "no"
        /\ k \notin ksUsed \/ ksStoring[k] # "no" =>
              k \notin ksBox \cup ksShown \cup ksErasing /\ ~KsUnsettled(k)

\* The write of a deletion is the last that concerns its key.
DeletesLast ==
    \A i \in 1..Len(ksWrites) :
        /\ ksWrites[i].for = "delete" <=> ~ksWrites[i].listed
        /\ ~ksWrites[i].listed =>
              /\ ksWrites[i].k \notin ksBox
              /\ \A j \in (i + 1)..Len(ksWrites) : ksWrites[j].k # ksWrites[i].k

KeyInv == KsTypeOK /\ SecretsStored /\ NotYetListed /\ DeletesLast

\* No key has been stored.
LEMMA KeysStart == KsInit => KeyInv
BY DEF KsInit, KeyInv, KsTypeOK, SecretsStored, NotYetListed, DeletesLast, KsUnsettled

\* What is left of the writes when the first of them is over.
LEMMA RestOfWrites ==
    ASSUME KsTypeOK, ksWrites # <<>>, ksWrites' = Tail(ksWrites)
    PROVE  /\ Head(ksWrites) = ksWrites[1] /\ ksWrites[1] \in KsWrite
           /\ ksWrites[1].k \in StoredKey
           /\ ksWrites' \in Seq(KsWrite) /\ Len(ksWrites) \in Nat /\ Len(ksWrites) >= 1
           /\ Len(ksWrites') = Len(ksWrites) - 1
           /\ \A i \in 1..Len(ksWrites') : ksWrites'[i] = ksWrites[i + 1]
<1>1. ksWrites \in Seq(KsWrite)
  BY DEF KsTypeOK
<1>2. ksWrites[1] \in KsWrite /\ Head(ksWrites) = ksWrites[1]
  BY <1>1, HeadTailProperties
<1>3. ksWrites[1].k \in StoredKey
  BY <1>2 DEF KsWrite
<1> QED  BY <1>1, <1>2, <1>3, HeadTailProperties

\* The first write reaches the file.
LEMMA WrittenKeeps == KeyInv /\ HiveWritten => KeyInv'
<1> SUFFICES ASSUME KeyInv, HiveWritten PROVE KeyInv'
  OBVIOUS
<1> DEFINE w == ksWrites[1]
<1> USE DEF KeyInv
<1>1. ksWrites # <<>> /\ ksWrites' = Tail(ksWrites)
  BY DEF HiveWritten
<1>2. /\ Head(ksWrites) = w /\ w \in KsWrite /\ w.k \in StoredKey
      /\ ksWrites' \in Seq(KsWrite) /\ Len(ksWrites) \in Nat /\ Len(ksWrites) >= 1
      /\ Len(ksWrites') = Len(ksWrites) - 1
      /\ \A i \in 1..Len(ksWrites') : ksWrites'[i] = ksWrites[i + 1]
  BY <1>1, RestOfWrites
<1>3. /\ UNCHANGED <<ksStoring, ksSecret, ksBox, ksUsed, ksShown, ksAgain>>
      /\ ksFile' = IF w.listed THEN ksFile \cup {w.k} ELSE ksFile \ {w.k}
      /\ ksErasing' = IF w.for = "delete" THEN ksErasing \cup {w.k} ELSE ksErasing
  BY <1>2 DEF HiveWritten
<1>4. w.for = "delete" <=> ~w.listed
  BY <1>2 DEF DeletesLast
<1>5. w.for = "delete" => w.k \notin ksBox /\ \A j \in 2..Len(ksWrites) : ksWrites[j].k # w.k
  BY <1>2, <1>4 DEF DeletesLast
<1>6. \A k \in StoredKey : KsUnsettled(k)' => KsUnsettled(k) /\ (w.for = "delete" => k # w.k)
  BY <1>2, <1>3, <1>4, <1>5 DEF KsUnsettled
<1>7. KsUnsettled(w.k)
  BY <1>2 DEF KsUnsettled
<1> HIDE DEF w
<1>8. KsTypeOK'
  BY <1>2, <1>3 DEF KsTypeOK
<1>9. SecretsStored'
  BY <1>3, <1>5, <1>6 DEF SecretsStored
<1>10. NotYetListed'
  BY <1>2, <1>3, <1>6, <1>7 DEF NotYetListed
<1>11. DeletesLast'
  BY <1>2, <1>3 DEF DeletesLast
<1> QED  BY <1>8, <1>9, <1>10, <1>11

\* The first write fails.
LEMMA FailureKeeps == KeyInv /\ HiveFails => KeyInv'
<1> SUFFICES ASSUME KeyInv, HiveFails PROVE KeyInv'
  OBVIOUS
<1> DEFINE w == ksWrites[1]
           later == \E i \in 2..Len(ksWrites) : ksWrites[i].k = w.k
<1> USE DEF KeyInv
<1>1. ksWrites # <<>> /\ ksWrites' = Tail(ksWrites)
  BY DEF HiveFails
<1>2. /\ Head(ksWrites) = w /\ w \in KsWrite /\ w.k \in StoredKey
      /\ ksWrites' \in Seq(KsWrite) /\ Len(ksWrites) \in Nat /\ Len(ksWrites) >= 1
      /\ Len(ksWrites') = Len(ksWrites) - 1
      /\ \A i \in 1..Len(ksWrites') : ksWrites'[i] = ksWrites[i + 1]
  BY <1>1, RestOfWrites
<1>3. /\ UNCHANGED <<ksStoring, ksErasing, ksSecret, ksFile, ksUsed, ksShown, ksAgain>>
      /\ ksBox' = IF later THEN ksBox ELSE (ksBox \ {w.k}) \cup (ksFile \cap {w.k})
  BY <1>2 DEF HiveFails
<1>4. \A k \in StoredKey : KsUnsettled(k)' => KsUnsettled(k)
  BY <1>2, <1>3 DEF KsUnsettled
<1>5. \A k \in StoredKey : k \in ksBox' => k \in ksBox \/ KsUnsettled(k)
  BY <1>3 DEF KsUnsettled
<1>6. \A i \in 2..Len(ksWrites) :
         ksWrites[i].k \in ksBox' => ksWrites[i].k \in ksBox
  BY <1>3
<1> HIDE DEF w, later
<1>7. KsTypeOK'
  BY <1>2, <1>3 DEF KsTypeOK
<1>8. SecretsStored'
  BY <1>3, <1>4, <1>5 DEF SecretsStored
<1>9. NotYetListed'
  BY <1>3, <1>4, <1>5 DEF NotYetListed
<1>10. DeletesLast'
  <2> SUFFICES ASSUME NEW i \in 1..Len(ksWrites')
               PROVE  /\ ksWrites'[i].for = "delete" <=> ~ksWrites'[i].listed
                      /\ ~ksWrites'[i].listed =>
                            /\ ksWrites'[i].k \notin ksBox'
                            /\ \A j \in (i + 1)..Len(ksWrites') :
                                 ksWrites'[j].k # ksWrites'[i].k
    BY DEF DeletesLast
  <2>1. i + 1 \in 2..Len(ksWrites) /\ ksWrites'[i] = ksWrites[i + 1]
    BY <1>2
  <2>2. /\ ksWrites[i + 1].for = "delete" <=> ~ksWrites[i + 1].listed
        /\ ~ksWrites[i + 1].listed =>
              /\ ksWrites[i + 1].k \notin ksBox
              /\ \A j \in ((i + 1) + 1)..Len(ksWrites) : ksWrites[j].k # ksWrites[i + 1].k
    BY <2>1, <1>2 DEF DeletesLast
  <2>3. ASSUME ~ksWrites'[i].listed, NEW j \in (i + 1)..Len(ksWrites')
        PROVE  ksWrites'[j].k # ksWrites'[i].k
    BY <1>2, <2>1, <2>2, <2>3
  <2> QED  BY <1>6, <2>1, <2>2, <2>3
<1> QED  BY <1>7, <1>8, <1>9, <1>10

\* A write is added for a key of the box, or for one whose secret has just been stored.
LEMMA AppendKeeps ==
    ASSUME KeyInv, NEW k \in StoredKey, NEW write \in KsWrite, write.k = k,
           ksWrites' = Append(ksWrites, write), ksBox' \subseteq ksBox \cup {k},
           write.for = "delete" <=> ~write.listed,
           ~write.listed => k \notin ksBox',
           \A i \in 1..Len(ksWrites) : ksWrites[i].k = k => ksWrites[i].listed,
           k \in ksAgain \/ (k \in ksSecret /\ k \notin ksErasing), k \in ksUsed,
           ksStoring' \in [StoredKey -> {"no", "storingSecret", "storedSecret"}],
           ksStoring'[k] = "no", \A o \in StoredKey \ {k} : ksStoring'[o] = ksStoring[o],
           ksShown' \subseteq StoredKey, ksShown' \subseteq ksShown \cup {k},
           UNCHANGED <<ksErasing, ksSecret, ksFile, ksUsed, ksAgain>>
    PROVE  KeyInv'
<1> USE DEF KeyInv
<1>1. /\ ksWrites \in Seq(KsWrite) /\ ksWrites' \in Seq(KsWrite)
      /\ Len(ksWrites) \in Nat /\ Len(ksWrites') = Len(ksWrites) + 1
      /\ \A i \in 1..Len(ksWrites) : ksWrites'[i] = ksWrites[i]
      /\ ksWrites'[Len(ksWrites) + 1] = write
  BY DEF KsTypeOK
<1>2. \A o \in StoredKey \ {k} : KsUnsettled(o)' => KsUnsettled(o)
  BY <1>1 DEF KsUnsettled
<1>3. KsTypeOK'
  BY <1>1 DEF KsTypeOK
<1>4. SecretsStored'
  BY <1>2 DEF SecretsStored
<1>5. NotYetListed'
  BY <1>2 DEF NotYetListed
<1>6. DeletesLast'
  <2> SUFFICES ASSUME NEW i \in 1..Len(ksWrites')
               PROVE  /\ ksWrites'[i].for = "delete" <=> ~ksWrites'[i].listed
                      /\ ~ksWrites'[i].listed =>
                            /\ ksWrites'[i].k \notin ksBox'
                            /\ \A j \in (i + 1)..Len(ksWrites') :
                                 ksWrites'[j].k # ksWrites'[i].k
    BY DEF DeletesLast
  <2>1. CASE i = Len(ksWrites) + 1
    BY <1>1, <2>1
  <2>2. CASE i \in 1..Len(ksWrites)
    BY <1>1, <2>2 DEF DeletesLast
  <2> QED  BY <1>1, <2>1, <2>2
<1> QED  BY <1>3, <1>4, <1>5, <1>6

\* What does not touch the writes or the box, nor the file.
LEMMA StoresStay ==
    ASSUME UNCHANGED <<ksBox, ksFile, ksWrites>>, DeletesLast
    PROVE  DeletesLast' /\ \A k \in StoredKey : KsUnsettled(k)' <=> KsUnsettled(k)
BY DEF DeletesLast, KsUnsettled

\* A deleteKey, the first for its key or a later one, breaks nothing.
LEMMA DeleteKeeps ==
    ASSUME KeyInv, NEW k \in StoredKey, KsDelete(k)
    PROVE  KeyInv'
<1> USE DEF KeyInv
<1>1. k \in ksUsed /\ ksStoring[k] = "no"
  BY DEF KsDelete, NotYetListed
<1>2. CASE k \in ksBox
  <2>1. k \in ksAgain \/ (k \in ksSecret /\ k \notin ksErasing)
    BY <1>2 DEF SecretsStored
  <2>2. \A i \in 1..Len(ksWrites) : ksWrites[i].k = k => ksWrites[i].listed
    BY <1>2 DEF DeletesLast
  <2>3. [k |-> k, listed |-> FALSE, for |-> "delete"] \in KsWrite
    BY DEF KsWrite
  <2> QED  BY <1>1, <1>2, <2>1, <2>2, <2>3, AppendKeeps DEF KsDelete, KsTypeOK
<1>3. CASE k \notin ksBox
  <2>1. /\ UNCHANGED <<ksBox, ksFile, ksWrites, ksStoring, ksSecret, ksUsed, ksShown>>
        /\ ksErasing' = ksErasing \cup {k}
        /\ ksAgain' = IF KsUnsettled(k) THEN ksAgain \cup {k} ELSE ksAgain
    BY <1>3 DEF KsDelete
  <2>2. DeletesLast' /\ \A o \in StoredKey : KsUnsettled(o)' <=> KsUnsettled(o)
    BY <2>1, StoresStay
  <2>3. SecretsStored'
    BY <1>3, <2>1, <2>2 DEF SecretsStored
  <2>4. NotYetListed'
    BY <1>1, <2>1, <2>2 DEF NotYetListed
  <2> QED  BY <2>1, <2>2, <2>3, <2>4 DEF KsTypeOK
<1> QED  BY <1>2, <1>3

\* No step of the stores or of the service breaks it, and none of a crash.
LEMMA KeysKept == KeyInv /\ [KsNext]_ksVars => KeyInv'
<1> SUFFICES ASSUME KeyInv, [KsNext]_ksVars PROVE KeyInv'
  OBVIOUS
<1> USE DEF KeyInv
<1>1. CASE HiveWritten
  BY <1>1, WrittenKeeps
<1>2. CASE HiveFails
  BY <1>2, FailureKeeps
<1>3. CASE KsCrash
  BY <1>3 DEF KsCrash, KsTypeOK, SecretsStored, NotYetListed, DeletesLast, KsUnsettled
<1>4. ASSUME NEW k \in StoredKey, SecureWritten(k) PROVE KeyInv'
  <2>1. DeletesLast' /\ \A o \in StoredKey : KsUnsettled(o)' <=> KsUnsettled(o)
    BY <1>4, StoresStay DEF SecureWritten
  <2> QED  BY <1>4, <2>1 DEF SecureWritten, Storing, KsTypeOK, SecretsStored, NotYetListed
<1>5. ASSUME NEW k \in StoredKey, SecureDeleted(k) PROVE KeyInv'
  <2>1. DeletesLast' /\ \A o \in StoredKey : KsUnsettled(o)' <=> KsUnsettled(o)
    BY <1>5, StoresStay DEF SecureDeleted
  <2> QED  BY <1>5, <2>1 DEF SecureDeleted, KsTypeOK, SecretsStored, NotYetListed
<1>6. ASSUME NEW k \in StoredKey, SecureFails(k) PROVE KeyInv'
  <2>1. DeletesLast' /\ \A o \in StoredKey : KsUnsettled(o)' <=> KsUnsettled(o)
    BY <1>6, StoresStay DEF SecureFails, ksStores
  <2> QED
    BY <1>6, <2>1 DEF SecureFails, Storing, ksStores, KsTypeOK, SecretsStored, NotYetListed
<1>7. ASSUME NEW k \in StoredKey, KsStore(k) PROVE KeyInv'
  <2>1. DeletesLast' /\ \A o \in StoredKey : KsUnsettled(o)' <=> KsUnsettled(o)
    BY <1>7, StoresStay DEF KsStore, ksStores
  <2> QED  BY <1>7, <2>1 DEF KsStore, Storing, ksStores, KsTypeOK, SecretsStored, NotYetListed
<1>8. ASSUME NEW k \in StoredKey, KsPut(k) PROVE KeyInv'
  <2>1. /\ k \in ksSecret /\ k \in ksUsed /\ k \notin ksErasing
        /\ \A i \in 1..Len(ksWrites) : ksWrites[i].k # k
    BY <1>8 DEF KsPut, KsSecretStored, SecretsStored, NotYetListed, KsUnsettled, KsTypeOK
  <2>2. [k |-> k, listed |-> TRUE, for |-> "store"] \in KsWrite
    BY DEF KsWrite
  <2> QED  BY <1>8, <2>1, <2>2, AppendKeeps DEF KsPut, KsSecretStored, Storing, KsTypeOK
<1>9. ASSUME NEW k \in StoredKey, KsDelete(k) PROVE KeyInv'
  BY <1>9, DeleteKeeps
<1>10. ASSUME NEW k \in StoredKey, KsUpdateLabel(k) PROVE KeyInv'
  <2>1. /\ k \in ksAgain \/ (k \in ksSecret /\ k \notin ksErasing)
        /\ k \in ksUsed /\ ksStoring[k] = "no"
        /\ \A i \in 1..Len(ksWrites) : ksWrites[i].k = k => ksWrites[i].listed
    BY <1>10 DEF KsUpdateLabel, SecretsStored, NotYetListed, DeletesLast
  <2>2. [k |-> k, listed |-> TRUE, for |-> "label"] \in KsWrite
    BY DEF KsWrite
  <2> QED  BY <1>10, <2>1, <2>2, AppendKeeps DEF KsUpdateLabel, KsTypeOK
<1>11. CASE UNCHANGED ksVars
  BY <1>11 DEF ksVars, ksStores, KsTypeOK, SecretsStored, NotYetListed, DeletesLast, KsUnsettled
<1> QED
  BY <1>1, <1>2, <1>3, <1>4, <1>5, <1>6, <1>7, <1>8, <1>9, <1>10, <1>11 DEF KsNext

\* Whatever fails and wherever the application is killed, no key is listed without its
\* secret, unless it was deleted again before its removal was written.
THEOREM NoListedKeyWithoutSecret == KsSpec => []ListedKeysHaveSecrets
<1>1. KsInit => KeyInv
  BY KeysStart
<1>2. KeyInv /\ [KsNext]_ksVars => KeyInv'
  BY KeysKept
<1>3. KeyInv => ListedKeysHaveSecrets
  BY DEF KeyInv, KsTypeOK, SecretsStored, KsUnsettled, ListedKeysHaveSecrets
<1> QED  BY <1>1, <1>2, <1>3, PTL DEF KsSpec
-----------------------------------------------------------------------------
(* TerminalSession *)

\* An attempt that has connected.
TsThrough == {"saving", "ended", "failed"}

\* The first attempt begins first, and nothing is started before it.
AttemptsInOrder ==
    /\ \A a \in Attempt : tsTry[a] # "none" => tsTry[1] # "none"
    /\ tsShellStarted => tsTry[1] # "none"

\* The connection that is shown, and the shells, are of attempts that have connected; older
\* shells are shells.
ShellsTraced ==
    /\ tsConnected # 0 => tsTry[tsConnected] \in TsThrough
    /\ \A s \in Attempt : tsShell[s] # "none" => tsTry[s] \in TsThrough
    /\ tsSub # 0 => tsShell[tsSub] # "none"
    /\ \A a \in Attempt : \A s \in tsOlder[a] : tsShell[s] # "none"

\* A connection that still has to get its shell never had one.
ShellsFresh == tsConnected # 0 /\ ~tsShellStarted => tsShell[tsConnected] = "none"

\* While the flag is set, a shell was started since each of the attempts began.
FlagCovers ==
    tsShellStarted =>
        \A a \in Attempt :
            tsTry[a] # "none" => \E s \in Attempt : tsShell[s] # "none" /\ s \notin tsOlder[a]

\* A laid out screen that shows a connection whose attempt is through has set it.
FlagSet ==
    tsMounted /\ tsLaidOut /\ tsConnected # 0 =>
        (tsTry[tsConnected] = "ended" => tsShellStarted)

TsInv ==
    TsTypeOK /\ AttemptsInOrder /\ ShellsTraced /\ ShellsFresh /\ FlagCovers /\ FlagSet

\* What is numbered by an attempt, and 0 is none.
LEMMA AttemptNumbers ==
    ASSUME TsTypeOK
    PROVE  /\ 1 \in Attempt /\ 0 \in 0..Attempts
           /\ \A a \in Attempt : a # 0 /\ a \in 0..Attempts
           /\ tsConnected # 0 => tsConnected \in Attempt
           /\ tsSub # 0 => tsSub \in Attempt
BY TerminalAssumption DEF TsTypeOK, Attempt

\* No attempt has begun.
LEMMA TsStarts == TsInit => TsInv
<1> SUFFICES ASSUME TsInit PROVE TsInv
  OBVIOUS
<1>1. 0 \in 0..Attempts
  BY TerminalAssumption
<1>2. TsTypeOK
  BY <1>1 DEF TsInit, TsTypeOK
<1>3. AttemptsInOrder /\ ShellsTraced
  BY DEF TsInit, AttemptsInOrder, ShellsTraced
<1>4. ShellsFresh /\ FlagCovers /\ FlagSet
  BY DEF TsInit, ShellsFresh, FlagCovers, FlagSet
<1> QED  BY <1>2, <1>3, <1>4 DEF TsInv

\* The start of a shell, where the screen decides whether to start one.
LEMMA ShellStartKeeps ==
    ASSUME TsInv, NEW laidOut, MaybeStartShell(laidOut),
           laidOut = tsLaidOut', laidOut \in BOOLEAN,
           UNCHANGED <<tsOlder, tsConnected, tsMounted>>,
           AttemptsInOrder', TsTypeOK',
           \A a \in Attempt : tsTry'[a] = "none" <=> tsTry[a] = "none",
           \A a \in Attempt : tsTry[a] \in TsThrough => tsTry'[a] \in TsThrough
    PROVE  TsInv'
<1> USE DEF TsInv, TsTypeOK
<1>1. CASE UNCHANGED tsShells /\ (tsShellStarted \/ tsConnected = 0 \/ ~laidOut)
  <2>1. UNCHANGED <<tsShellStarted, tsShell, tsSub, tsConnected, tsOlder, tsMounted>>
    BY <1>1 DEF tsShells
  <2>2. ShellsTraced'
    BY <2>1, AttemptNumbers DEF ShellsTraced
  <2>3. ShellsFresh'
    BY <2>1 DEF ShellsFresh
  <2>4. FlagCovers'
    BY <2>1 DEF FlagCovers
  <2>5. FlagSet'
    BY <1>1, <2>1 DEF FlagSet
  <2> QED  BY <2>2, <2>3, <2>4, <2>5
<1>2. CASE ~tsShellStarted /\ tsConnected # 0 /\ laidOut
  <2>1. /\ tsConnected \in Attempt /\ tsShellStarted' /\ tsSub' = tsSub
        /\ tsShell' = [tsShell EXCEPT ![tsConnected] = "opening"]
    BY <1>2, AttemptNumbers DEF MaybeStartShell
  <2>2. /\ \A s \in Attempt : tsShell'[s] = IF s = tsConnected THEN "opening" ELSE tsShell[s]
        /\ tsShell[tsConnected] = "none"
    BY <1>2, <2>1 DEF ShellsFresh
  <2>3. ShellsTraced'
    <3>1. tsTry[tsConnected] \in TsThrough
      BY <1>2 DEF ShellsTraced
    <3>2. tsTry'[tsConnected] \in TsThrough
      BY <2>1, <3>1
    <3>3. tsSub' # 0 => tsShell'[tsSub'] # "none"
      BY <2>1, <2>2, AttemptNumbers DEF ShellsTraced
    <3>4. \A s \in Attempt : tsShell'[s] # "none" => tsTry'[s] \in TsThrough
      BY <2>1, <2>2, <3>2 DEF ShellsTraced
    <3>5. \A a \in Attempt : \A s \in tsOlder'[a] : tsShell'[s] # "none"
      <4>1. \A a \in Attempt : tsOlder[a] \subseteq Attempt /\ tsOlder'[a] = tsOlder[a]
        OBVIOUS
      <4> QED  BY <2>2, <4>1 DEF ShellsTraced
    <3> QED  BY <2>1, <3>2, <3>3, <3>4, <3>5 DEF ShellsTraced
  <2>4. FlagCovers'
    <3>1. \A a \in Attempt : tsConnected \notin tsOlder[a]
      BY <2>2 DEF ShellsTraced
    <3> QED  BY <2>1, <2>2, <3>1 DEF FlagCovers
  <2>5. ShellsFresh' /\ FlagSet'
    BY <2>1 DEF ShellsFresh, FlagSet
  <2> QED  BY <2>3, <2>4, <2>5
<1> QED  BY <1>1, <1>2 DEF MaybeStartShell

\* Only an attempt, or the connection shown, moves on.
LEMMA AttemptKeeps ==
    ASSUME TsInv, NEW a \in Attempt,
           \/ TsOpened(a) \/ TsClientMade(a) \/ TsAuthenticated(a) \/ TsConnectFails(a)
           \/ TsSaveFails(a) \/ TsClientLost(a)
    PROVE  TsInv'
<1> USE DEF TsInv, tsShells, tsScreen
<1>1. /\ UNCHANGED <<tsOlder, tsShellStarted, tsShell, tsShellOn, tsSub, tsMenu, tsLaidOut, tsMounted>>
      /\ \/ tsTry' = tsTry
         \/ /\ tsTry[a] # "none"
            /\ \E at \in {"socket", "authenticating", "saving", "failed"} : TsTryIs(a, at)
            /\ tsTry[a] = "saving" => TsTryIs(a, "failed")
            /\ tsTry[a] \notin {"ended", "failed"}
      /\ tsConnected' = tsConnected \/ (tsConnected' = a /\ tsTry[a] = "authenticating" /\ TsTryIs(a, "saving"))
  BY DEF TsOpened, TsClientMade, TsAuthenticated, TsConnectFails, TsSaveFails, TsClientLost
<1>2. /\ tsClient' \in 0..Attempts /\ tsAlive' \subseteq Attempt
      /\ a \in 0..Attempts /\ a # 0 /\ 1 \in Attempt
  BY AttemptNumbers DEF TsTypeOK, SafeClose, TsOpened, TsClientMade, TsAuthenticated,
     TsConnectFails, TsSaveFails, TsClientLost
<1>3. /\ tsTry' \in [Attempt -> {"none", "opening", "socket", "authenticating", "saving", "ended",
                                 "failed"}]
      /\ tsConnected' \in 0..Attempts
  BY <1>1, <1>2 DEF TsTypeOK, TsTryIs
<1>4. TsTypeOK'
  BY <1>1, <1>2, <1>3 DEF TsTypeOK
<1>5. /\ \A b \in Attempt : b # a => tsTry'[b] = tsTry[b]
      /\ tsTry'[a] # tsTry[a] => tsTry[a] # "none" /\ tsTry'[a] \notin {"none", "ended"}
      /\ tsTry[a] \in TsThrough => tsTry'[a] \in TsThrough
  BY <1>1 DEF TsTypeOK, TsTryIs, TsThrough
<1>6. AttemptsInOrder'
  BY <1>1, <1>2, <1>5 DEF AttemptsInOrder
<1>7. tsConnected' # tsConnected =>
        tsConnected' = a /\ tsTry'[a] = "saving" /\ tsShell[a] = "none"
  BY <1>1 DEF TsTypeOK, TsTryIs, ShellsTraced, TsThrough
<1>8. tsConnected # 0 => tsConnected \in Attempt
  BY AttemptNumbers
<1>9. ShellsTraced'
  BY <1>1, <1>5, <1>7, <1>8 DEF ShellsTraced, TsThrough
<1>10. ShellsFresh'
  BY <1>1, <1>7 DEF ShellsFresh
<1>11. FlagCovers'
  BY <1>1, <1>5 DEF FlagCovers
<1>12. FlagSet'
  BY <1>1, <1>5, <1>7, <1>8 DEF FlagSet
<1> QED  BY <1>4, <1>6, <1>9, <1>10, <1>11, <1>12

\* The two places where a shell may be started.
LEMMA StartKeeps ==
    ASSUME TsInv, TsResize \/ \E a \in Attempt : TsSaved(a)
    PROVE  TsInv'
<1> USE DEF TsInv, tsScreen
<1>1. \A l \in BOOLEAN : MaybeStartShell(l) =>
        /\ tsShellStarted' \in BOOLEAN /\ tsSub' = tsSub
        /\ tsShell' \in [Attempt -> {"none", "opening", "listening", "cancelled", "gone"}]
        /\ tsShellOn' \in [Attempt -> 0..Attempts]
        /\ tsShellStarted' => tsShellStarted \/ tsConnected # 0
  BY DEF MaybeStartShell, tsShells, TsTypeOK
<1>2. tsConnected # 0 => tsTry[1] # "none"
  BY AttemptNumbers DEF ShellsTraced, AttemptsInOrder, TsThrough
<1>3. CASE TsResize
  <2>1. /\ UNCHANGED <<tsTry, tsOlder, tsClient, tsAlive, tsConnected, tsMenu, tsMounted>>
        /\ tsLaidOut' = TRUE /\ MaybeStartShell(TRUE)
    BY <1>3 DEF TsResize
  <2>2. TsTypeOK'
    BY <1>1, <2>1 DEF TsTypeOK
  <2>3. AttemptsInOrder'
    BY <1>1, <1>2, <2>1 DEF AttemptsInOrder
  <2> QED  BY <2>1, <2>2, <2>3, ShellStartKeeps
<1>4. ASSUME NEW a \in Attempt, TsSaved(a) PROVE TsInv'
  <2>1. /\ UNCHANGED <<tsOlder, tsClient, tsAlive, tsConnected, tsMenu, tsLaidOut, tsMounted>>
        /\ tsTry[a] = "saving" /\ tsTry' = [tsTry EXCEPT ![a] = "ended"]
        /\ MaybeStartShell(tsLaidOut) /\ tsLaidOut \in BOOLEAN
    BY <1>4 DEF TsSaved, TsTryIs, TsTypeOK
  <2>2. /\ tsTry' \in [Attempt -> {"none", "opening", "socket", "authenticating", "saving", "ended",
                                   "failed"}]
        /\ \A b \in Attempt : tsTry'[b] = IF b = a THEN "ended" ELSE tsTry[b]
    BY <2>1 DEF TsTypeOK
  <2>3. TsTypeOK'
    BY <1>1, <2>1, <2>2 DEF TsTypeOK
  <2>4. AttemptsInOrder'
    BY <1>1, <1>2, <2>1, <2>2, AttemptNumbers DEF AttemptsInOrder
  <2>5. /\ \A b \in Attempt : tsTry'[b] = "none" <=> tsTry[b] = "none"
        /\ \A b \in Attempt : tsTry[b] \in TsThrough => tsTry'[b] \in TsThrough
    BY <2>1, <2>2 DEF TsThrough
  <2> QED  BY <2>1, <2>3, <2>4, <2>5, ShellStartKeeps
<1> QED  BY <1>3, <1>4

\* The menu shows no more than there is.
LEMMA MenuKeeps == TsInv /\ (TsMenuOpened \/ TsMenuDismissed) => TsInv'
<1> SUFFICES ASSUME TsInv, TsMenuOpened \/ TsMenuDismissed PROVE TsInv'
  OBVIOUS
<1>1. /\ UNCHANGED <<tsTry, tsOlder, tsClient, tsAlive, tsConnected, tsShells, tsLaidOut, tsMounted>>
      /\ tsMenu' \in {"closed", "disconnect", "reconnect"}
  BY DEF TsMenuOpened, TsMenuDismissed
<1>2. TsTypeOK'
  BY <1>1 DEF TsInv, TsTypeOK, tsShells
<1>3. AttemptsInOrder' /\ ShellsTraced'
  BY <1>1 DEF TsInv, AttemptsInOrder, ShellsTraced, tsShells
<1>4. ShellsFresh' /\ FlagCovers' /\ FlagSet'
  BY <1>1 DEF TsInv, ShellsFresh, FlagCovers, FlagSet, tsShells
<1> QED  BY <1>2, <1>3, <1>4 DEF TsInv

\* A shell that is opened, ends or is cancelled was started all the same.
LEMMA ShellKeeps ==
    ASSUME TsInv, NEW s \in Attempt, TsShellOpened(s) \/ TsShellEnds(s)
    PROVE  TsInv'
<1> USE DEF TsInv, tsScreen
<1>1. /\ UNCHANGED <<tsTry, tsOlder, tsClient, tsAlive, tsShellStarted, tsShellOn>>
      /\ UNCHANGED <<tsMenu, tsLaidOut, tsMounted>>
      /\ tsShell[s] # "none"
      /\ \E at \in {"listening", "gone"} : tsShell' = [tsShell EXCEPT ![s] = at]
      /\ tsSub' \in {tsSub, s} /\ tsConnected' \in {tsConnected, 0}
  BY DEF TsShellOpened, TsShellEnds
<1>2. /\ tsShell' \in [Attempt -> {"none", "opening", "listening", "cancelled", "gone"}]
      /\ \A t \in Attempt : tsShell'[t] = "none" <=> tsShell[t] = "none"
  BY <1>1 DEF TsTypeOK
<1>3. tsSub' \in 0..Attempts /\ tsConnected' \in 0..Attempts
  BY <1>1, AttemptNumbers DEF TsTypeOK
<1>4. TsTypeOK'
  BY <1>1, <1>2, <1>3 DEF TsTypeOK
<1>5. AttemptsInOrder'
  BY <1>1 DEF AttemptsInOrder
<1>6. ShellsTraced'
  <2>1. tsConnected' # 0 => tsTry'[tsConnected'] \in TsThrough
    BY <1>1 DEF ShellsTraced
  <2>2. \A t \in Attempt : tsShell'[t] # "none" => tsTry'[t] \in TsThrough
    BY <1>1, <1>2 DEF ShellsTraced
  <2>3. tsSub' # 0 => tsShell'[tsSub'] # "none"
    BY <1>1, <1>2, AttemptNumbers DEF ShellsTraced
  <2>4. \A a \in Attempt : \A t \in tsOlder'[a] : tsShell'[t] # "none"
    <3>1. \A a \in Attempt : tsOlder[a] \subseteq Attempt
      BY DEF TsTypeOK
    <3> QED  BY <1>1, <1>2, <3>1 DEF ShellsTraced
  <2> QED  BY <2>1, <2>2, <2>3, <2>4 DEF ShellsTraced
<1>7. ShellsFresh'
  BY <1>1, <1>2, AttemptNumbers DEF ShellsFresh
<1>8. FlagCovers'
  BY <1>1, <1>2 DEF FlagCovers
<1>9. FlagSet'
  BY <1>1 DEF FlagSet
<1> QED  BY <1>4, <1>5, <1>6, <1>7, <1>8, <1>9

\* What _stdoutSub?.cancel() does to the shells.
LEMMA CancelKeeps ==
    ASSUME TsInv, CancelStdout
    PROVE  /\ tsSub' = 0
           /\ tsShell' \in [Attempt -> {"none", "opening", "listening", "cancelled", "gone"}]
           /\ \A t \in Attempt : tsShell'[t] = "none" <=> tsShell[t] = "none"
<1>1. \A t \in Attempt : t # 0
  BY AttemptNumbers DEF TsInv
<1>2. /\ tsSub' = 0
      /\ tsShell' = [t \in Attempt |-> IF t = tsSub THEN "cancelled" ELSE tsShell[t]]
  BY DEF CancelStdout
<1>3. \A t \in Attempt : t = tsSub => tsShell[t] # "none"
  BY <1>1 DEF TsInv, ShellsTraced
<1> QED  BY <1>2, <1>3 DEF TsInv, TsTypeOK

\* A screen that is disposed of shows nothing.
LEMMA DisposeKeeps == TsInv /\ TsDispose => TsInv'
<1> SUFFICES ASSUME TsInv, TsDispose PROVE TsInv'
  OBVIOUS
<1> USE DEF TsInv
<1>1. /\ UNCHANGED <<tsTry, tsOlder, tsConnected, tsShellStarted, tsShellOn, tsLaidOut>>
      /\ tsMounted' = FALSE /\ tsMenu' = "closed" /\ CancelStdout /\ SafeClose
  BY DEF TsDispose
<1>2. /\ tsSub' = 0
      /\ tsShell' \in [Attempt -> {"none", "opening", "listening", "cancelled", "gone"}]
      /\ \A t \in Attempt : tsShell'[t] = "none" <=> tsShell[t] = "none"
  BY <1>1, CancelKeeps
<1>3. TsTypeOK'
  BY <1>1, <1>2, AttemptNumbers DEF TsTypeOK, SafeClose
<1>4. AttemptsInOrder'
  BY <1>1 DEF AttemptsInOrder
<1>5. ShellsTraced'
  <2>1. \A a \in Attempt : tsOlder[a] \subseteq Attempt
    BY DEF TsTypeOK
  <2> QED  BY <1>1, <1>2, <2>1 DEF ShellsTraced
<1>6. ShellsFresh'
  BY <1>1, <1>2, AttemptNumbers DEF ShellsFresh
<1>7. FlagCovers'
  BY <1>1, <1>2 DEF FlagCovers
<1>8. FlagSet'
  BY <1>1 DEF FlagSet
<1> QED  BY <1>3, <1>4, <1>5, <1>6, <1>7, <1>8

\* A disconnect, and the attempt that may follow it at once: the flag is reset before any
\* attempt but the first, and before the first nothing was started.
LEMMA BeginKeeps ==
    ASSUME TsInv, TsFirst \/ TsDisconnect \/ \E a \in Attempt : TsReconnect(a)
    PROVE  TsInv'
<1> USE DEF TsInv, tsShells, tsScreen
<1>1. ASSUME Disconnect
      PROVE  /\ tsSub' = 0 /\ tsConnected' = 0 /\ tsShellStarted' = FALSE /\ tsShellOn' = tsShellOn
             /\ tsShell' \in [Attempt -> {"none", "opening", "listening", "cancelled", "gone"}]
             /\ \A t \in Attempt : tsShell'[t] = "none" <=> tsShell[t] = "none"
             /\ tsClient' = 0 /\ tsAlive' \subseteq Attempt
  BY <1>1, CancelKeeps DEF Disconnect, ResetShell, SafeClose, TsTypeOK
<1>2. ASSUME NEW a \in Attempt, TsBegin(a)
      PROVE  /\ tsTry' \in [Attempt -> {"none", "opening", "socket", "authenticating", "saving",
                                        "ended", "failed"}]
             /\ tsTry[a] = "none"
             /\ \A b \in Attempt : tsTry'[b] = IF b = a THEN "opening" ELSE tsTry[b]
             /\ tsOlder' \in [Attempt -> SUBSET Attempt]
             /\ \A b \in Attempt : \A s \in tsOlder'[b] : tsShell[s] # "none"
             /\ a # 1 => tsTry[1] # "none"
  <2>1. /\ tsTry[a] = "none" /\ tsTry' = [tsTry EXCEPT ![a] = "opening"]
        /\ tsOlder' = [tsOlder EXCEPT ![a] = ShellsStarted]
        /\ ShellsStarted \in SUBSET Attempt
    BY <1>2 DEF TsBegin, TsTryIs, ShellsStarted
  <2>2. a # 1 => 1 \in 1..(a - 1)
    BY DEF Attempt
  <2>3. a # 1 => tsTry[1] # "none"
    BY <1>2, <2>2 DEF TsBegin
  <2>4. /\ tsOlder' \in [Attempt -> SUBSET Attempt]
        /\ \A b \in Attempt : tsOlder'[b] = IF b = a THEN ShellsStarted ELSE tsOlder[b]
    BY <2>1 DEF TsTypeOK
  <2>5. \A s \in ShellsStarted : tsShell[s] # "none"
    BY DEF ShellsStarted
  <2>6. \A b \in Attempt : \A s \in tsOlder'[b] : tsShell[s] # "none"
    BY <2>4, <2>5 DEF ShellsTraced
  <2> QED  BY <2>1, <2>3, <2>4, <2>6 DEF TsTypeOK
<1>3. CASE TsFirst
  <2>1. /\ UNCHANGED <<tsClient, tsAlive, tsConnected, tsShellStarted, tsShell, tsShellOn, tsSub>>
        /\ UNCHANGED <<tsMenu, tsLaidOut, tsMounted>>
        /\ TsBegin(1) /\ 1 \in Attempt
    BY <1>3, AttemptNumbers DEF TsFirst
  <2>2. \A b \in Attempt : tsTry[b] = "none"
    BY <1>2, <2>1 DEF AttemptsInOrder
  <2>3. tsShellStarted = FALSE /\ tsConnected = 0
    BY <2>1, <2>2, AttemptNumbers DEF AttemptsInOrder, ShellsTraced, TsThrough, TsTypeOK
  <2>4. TsTypeOK'
    BY <1>2, <2>1 DEF TsTypeOK
  <2>5. AttemptsInOrder' /\ ShellsFresh' /\ FlagCovers' /\ FlagSet'
    BY <1>2, <2>1, <2>3 DEF AttemptsInOrder, ShellsFresh, FlagCovers, FlagSet
  <2>6. ShellsTraced'
    <3>1. \A s \in Attempt : tsShell[s] = "none"
      BY <2>2 DEF ShellsTraced, TsThrough
    <3>2. \A b \in Attempt : \A s \in tsOlder'[b] : tsShell[s] # "none"
      BY <1>2, <2>1
    <3> QED  BY <2>1, <2>3, <3>1, <3>2 DEF ShellsTraced
  <2> QED  BY <2>4, <2>5, <2>6
<1>4. CASE TsDisconnect
  <2>1. /\ UNCHANGED <<tsTry, tsOlder, tsLaidOut, tsMounted>> /\ tsMenu' = "closed" /\ Disconnect
    BY <1>4 DEF TsDisconnect
  <2>2. TsTypeOK'
    BY <1>1, <2>1, AttemptNumbers DEF TsTypeOK
  <2>3. AttemptsInOrder' /\ ShellsFresh' /\ FlagCovers' /\ FlagSet'
    BY <1>1, <2>1 DEF AttemptsInOrder, ShellsFresh, FlagCovers, FlagSet
  <2>4. ShellsTraced'
    <3>1. \A a \in Attempt : tsOlder[a] \subseteq Attempt
      BY DEF TsTypeOK
    <3> QED  BY <1>1, <2>1, <3>1 DEF ShellsTraced
  <2> QED  BY <2>2, <2>3, <2>4
<1>5. ASSUME NEW a \in Attempt, TsReconnect(a) PROVE TsInv'
  <2>1. /\ UNCHANGED <<tsLaidOut, tsMounted>> /\ tsMenu' = "closed" /\ Disconnect
        /\ a # 1 /\ TsBegin(a)
    BY <1>5 DEF TsReconnect
  <2>2. TsTypeOK'
    BY <1>1, <1>2, <2>1, AttemptNumbers DEF TsTypeOK
  <2>3. AttemptsInOrder'
    BY <1>1, <1>2, <2>1, AttemptNumbers DEF AttemptsInOrder
  <2>4. ShellsFresh' /\ FlagCovers' /\ FlagSet'
    BY <1>1, <2>1 DEF ShellsFresh, FlagCovers, FlagSet
  <2>5. ShellsTraced'
    <3>1. \A b \in Attempt : tsOlder'[b] \subseteq Attempt /\ \A s \in tsOlder'[b] : tsShell[s] # "none"
      BY <1>2, <2>1
    <3>2. \A s \in Attempt : tsShell'[s] # "none" => tsTry'[s] \in TsThrough
      BY <1>1, <1>2, <2>1 DEF ShellsTraced, TsThrough
    <3> QED  BY <1>1, <2>1, <3>1, <3>2 DEF ShellsTraced
  <2> QED  BY <2>2, <2>3, <2>4, <2>5
<1> QED  BY <1>3, <1>4, <1>5

\* Every step keeps the invariant.
LEMMA TsKept == TsInv /\ [TsNext]_tsVars => TsInv'
<1> SUFFICES ASSUME TsInv, [TsNext]_tsVars PROVE TsInv'
  OBVIOUS
<1>1. CASE TsFirst \/ TsDisconnect \/ \E a \in Attempt : TsReconnect(a)
  BY <1>1, BeginKeeps
<1>2. CASE TsResize \/ \E a \in Attempt : TsSaved(a)
  BY <1>2, StartKeeps
<1>3. CASE TsMenuOpened \/ TsMenuDismissed
  BY <1>3, MenuKeeps
<1>4. CASE TsDispose
  BY <1>4, DisposeKeeps
<1>5. ASSUME NEW a \in Attempt,
             \/ TsOpened(a) \/ TsClientMade(a) \/ TsAuthenticated(a) \/ TsConnectFails(a)
             \/ TsSaveFails(a) \/ TsClientLost(a)
      PROVE  TsInv'
  BY <1>5, AttemptKeeps
<1>6. ASSUME NEW s \in Attempt, TsShellOpened(s) \/ TsShellEnds(s) PROVE TsInv'
  BY <1>6, ShellKeeps
<1>7. CASE UNCHANGED tsVars
  <2> USE <1>7 DEF tsVars, TsInv
  <2>1. TsTypeOK'
    BY DEF TsTypeOK
  <2>2. AttemptsInOrder' /\ ShellsTraced'
    BY DEF AttemptsInOrder, ShellsTraced
  <2>3. ShellsFresh' /\ FlagCovers' /\ FlagSet'
    BY DEF ShellsFresh, FlagCovers, FlagSet
  <2> QED  BY <2>1, <2>2, <2>3
<1> QED  BY <1>1, <1>2, <1>3, <1>4, <1>5, <1>6, <1>7 DEF TsNext

\* However many attempts, disconnects and layouts follow each other, a laid out screen that
\* shows a connection has started a shell since the attempt behind it began.
THEOREM ShellFollowsConnection == TsSpec => []TermShellFollows
<1>1. TsInv => TermShellFollows
  <2> SUFFICES ASSUME TsInv, NEW a \in Attempt, tsMounted, tsConnected = a, tsTry[a] = "ended", tsLaidOut
               PROVE  ShellsStarted \ tsOlder[a] # {}
    BY DEF TermShellFollows
  <2>1. a # 0
    BY AttemptNumbers DEF TsInv
  <2>2. tsShellStarted
    BY <2>1 DEF TsInv, FlagSet
  <2>3. PICK s \in Attempt : tsShell[s] # "none" /\ s \notin tsOlder[a]
    BY <2>2 DEF TsInv, FlagCovers
  <2> QED  BY <2>3 DEF ShellsStarted
<1> QED  BY <1>1, TsStarts, TsKept, PTL DEF TsSpec
==============================================================================
