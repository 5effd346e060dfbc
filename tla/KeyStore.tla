------------------------------ MODULE KeyStore ------------------------------
(* The SSH keys of the application (KeyService): the private key in the secure *)
(* storage of the platform, its metadata in a Hive box.  The two are written   *)
(* and deleted one after the other; any of the four may fail, and the          *)
(* application may be killed between and during them.                          *)
(*                                                                             *)
(* External: Hive changes the box in memory at once, restores it if the write  *)
(* fails, and writes changes to the file one by one in their order; the secure *)
(* storage does what it is told at some moment before its call returns.        *)
EXTENDS Naturals, Sequences

CONSTANT StoredKey    \* the identifiers of the keys: fresh ones, from the clock

VARIABLES
    ksStoring,    \* the calls of _storeKey before their put: where they are with each key
    ksErasing,    \* the keys whose private key a deleteKey is deleting
    ksSecret,     \* the keys of the secure storage
    ksBox,        \* the keys of the box in memory: those listKeys returns
    ksFile,       \* the keys of its file
    ksWrites,     \* the writes to the file under way, in their order, and the call that awaits each
    ksUsed,       \* the identifiers that have been given out
    ksShown,      \* the keys that the screen has shown since the start of the application
    ksAgain       \* history: those deleted again while their removal was not yet written

ksStores == <<ksSecret, ksBox, ksFile, ksWrites>>
ksVars == <<ksStoring, ksErasing, ksStores, ksUsed, ksShown, ksAgain>>

KsWrite == [k : StoredKey, listed : BOOLEAN, for : {"store", "delete", "label"}]

KsTypeOK ==
    /\ ksStoring \in [StoredKey -> {"no", "storingSecret", "storedSecret"}]
    /\ ksSecret \subseteq StoredKey /\ ksBox \subseteq StoredKey /\ ksFile \subseteq StoredKey
    /\ ksWrites \in Seq(KsWrite)
    /\ ksErasing \subseteq StoredKey /\ ksUsed \subseteq StoredKey
    /\ ksShown \subseteq StoredKey /\ ksAgain \subseteq StoredKey

KsInit ==
    /\ ksStoring = [k \in StoredKey |-> "no"] /\ ksErasing = {}
    /\ ksSecret = {} /\ ksBox = {} /\ ksFile = {} /\ ksWrites = <<>>
    /\ ksUsed = {} /\ ksShown = {} /\ ksAgain = {}

Storing(k, progress) == ksStoring' = [ksStoring EXCEPT ![k] = progress]
-----------------------------------------------------------------------------
(* External: the two stores. *)

\* The write at the head reaches the file; a deleteKey that awaits it goes on.
HiveWritten ==
    /\ ksWrites # <<>> /\ ksWrites' = Tail(ksWrites)
    /\ LET w == Head(ksWrites)
       IN  /\ ksFile' = IF w.listed THEN ksFile \cup {w.k} ELSE ksFile \ {w.k}
           /\ ksErasing' = IF w.for = "delete" THEN ksErasing \cup {w.k} ELSE ksErasing
    /\ UNCHANGED <<ksStoring, ksSecret, ksBox, ksUsed, ksShown, ksAgain>>

\* It fails and its call throws.  The box is as before it, unless a later write of the same
\* key is under way.
HiveFails ==
    /\ ksWrites # <<>> /\ ksWrites' = Tail(ksWrites)
    /\ LET w == Head(ksWrites)
       IN  ksBox' = IF \E i \in 2..Len(ksWrites) : ksWrites[i].k = w.k THEN ksBox
                    ELSE (ksBox \ {w.k}) \cup (ksFile \cap {w.k})
    /\ UNCHANGED <<ksStoring, ksErasing, ksSecret, ksFile, ksUsed, ksShown, ksAgain>>

SecureWritten(k) ==
    /\ ksStoring[k] = "storingSecret"
    /\ ksSecret' = ksSecret \cup {k} /\ Storing(k, "storedSecret")
    /\ UNCHANGED <<ksErasing, ksBox, ksFile, ksWrites, ksUsed, ksShown, ksAgain>>

SecureDeleted(k) ==
    /\ k \in ksErasing /\ ksErasing' = ksErasing \ {k}
    /\ ksSecret' = ksSecret \ {k}
    /\ UNCHANGED <<ksStoring, ksBox, ksFile, ksWrites, ksUsed, ksShown, ksAgain>>

SecureFails(k) ==
    /\ \/ ksStoring[k] = "storingSecret" /\ Storing(k, "no") /\ UNCHANGED ksErasing
       \/ k \in ksErasing /\ ksErasing' = ksErasing \ {k} /\ UNCHANGED ksStoring
    /\ UNCHANGED <<ksStores, ksUsed, ksShown, ksAgain>>

\* The process is killed: what is not in a file or the secure storage is gone.
KsCrash ==
    /\ ksStoring' = [k \in StoredKey |-> "no"] /\ ksErasing' = {}
    /\ ksBox' = ksFile /\ ksWrites' = <<>> /\ ksShown' = ksFile
    /\ UNCHANGED <<ksSecret, ksFile, ksUsed, ksAgain>>
-----------------------------------------------------------------------------
(* KeyService. *)

\* _storeKey: the private key first,
KsStore(k) ==
    /\ k \notin ksUsed /\ ksUsed' = ksUsed \cup {k}
    /\ Storing(k, "storingSecret")
    /\ UNCHANGED <<ksErasing, ksStores, ksShown, ksAgain>>

\* Mutant: the private key is not waited for.
KsSecretSent(k) == ksStoring[k] \in {"storingSecret", "storedSecret"}

\* The write of the private key has returned.
KsSecretStored(k) == ksStoring[k] = "storedSecret"

\* then the metadata.  The list may be built anew at any moment from here on.
KsPut(k) ==
    /\ KsSecretStored(k) /\ Storing(k, "no")
    /\ ksBox' = ksBox \cup {k} /\ ksShown' = ksShown \cup {k}
    /\ ksWrites' = Append(ksWrites, [k |-> k, listed |-> TRUE, for |-> "store"])
    /\ UNCHANGED <<ksErasing, ksSecret, ksFile, ksUsed, ksAgain>>

\* The file has the key, or a write under way is about it.
KsUnsettled(k) == k \in ksFile \/ \E i \in 1..Len(ksWrites) : ksWrites[i].k = k

\* deleteKey, for a key whose card or dialog is on the screen: the metadata first.  A key the
\* box does not hold leaves nothing to write, and the private key is deleted at once.
KsDelete(k) ==
    /\ k \in ksShown
    /\ \/ /\ k \in ksBox /\ ksBox' = ksBox \ {k}
          /\ ksWrites' = Append(ksWrites, [k |-> k, listed |-> FALSE, for |-> "delete"])
          /\ UNCHANGED <<ksErasing, ksAgain>>
       \/ /\ k \notin ksBox /\ ksErasing' = ksErasing \cup {k}
          /\ ksAgain' = IF KsUnsettled(k) THEN ksAgain \cup {k} ELSE ksAgain
          /\ UNCHANGED <<ksBox, ksWrites>>
    /\ UNCHANGED <<ksStoring, ksSecret, ksFile, ksUsed, ksShown>>

\* updateLabel reads the box and writes it back in one turn.
KsUpdateLabel(k) ==
    /\ k \in ksBox /\ \A i \in 1..Len(ksWrites) : ksWrites[i].for # "label"
    /\ ksWrites' = Append(ksWrites, [k |-> k, listed |-> TRUE, for |-> "label"])
    /\ UNCHANGED <<ksStoring, ksErasing, ksSecret, ksBox, ksFile, ksUsed, ksShown, ksAgain>>
-----------------------------------------------------------------------------
KsNext ==
    \/ HiveWritten \/ HiveFails \/ KsCrash
    \/ \E k \in StoredKey :
         \/ SecureWritten(k) \/ SecureDeleted(k) \/ SecureFails(k)
         \/ KsStore(k) \/ KsPut(k) \/ KsDelete(k) \/ KsUpdateLabel(k)

KsSpec == KsInit /\ [][KsNext]_ksVars
-----------------------------------------------------------------------------
\* Every key that the application lists, and every key it would list after a crash at this
\* moment, has its private key, whatever fails and wherever between the two stores: unless
\* the user deleted it a second time while its first removal was not yet written.
ListedKeysHaveSecrets == (ksBox \cup ksFile) \ ksAgain \subseteq ksSecret
=============================================================================
