----------------------------- MODULE SigningKeys -----------------------------
(***************************************************************************)
(* SigningKeyring: where the checkpoint key comes from at every start of   *)
(* the server (environment, key file, or a new one), and what it signs.    *)
(*                                                                         *)
(* write_private creates the file first and writes it second: a crash or a *)
(* full disk in between leaves a file that holds no seed, and the next     *)
(* start exits instead of replacing it.  A key is its seed, its public key *)
(* and the id derived from it.                                             *)
(***************************************************************************)
CONSTANTS SigningKey,  \* keys the random generator can draw, one each
          Seeds,       \* what TIDELINE_CHECKPOINT_KEY may be, NoKey for unset
          NoKey,       \* no key: of a server that is down, a file not there
          Garbled      \* a key file that is not base64 of a 32-byte seed

ASSUME KeyAssumption ==
    /\ NoKey \notin SigningKey /\ Garbled \notin SigningKey
    /\ NoKey # Garbled
    /\ Seeds \subseteq SigningKey \cup {NoKey}

VARIABLES seed,     \* TIDELINE_CHECKPOINT_KEY when it is a seed, else NoKey
          path,     \* key_path() finds a place for the key file
          file,     \* the key file
          drawn,    \* keys generated so far
          pending,  \* the key of a start between creating and writing the file
          key,      \* the key the running server signs with and publishes
          signed,   \* every checkpoint ever signed (history)
          lapsed    \* some start could not keep its key, or not read it

keyVars == <<seed, path, file, drawn, pending, key, signed, lapsed>>

Down == key = NoKey /\ pending = NoKey

(* The configuration of a deployment does not change between its starts.   *)
KeyInit ==
    /\ seed \in Seeds /\ path \in BOOLEAN
    /\ seed # NoKey => ~path   \* no file is looked for
    /\ file = NoKey
    /\ drawn = {seed} \ {NoKey}
    /\ pending = NoKey
    /\ key = NoKey
    /\ signed = {}
    /\ lapsed = FALSE

FromEnv ==
    /\ Down /\ seed # NoKey
    /\ key' = seed
    /\ UNCHANGED <<seed, path, file, drawn, pending, signed, lapsed>>

(* Records in memory: nowhere to keep a key.                               *)
Ephemeral(k) ==
    /\ Down /\ seed = NoKey /\ ~path
    /\ k \in SigningKey \ drawn
    /\ drawn' = drawn \cup {k}
    /\ key' = k
    /\ lapsed' = TRUE
    /\ UNCHANGED <<seed, path, file, pending, signed>>

FromFile ==
    /\ Down /\ seed = NoKey /\ path
    /\ file \in SigningKey
    /\ key' = file
    /\ UNCHANGED <<seed, path, file, drawn, pending, signed, lapsed>>

(* A key is generated when the file cannot be read: it is not there, or,   *)
(* all the same to the code, reading it failed.                            *)
MayGenerate(readable) == file = NoKey \/ ~readable

(* The file is created, and truncated if it was there.                     *)
Create(k, readable) ==
    /\ Down /\ seed = NoKey /\ path
    /\ MayGenerate(readable)
    /\ k \in SigningKey \ drawn
    /\ drawn' = drawn \cup {k}
    /\ pending' = k
    /\ file' = Garbled
    /\ lapsed' = (lapsed \/ file \in SigningKey)
    /\ UNCHANGED <<seed, path, key, signed>>

(* Mutation of Save: the file is left as it was created.                   *)
SaveUnwritten ==
    /\ pending # NoKey
    /\ key' = pending
    /\ pending' = NoKey
    /\ UNCHANGED <<seed, path, file, drawn, signed, lapsed>>

Save ==
    /\ pending # NoKey
    /\ file' = pending
    /\ key' = pending
    /\ pending' = NoKey
    /\ UNCHANGED <<seed, path, drawn, signed, lapsed>>

(* It cannot be written: the server signs with a key it could not keep.    *)
SaveFails ==
    /\ pending # NoKey
    /\ key' = pending
    /\ pending' = NoKey
    /\ lapsed' = TRUE
    /\ UNCHANGED <<seed, path, file, drawn, signed>>

(* It cannot even be created.                                              *)
CreateFails(k, readable) ==
    /\ Down /\ seed = NoKey /\ path
    /\ MayGenerate(readable)
    /\ k \in SigningKey \ drawn
    /\ drawn' = drawn \cup {k}
    /\ key' = k
    /\ lapsed' = TRUE
    /\ UNCHANGED <<seed, path, file, pending, signed>>

(* The operator removes a file the server refuses to start with.           *)
RemoveGarbled ==
    /\ Down /\ file = Garbled
    /\ file' = NoKey
    /\ UNCHANGED <<seed, path, drawn, pending, key, signed, lapsed>>

StopServer ==
    /\ ~Down
    /\ key' = NoKey
    /\ pending' = NoKey
    /\ UNCHANGED <<seed, path, file, drawn, signed, lapsed>>

KeyStep ==
    \/ FromEnv \/ FromFile \/ Save \/ SaveFails \/ RemoveGarbled \/ StopServer
    \/ \E k \in SigningKey : Ephemeral(k)
    \/ \E k \in SigningKey, readable \in BOOLEAN :
          Create(k, readable) \/ CreateFails(k, readable)

(* sign_head: the checkpoint carries the key it was signed with.  "covers" *)
(* is what the record held up to that head, for the properties.            *)
Checkpoint(r, n, head, k, covers) ==
    [run_id |-> r, seq |-> n, head_hash |-> head, signed_by |-> k, covers |-> covers]

Sign(r, n, head, covers) ==
    /\ key # NoKey
    /\ signed' = signed \cup {Checkpoint(r, n, head, key, covers)}
    /\ UNCHANGED <<seed, path, file, drawn, pending, key, lapsed>>

(* Checkpoint::verify, under a published key.                              *)
SignatureValid(c, k) == c.signed_by = k

(* Every checkpoint ever signed verifies under the key the server now      *)
(* publishes, across crashes anywhere in a start and files the server      *)
(* refuses, unless a key could not be saved or read back.                  *)
KeySurvives == lapsed \/ key = NoKey \/ \A c \in signed : SignatureValid(c, key)
=============================================================================
