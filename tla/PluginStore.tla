----------------------------- MODULE PluginStore -----------------------------
(***************************************************************************)
(* `dologctl plugin` (cli/src/commands/plugin.rs) over one plugin name: a  *)
(* library is built, signed where it was built or in the plugin directory, *)
(* installed over an earlier one, removed and verified; signing keys are   *)
(* generated, wrapped with a passphrase and unwrapped; and `sign` asks for *)
(* a TOTP code first.  Every command is a process of its own: two of them  *)
(* meet at the files.  Libraries are versions, keys numbers; `scan`, which *)
(* only looks for names of symbols, is left out.                           *)
(***************************************************************************)
EXTENDS Integers

CONSTANTS
  Versions,         \* contents a library may have
  Passphrases,
  EnvironmentSeed,  \* DO_LOG_PLUGIN_SIGNING_KEY, a key of its own
  MaxSeeds,         \* bound on the keys generated
  MaxWindow,        \* bound on the 30-second windows that pass
  Nothing, Broken   \* a file that does not exist, or that was written in part

ASSUME StoreAssumption ==
  /\ MaxSeeds \in Nat
  /\ Nothing \notin {Broken} \cup Nat
  /\ Nothing \notin [seed : Nat \cup {EnvironmentSeed}, version : Versions \cup {Broken}]

VARIABLES
  built, installed, \* the library where it was built and in the plugin directory
  sig_file,         \* the .sig next to the installed one: [seed, version]
  key_file, wrapped, \* the seed file; the DOLOGKEY1 file: [seed, passphrase]
  trusted_keys,     \* the trust store
  withdrawn_keys,   \* revoked.txt
  require_2fa,      \* DO_LOG_PLUGIN_TOTP_SECRET is set
  window,           \* the TOTP counter
  signing,          \* the `sign` under way: [place, seed], or Nothing
  seeds,            \* keys generated so far
  signed_here       \* history: an installed library was once signed in place

libraries == <<built, installed, sig_file>>
keyfiles == <<seeds, key_file, wrapped>>
authority == <<trusted_keys, withdrawn_keys, require_2fa, window>>
storevars == <<libraries, keyfiles, authority, signing, signed_here>>

PluginStoreInit ==
  /\ built = Nothing /\ installed = Nothing /\ sig_file = Nothing
  /\ seeds = 0 /\ key_file = Nothing /\ wrapped = Nothing
  /\ trusted_keys \in {{}, 1..MaxSeeds} /\ withdrawn_keys = {}
  /\ require_2fa \in BOOLEAN /\ window = 0
  /\ signing = Nothing /\ signed_here = FALSE

(***************************************************************************)
(* What is around the tool: the compiler, whoever edits revoked.txt, time. *)
(***************************************************************************)
Build(version) ==
  /\ built' = version
  /\ UNCHANGED <<installed, sig_file, keyfiles, authority, signing, signed_here>>

Revoke(seed) ==
  /\ seed \in trusted_keys
  /\ withdrawn_keys' = withdrawn_keys \cup {seed}
  /\ UNCHANGED <<libraries, keyfiles, trusted_keys, require_2fa, window,
                 signing, signed_here>>

Tick ==
  /\ window < MaxWindow
  /\ window' = window + 1
  /\ UNCHANGED <<libraries, keyfiles, trusted_keys, withdrawn_keys, require_2fa,
                 signing, signed_here>>

(***************************************************************************)
(* Keys.                                                                   *)
(***************************************************************************)

(* keygen overwrites the file it is given. *)
Keygen ==
  /\ seeds < MaxSeeds
  /\ seeds' = seeds + 1 /\ key_file' = seeds + 1
  /\ UNCHANGED <<libraries, wrapped, authority, signing, signed_here>>

WrapKey(passphrase) ==
  /\ key_file # Nothing
  /\ wrapped' = [seed |-> key_file, passphrase |-> passphrase]
  /\ UNCHANGED <<libraries, seeds, key_file, authority, signing, signed_here>>

(* A wrong passphrase does not decrypt. *)
Unwraps(passphrase) == wrapped # Nothing /\ wrapped.passphrase = passphrase

UnwrapKey(passphrase) ==
  /\ Unwraps(passphrase)
  /\ key_file' = wrapped.seed
  /\ UNCHANGED <<libraries, seeds, wrapped, authority, signing, signed_here>>

(***************************************************************************)
(* Sign: the code and the key first, at a prompt, then the library is read *)
(* and the sidecar written, in part when the disk is full.  A signature of *)
(* the library that was built stays with it: nothing copies it.            *)
(***************************************************************************)

(* verify_totp: the code of this window, the next two or the last two; the *)
(* subtraction saturates.                                                  *)
CodeHolds(code) ==
  code \in window..window + 2 \cup {IF window >= n THEN window - n ELSE 0 : n \in 1..2}

SeedFrom(source, passphrase) ==
  CASE source = "key_file"    -> key_file
    [] source = "wrapped_key" -> IF Unwraps(passphrase) THEN wrapped.seed ELSE Nothing
    [] source = "environment" -> EnvironmentSeed

BeginSign(place, source, passphrase, code) ==
  /\ signing = Nothing
  /\ require_2fa => CodeHolds(code)
  /\ SeedFrom(source, passphrase) # Nothing
  /\ signing' = [place |-> place, seed |-> SeedFrom(source, passphrase)]
  /\ UNCHANGED <<libraries, keyfiles, authority, signed_here>>

Signed(version, complete) ==
  IF complete THEN [seed |-> signing.seed, version |-> version] ELSE Broken

FinishSign(complete) ==
  /\ signing # Nothing
  /\ signing' = Nothing
  /\ IF signing.place = "build" \/ installed = Nothing
     THEN UNCHANGED <<sig_file, signed_here>>
     ELSE sig_file' = Signed(installed, complete) /\ signed_here' = TRUE
  /\ UNCHANGED <<built, installed, keyfiles, authority>>

(***************************************************************************)
(* The plugin directory.  Install copies the library and not its sidecar;  *)
(* remove deletes the library and not its sidecar.                         *)
(***************************************************************************)

Install(complete) ==
  /\ built # Nothing
  /\ installed' = IF complete THEN built ELSE Broken
  /\ UNCHANGED <<built, sig_file, keyfiles, authority, signing, signed_here>>

RemovePlugin ==
  /\ installed # Nothing
  /\ installed' = Nothing
  /\ UNCHANGED <<built, sig_file, keyfiles, authority, signing, signed_here>>

PluginStoreNext ==
  \/ \E version \in Versions : Build(version)
  \/ \E seed \in trusted_keys : Revoke(seed)
  \/ Tick \/ Keygen \/ RemovePlugin
  \/ \E passphrase \in Passphrases : WrapKey(passphrase) \/ UnwrapKey(passphrase)
  \/ \E place \in {"build", "plugins"}, passphrase \in Passphrases, code \in 0..window,
        source \in {"key_file", "wrapped_key", "environment"} :
          BeginSign(place, source, passphrase, code)
  \/ \E complete \in BOOLEAN : FinishSign(complete) \/ Install(complete)

PluginStoreSpec == PluginStoreInit /\ [][PluginStoreNext]_storevars

-----------------------------------------------------------------------------

(* list and verify: load_plugin in dev mode, which admits what is unsigned. *)
Loads ==
  /\ installed \notin {Nothing, Broken}
  /\ \/ trusted_keys = {} \/ sig_file = Nothing
     \/ /\ sig_file # Broken /\ sig_file.version = installed
        /\ sig_file.seed \in trusted_keys \ withdrawn_keys

Verdict ==
  IF ~Loads THEN "fail"
  ELSE IF trusted_keys = {} \/ sig_file = Nothing THEN "RED" ELSE "BLUE"

(* Where trust is configured and a plugin was once signed in the plugin     *)
(* directory, no sequence of builds, installations, removals and failed    *)
(* signatures makes another of that name pass as RED, that is unsigned:    *)
(* the sidecar that install and remove leave behind refuses every version  *)
(* but the one it signs.                                                   *)
SignedStaysSigned ==
  signed_here /\ trusted_keys # {} => Verdict # "RED"

=============================================================================
