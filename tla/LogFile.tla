------------------------------ MODULE LogFile ------------------------------
(***************************************************************************)
(* A file behind std::io::BufWriter, as core/src/sink/worm.rs,             *)
(* core/src/sink/security.rs and core/src/security/audit.rs use it.  The   *)
(* file is the sequence of the entries written to it; layer tells how far  *)
(* an entry has come:                                                      *)
(*   "buffer"   in the BufWriter: lost when the process dies,              *)
(*   "cache"    handed to the operating system: lost when the power fails, *)
(*   "media"    forced to the device.                                      *)
(* What survives a crash can be read off any state, so that a crash needs  *)
(* no action.  Bytes are left out: a torn entry counts as lost.            *)
(***************************************************************************)
EXTENDS Naturals, Sequences

Layers == {"buffer", "cache", "media"}

Promote(f, from, to) ==
  [i \in DOMAIN f |->
     IF f[i].layer = from THEN [f[i] EXCEPT !.layer = to] ELSE f[i]]

\* BufWriter::flush
Flushed(f) == Promote(f, "buffer", "cache")

\* File::sync_all on the inner file: it does not see the buffer
Synced(f) == Promote(f, "cache", "media")

\* BufWriter::write_all: the entry fits behind what is buffered, or does not
\* fit and the buffer is spilled first, or is larger than the whole buffer
\* and passes it by.
Writes(f, e) ==
  {Append(f, e), Append(Flushed(f), e), Flushed(Append(f, e))}

\* An entry that survives a power failure
Durable(e) == e.layer = "media"

=============================================================================
