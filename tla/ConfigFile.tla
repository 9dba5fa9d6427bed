----------------------------- MODULE ConfigFile -----------------------------
(***************************************************************************)
(* config.toml as ConfigManager of src/config/settings.rs reads and writes *)
(* it, from several processes (the daemon and CLI commands) that may die   *)
(* at any system call.  All of them write the same config.toml.tmp.        *)
(*                                                                         *)
(* A file is its inode's content.  A writer keeps its descriptor when      *)
(* another process renames the file underneath it, so fd says where the    *)
(* inode it opened as config.toml.tmp has gone since.                      *)
(***************************************************************************)
EXTENDS Naturals

CONSTANTS
    Procs,
    Configs, Default,   \* the settings and Config::default()
    None,
    Overlap,            \* whether two processes may use the file at once
    MaxEdits            \* bound: times the user's editor writes the file

ASSUME ConfigAssumption ==
    /\ Default \in Configs /\ None \notin Configs
    /\ Overlap \in BOOLEAN /\ MaxEdits \in Nat

VARIABLES
    conf, tmp, bak,   \* config.toml, .toml.tmp, .toml.corrupted
    save,             \* per process, where it is in load() or save()
    edits

fileVars == <<conf, tmp, bak, save, edits>>

----------------------------------------------------------------------------
(* Contents: no file; one that does not parse; TOML that has no version,   *)
(* empty or with settings; settings of this version; TOML that try_into or *)
(* validate() rejects.                                                     *)

Kinds == {"none", "cut", "empty", "old", "good", "invalid"}

Contents ==
    {f \in [kind : Kinds, cfg : Configs] :
        f.kind \notin {"old", "good"} => f.cfg = Default}

Plain(kind) == [kind |-> kind, cfg |-> Default]

Good(c) == [kind |-> "good", cfg |-> c]

(* What load() and load_validated() return for a content. *)
Load(f) == IF f.kind \in {"old", "good"} THEN f.cfg ELSE Default

Idle == [pc |-> "idle", val |-> Default, fd |-> "tmp"]

Saving(c) == [pc |-> "open", val |-> c, fd |-> "tmp"]

FileInit ==
    /\ conf \in Contents /\ tmp = Plain("none") /\ bak = Plain("none")
    /\ save = [p \in Procs |-> Idle]
    /\ edits = 0

Goto(p, s) == save' = [save EXCEPT ![p] = s]

At(p, pc) == save[p].pc = pc

(* Nobody else is between the first and the last call of a load or save. *)
Alone(p) == Overlap \/ \A q \in Procs \ {p} : At(q, "idle")

(* A rename of `from` moves the inode a writer has open. *)
MoveFds(s, from, to) ==
    [q \in Procs |-> IF s[q].pc = "write" /\ s[q].fd = from
                     THEN [s[q] EXCEPT !.fd = to] ELSE s[q]]

----------------------------------------------------------------------------
(* load(): a migrated file is saved, an unreadable one is set aside and    *)
(* replaced.                                                               *)

BeginLoad(p) ==
    /\ At(p, "idle") /\ Alone(p)
    /\ Goto(p, CASE conf.kind = "cut" -> [Idle EXCEPT !.pc = "backup"]
                 [] conf.kind \in {"empty", "old"} -> Saving(Load(conf))
                 [] OTHER -> Idle)
    /\ UNCHANGED <<conf, tmp, bak, edits>>

(* fs::rename(config.toml, config.toml.corrupted), whatever is there now. *)
Backup(p) ==
    /\ At(p, "backup") /\ conf.kind # "none"
    /\ bak' = conf /\ conf' = Plain("none")
    /\ save' = [MoveFds(MoveFds(save, "bak", "gone"), "conf", "bak")
                    EXCEPT ![p] = Saving(Default)]
    /\ UNCHANGED <<tmp, edits>>

(* save(): create and truncate the temporary file, write it, rename it. *)
BeginSave(p, c) ==
    /\ At(p, "idle") /\ Alone(p)
    /\ Goto(p, Saving(c))
    /\ UNCHANGED <<conf, tmp, bak, edits>>

\* Mutant of Open: the file itself is opened and truncated.
OpenInPlace(p) ==
    /\ At(p, "open")
    /\ conf' = Plain("empty")
    /\ Goto(p, [save[p] EXCEPT !.pc = "write", !.fd = "conf"])
    /\ UNCHANGED <<tmp, bak, edits>>

Open(p) ==
    /\ At(p, "open")
    /\ tmp' = Plain("empty")
    /\ Goto(p, [save[p] EXCEPT !.pc = "write", !.fd = "tmp"])
    /\ UNCHANGED <<conf, bak, edits>>

(* Put a content through p's descriptor. *)
Put(p, f) ==
    /\ tmp' = IF save[p].fd = "tmp" THEN f ELSE tmp
    /\ conf' = IF save[p].fd = "conf" THEN f ELSE conf
    /\ bak' = IF save[p].fd = "bak" THEN f ELSE bak

Target(p) == CASE save[p].fd = "tmp" -> tmp [] save[p].fd = "conf" -> conf [] OTHER -> bak

(* Over what another writer put there, the tail of a longer text remains. *)
Write(p) ==
    /\ At(p, "write")
    /\ \/ Put(p, Good(save[p].val))
       \/ Target(p).kind # "empty" /\ Put(p, Plain("cut"))
    /\ Goto(p, [save[p] EXCEPT !.pc = "rename"])
    /\ UNCHANGED edits

Rename(p) ==
    /\ At(p, "rename") /\ tmp.kind # "none"
    /\ conf' = tmp /\ tmp' = Plain("none")
    /\ save' = [MoveFds(MoveFds(save, "conf", "gone"), "tmp", "conf") EXCEPT ![p] = Idle]
    /\ UNCHANGED <<bak, edits>>

(* A call fails, or the process dies; a write may stop half way. *)
Abandon(p) ==
    /\ ~At(p, "idle")
    /\ \/ UNCHANGED <<conf, tmp, bak>>
       \/ At(p, "write") /\ Put(p, Plain("cut"))
    /\ Goto(p, Idle)
    /\ UNCHANGED edits

FileSteps(p) == Backup(p) \/ Open(p) \/ Write(p) \/ Rename(p) \/ Abandon(p)

(* The user's editor: not between the read of an unparsable file and its   *)
(* rename, unless uses overlap.                                            *)
Edit(f) ==
    /\ edits < MaxEdits /\ f # conf
    /\ Overlap \/ \A p \in Procs : ~At(p, "backup")
    /\ conf' = f /\ edits' = edits + 1
    /\ UNCHANGED <<tmp, bak, save>>

FileNext ==
    \/ \E p \in Procs :
        BeginLoad(p) \/ FileSteps(p) \/ \E c \in Configs : BeginSave(p, c)
    \/ \E f \in Contents : Edit(f)

FileSpec == FileInit /\ [][FileNext]_fileVars

----------------------------------------------------------------------------
FileTypeOK ==
    /\ conf \in Contents /\ tmp \in Contents /\ bak \in Contents
    /\ save \in [Procs -> [pc : {"idle", "backup", "open", "write", "rename"},
                           val : Configs, fd : {"tmp", "conf", "bak", "gone"}]]
    /\ edits \in Nat

(* The file is the atomic register ConfigRegister describes. *)
Pending == [p \in Procs |-> IF save[p].pc \in {"idle", "backup"} THEN None ELSE save[p].val]

Register == INSTANCE ConfigRegister
    WITH Values <- Configs, value <- Load(conf), pending <- Pending

(* "Uses atomic write (temp file + rename) to prevent corruption on crash" *)
(* (save(), settings.rs): whatever dies or fails in between, a load        *)
(* returns the settings of the last save that finished, never a mixture,   *)
(* an empty file or a half-written one.                                    *)
AtomicSaves == Register!Spec
=============================================================================
