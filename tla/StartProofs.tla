----------------------------- MODULE StartProofs -----------------------------
(***************************************************************************)
(* Proofs about how the program starts.                                    *)
(*                                                                         *)
(* From a desktop session (ConfigFile, Autostart): config.toml implements  *)
(* the atomic register, for any processes and any settings, as long as no  *)
(* two processes are inside load() or save() at the same time; the CLI and *)
(* the daemon keep it one, and the last autostart command given while no   *)
(* daemon ran decides.                                                     *)
(*                                                                         *)
(* At boot (Headless), for every set of configurations, any number of      *)
(* failing iptables commands and any number of starts: what the boot kill  *)
(* switch promises while it is up, and which steps may open a closed host. *)
(***************************************************************************)
EXTENDS Autostart, Headless, TLAPS

----------------------------------------------------------------------------
(* ConfigFile: load() and save() of any processes *)

(* Between its steps the only process that saves owns the temporary file:  *)
(* it is empty while the process writes and complete when it is renamed;   *)
(* a file about to be set aside is the one that did not parse.             *)
OwnsTmp(p) ==
    /\ At(p, "backup") => conf.kind = "cut"
    /\ At(p, "write") => save[p].fd = "tmp" /\ tmp.kind = "empty"
    /\ At(p, "rename") => tmp = Good(save[p].val)

FileInv ==
    /\ FileTypeOK
    /\ \A p, q \in Procs : p # q => At(p, "idle") \/ At(q, "idle")
    /\ \A p \in Procs : OwnsTmp(p)

(* load() returns settings, whatever the file holds. *)
LEMMA LoadType == \A f \in Contents : Load(f) \in Configs
  BY ConfigAssumption DEF Contents, Load

(* The contents that loads and saves put into a file are contents. *)
LEMMA ContentTypes ==
    /\ \A c \in Configs : Good(c) \in Contents /\ Load(Good(c)) = c
    /\ \A k \in Kinds \ {"old", "good"} : Plain(k) \in Contents /\ Load(Plain(k)) = Default
  BY ConfigAssumption DEF Contents, Kinds, Plain, Good, Load

(* Every start of the program finds a file nobody is writing. *)
LEMMA FileInitInv == FileInit => FileInv
  <1> SUFFICES ASSUME FileInit PROVE FileInv
    OBVIOUS
  <1>1. FileTypeOK
    BY ContentTypes, ConfigAssumption DEF FileInit, FileTypeOK, Idle, Kinds
  <1>2. \A p \in Procs : At(p, "idle")
    BY DEF FileInit, At, Idle
  <1>3. \A p \in Procs : OwnsTmp(p)
    BY <1>2 DEF OwnsTmp, At
  <1> QED
    BY <1>1, <1>2, <1>3 DEF FileInv

(* A step of the one process that is not idle keeps the invariant: what it *)
(* leaves alone stays idle.                                                *)
LEMMA OneAtATime ==
    ASSUME NEW p \in Procs, NEW s, FileInv, \A q \in Procs \ {p} : At(q, "idle"),
           save' = [save EXCEPT ![p] = s], FileTypeOK', OwnsTmp(p)'
    PROVE  FileInv'
  <1>1. \A q \in Procs \ {p} : At(q, "idle")'
    BY DEF At, FileInv, FileTypeOK
  <1>2. \A q \in Procs \ {p} : OwnsTmp(q)'
    BY <1>1 DEF OwnsTmp, At
  <1> QED
    BY <1>1, <1>2 DEF FileInv

(* With nobody else inside save(), a rename moves no descriptor. *)
LEMMA NobodyMoved ==
    ASSUME NEW p \in Procs, NEW s, FileTypeOK, \A q \in Procs \ {p} : At(q, "idle"),
           NEW a, NEW b, NEW c, NEW d
    PROVE  [MoveFds(MoveFds(save, a, b), c, d) EXCEPT ![p] = s] = [save EXCEPT ![p] = s]
  <1>1. \A q \in Procs \ {p} : MoveFds(MoveFds(save, a, b), c, d)[q] = save[q]
    BY DEF MoveFds, At
  <1>2. /\ DOMAIN MoveFds(MoveFds(save, a, b), c, d) = Procs
        /\ DOMAIN save = Procs
    BY DEF MoveFds, FileTypeOK
  <1>3. save = [q \in Procs |-> save[q]]
    BY DEF FileTypeOK
  <1> QED
    BY <1>1, <1>2, <1>3 DEF MoveFds

(* Every call of load() and save(), every failure of one and every edit    *)
(* keeps the invariant, one process at a time.                             *)
LEMMA FileStepInv ==
    ASSUME ~Overlap, FileInv, [FileNext]_fileVars
    PROVE  FileInv'
  <1> USE ConfigAssumption
  <1>0. CASE UNCHANGED fileVars
    <2>1. FileTypeOK' /\ \A p \in Procs : OwnsTmp(p)' /\ \A at : At(p, at)' = At(p, at)
      BY <1>0 DEF FileInv, FileTypeOK, fileVars, OwnsTmp, At
    <2> QED
      BY <2>1 DEF FileInv
  <1>1. ASSUME NEW p \in Procs, BeginLoad(p) PROVE FileInv'
    <2>1. \A q \in Procs \ {p} : At(q, "idle")
      BY <1>1 DEF BeginLoad, Alone
    <2>2. Load(conf) \in Configs
      BY LoadType DEF FileInv, FileTypeOK
    <2>3. FileTypeOK'
      BY <1>1, <2>2 DEF FileInv, FileTypeOK, BeginLoad, Goto, Idle, Saving
    <2>4. OwnsTmp(p)'
      BY <1>1 DEF FileInv, FileTypeOK, BeginLoad, Goto, Idle, Saving, OwnsTmp, At
    <2> QED
      BY <1>1, <2>1, <2>3, <2>4, OneAtATime DEF BeginLoad, Goto
  <1>2. ASSUME NEW p \in Procs, NEW c \in Configs, BeginSave(p, c) PROVE FileInv'
    <2>1. \A q \in Procs \ {p} : At(q, "idle")
      BY <1>2 DEF BeginSave, Alone
    <2>3. FileTypeOK'
      BY <1>2 DEF FileInv, FileTypeOK, BeginSave, Goto, Saving
    <2>4. OwnsTmp(p)'
      BY <1>2 DEF FileInv, FileTypeOK, BeginSave, Goto, Saving, OwnsTmp, At
    <2> QED
      BY <1>2, <2>1, <2>3, <2>4, OneAtATime DEF BeginSave, Goto
  <1>3. ASSUME NEW p \in Procs, FileSteps(p) PROVE FileInv'
    <2>1. ~At(p, "idle") /\ \A q \in Procs \ {p} : At(q, "idle")
      BY <1>3 DEF FileInv, FileSteps, Backup, Open, Write, Rename, Abandon, At
    <2>2. CASE Backup(p)
      <3>1. save' = [save EXCEPT ![p] = Saving(Default)]
        BY <2>1, <2>2, NobodyMoved DEF Backup, FileInv
      <3>2. FileTypeOK'
        <4>1. Plain("none") \in Contents
          BY ContentTypes DEF Kinds
        <4>2. bak' \in Contents /\ conf' \in Contents /\ tmp' \in Contents /\ edits' \in Nat
          BY <2>2, <4>1 DEF Backup, FileInv, FileTypeOK
        <4> QED
          BY <3>1, <4>2 DEF FileInv, FileTypeOK, Saving
      <3>3. OwnsTmp(p)'
        BY <3>1 DEF FileInv, FileTypeOK, Saving, OwnsTmp, At
      <3> QED
        BY <2>1, <3>1, <3>2, <3>3, OneAtATime
    <2>3. CASE Open(p)
      <3>1. FileTypeOK'
        BY <2>3, ContentTypes DEF Open, Goto, FileInv, FileTypeOK, Kinds
      <3>2. OwnsTmp(p)'
        BY <2>3 DEF Open, Goto, Plain, FileInv, FileTypeOK, OwnsTmp, At
      <3> QED
        BY <2>1, <2>3, <3>1, <3>2, OneAtATime DEF Open, Goto
    <2>4. CASE Write(p)
      <3>1. tmp' = Good(save[p].val) /\ conf' = conf /\ bak' = bak
        BY <2>4 DEF Write, Put, Target, FileInv, OwnsTmp
      <3>2. FileTypeOK'
        BY <2>4, <3>1, ContentTypes DEF Write, Goto, FileInv, FileTypeOK
      <3>3. OwnsTmp(p)'
        BY <2>4, <3>1 DEF Write, Goto, FileInv, FileTypeOK, OwnsTmp, At
      <3> QED
        BY <2>1, <2>4, <3>2, <3>3, OneAtATime DEF Write, Goto
    <2>5. CASE Rename(p)
      <3>1. save' = [save EXCEPT ![p] = Idle]
        BY <2>1, <2>5, NobodyMoved DEF Rename, FileInv
      <3>2. FileTypeOK'
        <4>1. Plain("none") \in Contents
          BY ContentTypes DEF Kinds
        <4>2. bak' \in Contents /\ conf' \in Contents /\ tmp' \in Contents /\ edits' \in Nat
          BY <2>5, <4>1 DEF Rename, FileInv, FileTypeOK
        <4> QED
          BY <3>1, <4>2 DEF FileInv, FileTypeOK, Idle
      <3>3. OwnsTmp(p)'
        BY <3>1 DEF FileInv, FileTypeOK, Idle, OwnsTmp, At
      <3> QED
        BY <2>1, <3>1, <3>2, <3>3, OneAtATime
    <2>6. CASE Abandon(p)
      <3>1. FileTypeOK'
        BY <2>6, ContentTypes DEF Abandon, Put, Goto, FileInv, FileTypeOK, Idle, Kinds
      <3>2. OwnsTmp(p)'
        BY <2>6 DEF Abandon, Goto, Idle, FileInv, FileTypeOK, OwnsTmp, At
      <3> QED
        BY <2>1, <2>6, <3>1, <3>2, OneAtATime DEF Abandon, Goto
    <2> QED
      BY <1>3, <2>2, <2>3, <2>4, <2>5, <2>6 DEF FileSteps
  <1>4. ASSUME NEW f \in Contents, Edit(f) PROVE FileInv'
    <2>1. FileTypeOK'
      BY <1>4 DEF Edit, FileInv, FileTypeOK
    <2>2. \A p \in Procs : OwnsTmp(p)' /\ \A at : At(p, at)' = At(p, at)
      BY <1>4 DEF Edit, FileInv, OwnsTmp, At
    <2> QED
      BY <2>1, <2>2 DEF FileInv
  <1> QED
    BY <1>0, <1>1, <1>2, <1>3, <1>4 DEF FileNext

(* The steps of the file are steps of the register: beginning to save,     *)
(* renaming and giving up are Save, TakeEffect and GiveUp, and no other    *)
(* call of load() or save() changes what a load returns.                   *)
LEMMA FileStepRefines ==
    ASSUME ~Overlap, FileInv, FileInv', [FileNext]_fileVars
    PROVE  [Register!Next]_(Register!vars)
  <1> USE ConfigAssumption
  <1> DEFINE value == Load(conf)
  <1>t. /\ Pending = [p \in Procs |-> Pending[p]]
        /\ Pending' = [p \in Procs |-> Pending'[p]]
        /\ value \in Configs /\ value' \in Configs
    BY LoadType DEF Pending, FileInv, FileTypeOK
  <1>0. CASE UNCHANGED fileVars
    BY <1>0 DEF fileVars, Register!vars, Pending
  <1>1. ASSUME NEW p \in Procs, NEW c \in Configs, value' = value, edits' = edits,
               save' = [save EXCEPT ![p] = Saving(c)], save[p].pc \in {"idle", "backup"}
        PROVE  Register!Next
    <2>1. Pending[p] = None /\ Pending' = [Pending EXCEPT ![p] = c]
      BY <1>1 DEF Pending, Saving, FileInv, FileTypeOK
    <2> QED
      BY <1>1, <2>1 DEF Register!Next, Register!Save
  <1>2. ASSUME NEW p \in Procs, value' = value, edits' = edits,
               NEW s, save' = [save EXCEPT ![p] = s],
               s.pc \in {"open", "write", "rename"}, s.val = save[p].val,
               save[p].pc \in {"open", "write", "rename"}
        PROVE  UNCHANGED Register!vars
    <2>1. Pending' = Pending
      BY <1>2 DEF Pending, FileInv, FileTypeOK
    <2> QED
      BY <1>2, <2>1 DEF Register!vars
  <1>3. ASSUME NEW p \in Procs, BeginLoad(p) PROVE [Register!Next]_(Register!vars)
    <2>1. CASE conf.kind \in {"empty", "old"}
      BY <1>1, <1>3, <1>t, <2>1 DEF BeginLoad, Goto, At
    <2>2. CASE conf.kind \notin {"empty", "old"}
      <3>1. Pending' = Pending
        BY <1>3, <2>2 DEF BeginLoad, Goto, At, Pending, Idle, FileInv, FileTypeOK
      <3> QED
        BY <1>3, <3>1 DEF BeginLoad, Register!vars
    <2> QED
      BY <2>1, <2>2
  <1>4. ASSUME NEW p \in Procs, NEW c \in Configs, BeginSave(p, c) PROVE Register!Next
    BY <1>1, <1>4 DEF BeginSave, Goto, At
  <1>5. ASSUME NEW p \in Procs, FileSteps(p) PROVE [Register!Next]_(Register!vars)
    <2>1. \A q \in Procs \ {p} : At(q, "idle")
      BY <1>5 DEF FileInv, FileSteps, Backup, Open, Write, Rename, Abandon, At
    <2>2. CASE Backup(p)
      <3>1. save' = [save EXCEPT ![p] = Saving(Default)]
        BY <2>1, <2>2, NobodyMoved DEF Backup, FileInv
      <3>2. value' = value
        BY <2>2 DEF Backup, FileInv, OwnsTmp, Load, Plain
      <3> QED
        BY <1>1, <2>2, <3>1, <3>2 DEF Backup, At
    <2>3. CASE Open(p)
      <3> DEFINE s == [save[p] EXCEPT !.pc = "write", !.fd = "tmp"]
      <3>1. s.pc = "write" /\ s.val = save[p].val
        BY DEF FileInv, FileTypeOK
      <3>2. save' = [save EXCEPT ![p] = s] /\ value' = value /\ edits' = edits
        BY <2>3 DEF Open, Goto
      <3> HIDE DEF s
      <3> QED
        BY <1>2, <2>3, <3>1, <3>2 DEF Open, At
    <2>4. CASE Write(p)
      <3>1. conf' = conf
        BY <2>4 DEF Write, Put, FileInv, OwnsTmp
      <3> QED
        <4> DEFINE s == [save[p] EXCEPT !.pc = "rename"]
        <4>1. s.pc = "rename" /\ s.val = save[p].val
          BY DEF FileInv, FileTypeOK
        <4>2. save' = [save EXCEPT ![p] = s] /\ value' = value /\ edits' = edits
          BY <2>4, <3>1 DEF Write, Goto
        <4> HIDE DEF s
        <4> QED
          BY <1>2, <2>4, <4>1, <4>2 DEF Write, At
    <2>5. CASE Rename(p)
      <3>1. save' = [save EXCEPT ![p] = Idle]
        BY <2>1, <2>5, NobodyMoved DEF Rename, FileInv
      <3>2. value' = save[p].val /\ save[p].val \in Configs
        BY <2>5, ContentTypes DEF Rename, FileInv, FileTypeOK, OwnsTmp
      <3>3. Pending[p] = save[p].val /\ Pending' = [Pending EXCEPT ![p] = None]
        <4>1. save[p].pc = "rename" /\ DOMAIN save = Procs
          BY <2>5 DEF Rename, At, FileInv, FileTypeOK
        <4> QED
          BY <3>1, <4>1 DEF Pending, Idle
      <3> QED
        BY <2>5, <3>2, <3>3 DEF Rename, Register!Next, Register!TakeEffect
    <2>6. CASE Abandon(p)
      <3>1. value' = value /\ edits' = edits
        BY <2>6 DEF Abandon, Put, FileInv, OwnsTmp
      <3>2. CASE At(p, "backup")
        <4>1. Pending' = Pending
          BY <2>6, <3>2 DEF Abandon, Goto, At, Pending, Idle, FileInv, FileTypeOK
        <4> QED
          BY <3>1, <4>1 DEF Register!vars
      <3>3. CASE ~At(p, "backup")
        <4>1. Pending[p] # None /\ Pending' = [Pending EXCEPT ![p] = None]
          <5>1. /\ save[p].pc \notin {"idle", "backup"} /\ save[p].val # None
                /\ save' = [save EXCEPT ![p] = Idle] /\ DOMAIN save = Procs
            BY <2>6, <3>3 DEF Abandon, Goto, At, FileInv, FileTypeOK
          <5> QED
            BY <5>1 DEF Pending, Idle
        <4> QED
          BY <3>1, <4>1 DEF Register!Next, Register!GiveUp
      <3> QED
        BY <3>2, <3>3
    <2> QED
      BY <1>5, <2>2, <2>3, <2>4, <2>5, <2>6 DEF FileSteps
  <1>6. ASSUME NEW f \in Contents, Edit(f) PROVE Register!Next
    BY <1>6, <1>t DEF Edit, Pending, Register!Next, Register!Edit
  <1> QED
    BY <1>0, <1>3, <1>4, <1>5, <1>6 DEF FileNext

(* While uses of the file do not overlap, the temporary file belongs to    *)
(* the one process that saves, and is complete when it is renamed.         *)
THEOREM FileInvariant == ASSUME ~Overlap PROVE FileSpec => []FileInv
  <1>1. FileInv /\ [FileNext]_fileVars => FileInv'
    BY FileStepInv
  <1> QED
    BY FileInitInv, <1>1, PTL DEF FileSpec

(* config.toml is the atomic register ConfigRegister describes: a save is  *)
(* complete or has not happened, wherever a process fails or dies.         *)
THEOREM FileIsRegister == ASSUME ~Overlap PROVE FileSpec => AtomicSaves
  <1>1. FileInit => Register!Init
    BY LoadType DEF FileInit, Register!Init, Pending, Idle
  <1>2. FileInv /\ FileInv' /\ [FileNext]_fileVars => [Register!Next]_(Register!vars)
    BY FileStepRefines
  <1> QED
    BY FileInvariant, <1>1, <1>2, PTL DEF FileSpec, AtomicSaves, Register!Spec

----------------------------------------------------------------------------
(* Autostart: the daemon and the CLI *)

allVars == <<fileVars, startVars>>

On == word = "on"

(* A process that is not running is not inside load() or save(). *)
Attended ==
    /\ daemon.pc = "down" => At("daemon", "idle")
    /\ cli.pc \in {"idle", "load"} => At("cli", "idle")

(* What a standing word fixes: the entry, the file, the daemon's copy and  *)
(* whatever the daemon is saving agree with it.                            *)
Agreed ==
    word # "none" =>
        /\ cli.pc = "idle" /\ desktop = On /\ Load(conf).auto = On
        /\ daemon.pc # "down" => daemon.mem.auto = On
        /\ ~At("daemon", "idle") => save["daemon"].val.auto = On

StartInv == FileInv /\ StartTypeOK /\ Attended /\ Agreed

(* What a step inside load() or save() does to the rest: the other process *)
(* is untouched, and the file holds what it held or what was being saved.  *)
LEMMA StepEffect ==
    ASSUME ~Overlap, FileInv, NEW p \in Procs, FileSteps(p)
    PROVE  /\ Load(conf)' \in {Load(conf), save[p].val}
           /\ \A q \in Procs \ {p} : save'[q] = save[q]
           /\ \/ At(p, "idle")'
              \/ save'[p].val = save[p].val
              \/ save'[p].val = Default /\ Load(conf) = Default
           /\ ~At(p, "idle")
  <1>1. ~At(p, "idle") /\ \A q \in Procs \ {p} : At(q, "idle")
    BY DEF FileInv, FileSteps, Backup, Open, Write, Rename, Abandon, At
  <1>2. FileTypeOK /\ OwnsTmp(p)
    BY DEF FileInv
  <1>3. CASE Backup(p)
    <2>1. save' = [save EXCEPT ![p] = Saving(Default)]
      BY <1>1, <1>2, <1>3, NobodyMoved DEF Backup
    <2>2. Load(conf) = Default /\ Load(conf)' = Default
      BY <1>2, <1>3 DEF Backup, OwnsTmp, Load, Plain
    <2> QED
      BY <1>1, <1>2, <2>1, <2>2 DEF FileTypeOK, Saving
  <1>4. CASE Open(p)
    BY <1>1, <1>2, <1>4 DEF Open, Goto, FileTypeOK
  <1>5. CASE Write(p)
    <2>1. conf' = conf
      BY <1>2, <1>5 DEF Write, Put, OwnsTmp
    <2> QED
      BY <1>1, <1>2, <1>5, <2>1 DEF Write, Goto, FileTypeOK
  <1>6. CASE Rename(p)
    <2>1. save' = [save EXCEPT ![p] = Idle]
      BY <1>1, <1>2, <1>6, NobodyMoved DEF Rename
    <2>2. Load(conf)' = save[p].val
      BY <1>2, <1>6, ContentTypes DEF Rename, OwnsTmp, FileTypeOK
    <2> QED
      BY <1>1, <1>2, <2>1, <2>2 DEF FileTypeOK, Idle, At
  <1>7. CASE Abandon(p)
    <2>1. conf' = conf
      BY <1>2, <1>7 DEF Abandon, Put, OwnsTmp
    <2> QED
      BY <1>1, <1>2, <1>7, <2>1 DEF Abandon, Goto, Idle, At, FileTypeOK
  <1> QED
    BY <1>3, <1>4, <1>5, <1>6, <1>7 DEF FileSteps

(* Whatever the CLI and the daemon do, to the file it is load, save, a     *)
(* failure or an edit.                                                     *)
LEMMA StartIsFile ==
    ASSUME StartTypeOK, [StartNext]_allVars
    PROVE  [FileNext]_fileVars
  <1> USE AutostartAssumption
  <1>0. "cli" \in Procs /\ "daemon" \in Procs
    OBVIOUS
  <1>1. CASE UNCHANGED allVars
    BY <1>1 DEF allVars
  <1>2. ASSUME NEW action, CliAutostart(action) PROVE UNCHANGED fileVars
    BY <1>2 DEF CliAutostart
  <1>3. ASSUME CliLoads \/ DaemonStarts \/ Reloads PROVE FileNext
    BY <1>0, <1>3 DEF CliLoads, DaemonStarts, Reloads, FileNext
  <1>4. CASE CliSaves
    <2>1. [cli.val EXCEPT !.auto = cli.want] \in Configs
      BY DEF StartTypeOK
    <2> QED
      BY <1>0, <1>4, <2>1 DEF CliSaves, FileNext
  <1>5. CASE CliExits
    BY <1>5 DEF CliExits
  <1>6. ASSUME NEW p \in Procs, Dies(p) PROVE [FileNext]_fileVars
    BY <1>6 DEF Dies, FileNext, FileSteps
  <1>7. CASE Migrates
    <2>1. [daemon.mem EXCEPT !.auto = TRUE] \in Configs
      BY DEF StartTypeOK
    <2> QED
      BY <1>0, <1>7, <2>1 DEF Migrates, FileNext
  <1>8. CASE SetsKillSwitch
    <2>1. [daemon.mem EXCEPT !.ks = ~@] \in Configs
      BY DEF StartTypeOK
    <2> QED
      BY <1>0, <1>8, <2>1 DEF SetsKillSwitch, FileNext
  <1>9. CASE TrayTogglesAutostart
    <2>1. [daemon.mem EXCEPT !.auto = ~desktop] \in Configs
      BY DEF StartTypeOK
    <2> QED
      BY <1>0, <1>9, <2>1 DEF TrayTogglesAutostart, FileNext
  <1>10. CASE Files \/ UserEdits
    BY <1>10 DEF Files, UserEdits, FileNext
  <1> QED
    BY <1>0, <1>1, <1>2, <1>3, <1>4, <1>5, <1>6, <1>7, <1>8, <1>9, <1>10
    DEF StartNext, CliDies, DaemonStops

(* The steps that begin a load or a save touch one process and no file. *)
LEMMA BeginEffect ==
    ASSUME FileTypeOK, NEW p \in Procs, NEW c \in Configs, BeginLoad(p) \/ BeginSave(p, c)
    PROVE  /\ Load(conf)' = Load(conf) /\ At(p, "idle")
           /\ \A q \in Procs \ {p} : save'[q] = save[q]
           /\ BeginSave(p, c) => save'[p].val = c
           /\ BeginLoad(p) => save'[p].val \in {Load(conf), Default}
           /\ BeginLoad(p) /\ save'[p].val # Load(conf) => At(p, "idle")'
  BY DEF BeginLoad, BeginSave, Goto, Saving, Idle, At, FileTypeOK, Load

(* A process that dies leaves the file what it was to a reader. *)
LEMMA DiesEffect ==
    ASSUME FileInv, NEW p \in Procs, Dies(p)
    PROVE  /\ Load(conf)' = Load(conf) /\ At(p, "idle")'
           /\ \A q \in Procs \ {p} : save'[q] = save[q]
  <1>1. conf' = conf
    BY DEF Dies, fileVars, Abandon, Put, FileInv, OwnsTmp
  <1> QED
    BY <1>1 DEF Dies, fileVars, Abandon, Goto, At, Idle, FileInv, FileTypeOK

(* The CLI's and the daemon's state keep their types. *)
LEMMA StartTypeStep ==
    ASSUME StartTypeOK, FileTypeOK', [StartNext]_allVars
    PROVE  StartTypeOK'
  <1> USE AutostartAssumption, ConfigAssumption
  <1>0. Load(conf) \in Configs
    BY LoadType DEF StartTypeOK, FileTypeOK
  <1>1. desktop' \in BOOLEAN /\ policy' \in BOOLEAN /\ oldUnit' \in BOOLEAN
    BY Zenon DEF StartTypeOK, StartNext, allVars, startVars, CliAutostart, CliLoads, CliSaves,
       CliExits, CliDies, DaemonStarts, Migrates, SetsKillSwitch, TrayTogglesAutostart,
       Reloads, DaemonStops, Files, UserEdits, SetEntry, SetEntryFails, Enable, EnableFails,
       Disable, DisableFails, InstallRestartPolicy, RemoveRestartPolicy, CleanupOldSystemd
  <1>2. daemon' \in [pc : {"down", "starting", "up"}, mem : Configs]
    <2>1. CASE DaemonStarts \/ DaemonStops
      BY <1>0, <2>1 DEF DaemonStarts, DaemonStops, NoDaemon
    <2>2. CASE Reloads
      BY <1>0, <2>2 DEF Reloads, StartTypeOK
    <2>3. CASE Migrates
      <3>1. [daemon.mem EXCEPT !.auto = TRUE] \in Configs
        BY DEF StartTypeOK
      <3> QED
        <4> DEFINE mem == [daemon.mem EXCEPT !.auto = TRUE]
        <4>1. daemon' = [pc |-> "up", mem |-> mem] \/ daemon' = [daemon EXCEPT !.pc = "up"]
          BY <2>3 DEF Migrates
        <4>2. mem \in Configs
          BY <3>1
        <4> HIDE DEF mem
        <4> QED
          BY <4>1, <4>2 DEF StartTypeOK
    <2>4. CASE SetsKillSwitch
      BY <2>4 DEF SetsKillSwitch, StartTypeOK
    <2>5. CASE TrayTogglesAutostart
      <3>1. [daemon.mem EXCEPT !.auto = ~desktop] \in Configs
        BY DEF StartTypeOK
      <3> QED
        BY <2>5, <3>1 DEF TrayTogglesAutostart, StartTypeOK
    <2>6. CASE UNCHANGED daemon
      BY <2>6 DEF StartTypeOK
    <2> QED
      BY <2>1, <2>2, <2>3, <2>4, <2>5, <2>6 DEF StartNext, allVars, startVars, CliAutostart,
         CliLoads, CliSaves, CliExits, CliDies, Files, UserEdits
  <1>3. cli' \in [pc : {"idle", "load", "set", "exit"}, want : BOOLEAN, val : Configs]
    <2>1. ASSUME NEW action, CliAutostart(action)
          PROVE  cli' \in [pc : {"idle", "load", "set", "exit"}, want : BOOLEAN, val : Configs]
      <3> DEFINE on == IF action = "toggle" THEN ~desktop ELSE action = "on"
      <3>1. on \in BOOLEAN
        BY DEF StartTypeOK
      <3>2. cli' = [NoCli EXCEPT !.pc = "load", !.want = on] \/ UNCHANGED cli
        BY <2>1 DEF CliAutostart
      <3> HIDE DEF on
      <3> QED
        BY <3>1, <3>2 DEF NoCli, StartTypeOK
    <2>2. CASE CliLoads
      BY <1>0, <2>2 DEF CliLoads, StartTypeOK
    <2>3. CASE CliSaves
      BY <2>3 DEF CliSaves, StartTypeOK
    <2>4. CASE CliExits \/ CliDies
      <3>1. NoCli \in [pc : {"idle", "load", "set", "exit"}, want : BOOLEAN, val : Configs]
        BY DEF NoCli
      <3>2. cli' = NoCli
        BY <2>4 DEF CliExits, CliDies
      <3> QED
        BY <3>1, <3>2
    <2>5. CASE UNCHANGED cli
      BY <2>5 DEF StartTypeOK
    <2> QED
      BY <2>1, <2>2, <2>3, <2>4, <2>5 DEF StartNext, allVars, startVars, DaemonStarts, Migrates,
         SetsKillSwitch, TrayTogglesAutostart, Reloads, DaemonStops, Files, UserEdits
  <1>4. word' \in {"none", "on", "off"}
    BY DEF StartTypeOK, StartNext, allVars, startVars, CliAutostart, CliLoads, CliSaves,
       CliExits, CliDies, DaemonStarts, Migrates, SetsKillSwitch, TrayTogglesAutostart,
       Reloads, DaemonStops, Files, UserEdits
  <1> QED
    BY <1>1, <1>2, <1>3, <1>4 DEF StartTypeOK

(* Every action keeps the word and what it fixes. *)
LEMMA StartStepInv ==
    ASSUME ~Overlap, StartInv, [StartNext]_allVars
    PROVE  StartInv'
  <1> USE AutostartAssumption, ConfigAssumption
  <1>0. "cli" \in Procs /\ "daemon" \in Procs /\ FileTypeOK /\ Load(conf) \in Configs
    BY LoadType DEF StartInv, FileInv, FileTypeOK
  <1>1. FileInv'
    BY StartIsFile, FileStepInv DEF StartInv
  <1>2. StartTypeOK'
    BY <1>1, StartTypeStep DEF StartInv, FileInv
  <1> SUFFICES Attended' /\ Agreed'
    BY <1>1, <1>2 DEF StartInv
  <1>3. CASE UNCHANGED allVars
    BY <1>3 DEF allVars, fileVars, startVars, StartInv, Attended, Agreed, At, On
  <1>4. ASSUME NEW action, CliAutostart(action) PROVE Attended' /\ Agreed'
    BY <1>4 DEF CliAutostart, fileVars, NoCli, StartInv, StartTypeOK, Attended, Agreed, At
  <1>5. CASE CliLoads
    BY <1>0, <1>5, BeginEffect DEF CliLoads, StartInv, StartTypeOK, Attended, Agreed, At
  <1>6. CASE CliSaves
    <2>1. [cli.val EXCEPT !.auto = cli.want] \in Configs
      BY DEF StartInv, StartTypeOK
    <2> QED
      BY <1>0, <1>6, <2>1, BeginEffect DEF CliSaves, StartInv, StartTypeOK, Attended, Agreed, At
  <1>7. CASE CliExits
    BY <1>7 DEF CliExits, fileVars, NoCli, StartInv, StartTypeOK, Attended, Agreed, At, On
  <1>8. CASE CliDies
    BY <1>0, <1>8, DiesEffect DEF CliDies, NoCli, StartInv, Attended, Agreed, At, On
  <1>9. CASE DaemonStarts
    BY <1>0, <1>9, BeginEffect DEF DaemonStarts, StartInv, Attended, Agreed, At, On
  <1>10. CASE Migrates
    <2>1. [daemon.mem EXCEPT !.auto = TRUE] \in Configs
      BY DEF StartInv, StartTypeOK
    <2> QED
      BY <1>0, <1>10, <2>1, BeginEffect
      DEF Migrates, DaemonIdle, fileVars, StartInv, StartTypeOK, Attended, Agreed, At, On
  <1>11. CASE SetsKillSwitch
    <2>1. [daemon.mem EXCEPT !.ks = ~@] \in Configs
      BY DEF StartInv, StartTypeOK
    <2> QED
      BY <1>0, <1>11, <2>1, BeginEffect
      DEF SetsKillSwitch, StartInv, StartTypeOK, Attended, Agreed, At, On
  <1>12. CASE TrayTogglesAutostart
    <2>1. [daemon.mem EXCEPT !.auto = ~desktop] \in Configs
      BY DEF StartInv, StartTypeOK
    <2> QED
      BY <1>0, <1>12, <2>1, BeginEffect
      DEF TrayTogglesAutostart, fileVars, StartInv, StartTypeOK, Attended, Agreed, At
  <1>13. CASE Reloads
    BY <1>0, <1>13, BeginEffect DEF Reloads, StartInv, StartTypeOK, Attended, Agreed, At, On
  <1>14. CASE DaemonStops
    BY <1>0, <1>14, DiesEffect DEF DaemonStops, NoDaemon, StartInv, Attended, Agreed, At, On
  <1>15. ASSUME NEW p \in Procs, FileSteps(p), UNCHANGED startVars PROVE Attended' /\ Agreed'
    BY <1>0, <1>15, StepEffect DEF startVars, StartInv, Attended, Agreed, At, On
  <1>16. CASE UserEdits
    BY <1>16 DEF UserEdits, Edit, StartInv, Attended, Agreed, At
  <1> QED
    BY <1>3, <1>4, <1>5, <1>6, <1>7, <1>8, <1>9, <1>10, <1>11, <1>12, <1>13, <1>14, <1>15, <1>16
    DEF StartNext, Files

(* The invariant, at every moment of a run of the CLI and the daemon. *)
THEOREM StartInvariant == ASSUME ~Overlap PROVE StartSpec => []StartInv
  <1>1. StartInit => StartInv
    <2>1. ASSUME StartInit PROVE FileInv /\ StartTypeOK
      BY <2>1, FileInitInv, AutostartAssumption, ConfigAssumption
      DEF StartInit, FileInv, StartTypeOK, NoDaemon, NoCli
    <2> QED
      BY <2>1, AutostartAssumption DEF StartInit, StartInv, Attended, Agreed, FileInit, At, Idle
  <1>2. StartInv /\ [StartNext]_allVars => StartInv'
    BY StartStepInv
  <1> QED
    BY <1>1, <1>2, PTL DEF StartSpec, allVars

(* The CLI and the daemon together keep config.toml an atomic register, as *)
(* long as they do not use it at the same moment.                          *)
THEOREM StartIsRegister == ASSUME ~Overlap PROVE StartSpec => AtomicSaves
  <1>1. StartInv /\ [StartNext]_allVars => [FileNext]_fileVars
    BY StartIsFile DEF StartInv
  <1>2. StartInit => FileInit
    BY DEF StartInit
  <1>3. StartSpec => FileSpec
    BY <1>1, <1>2, StartInvariant, PTL DEF StartSpec, FileSpec, allVars
  <1> QED
    BY <1>3, FileIsRegister, PTL

(* The last autostart command that saved auto_connect while no daemon ran  *)
(* decides whether later daemons connect on login.                         *)
THEOREM LastWordAlwaysHolds == ASSUME ~Overlap PROVE StartSpec => []LastWordHolds
  <1>1. StartInv => LastWordHolds
    BY DEF StartInv, Agreed, LastWordHolds, On
  <1> QED
    BY <1>1, StartInvariant, PTL

----------------------------------------------------------------------------
(* Headless: the boot kill switch *)

BootSteps == {"create", "rules", "unhook", "hook"}
Steps == BootSteps \cup {"off", "failed", "dead", "done", "spawn", "connect", "check",
                         "handover", "notify", "ready", "cleanup", "abort"}

BootChains == [exists : BOOLEAN, full : BOOLEAN, jump : BOOLEAN, six : BOOLEAN]

Types ==
    /\ cfg \in Sections
    /\ pc \in Steps
    /\ boot \in BootChains
    /\ rt \in {"none", "under", "over"}
    /\ sup \in {"off", "starting", "running", "ended"}
    /\ tried \in Nat /\ runs \in Nat

\* The supervisor, which may remove the boot chain, is there only once the boot
\* kill switch is done with.
NoSupYet == pc \in BootSteps \cup {"off", "failed", "dead", "done", "spawn"} => sup = "off"

\* While it is being built the chain is not counted on; it is jumped to only when
\* it ends in DROP.
Built ==
    /\ closed => boot.jump /\ boot.full
    /\ pc \in {"rules", "unhook", "hook"} => ~closed
    /\ pc \in {"unhook", "hook"} => boot.full

\* Nothing is there before the first start, and the first start jumps last.
FirstRun ==
    /\ runs = 0 => pc = "off" /\ ~boot.jump
    /\ runs = 1 /\ pc \in BootSteps => ~boot.jump

\* An attempt of auto_connect_nmcli that is made is one max_reconnect_attempts allows.
Allowed ==
    /\ tried <= cfg.attempts
    /\ pc \in BootSteps \cup {"spawn", "connect", "check"} =>
           IF cfg.attempts = 0 THEN tried = 0 ELSE tried < cfg.attempts

HeadInv ==
    /\ Types /\ NoSupYet /\ Built /\ FirstRun /\ Allowed
    /\ pc = "cleanup" => ~cfg.persist

USE DEF Types, BootSteps, Steps

\* A configuration is a record of the [headless] section.
LEMMA ConfigFields ==
    ASSUME NEW c \in Sections
    PROVE  c.attempts \in Nat /\ {c.onBoot, c.auto, c.persist, c.require} \subseteq BOOLEAN
BY HeadlessAssumption

\* What the iptables commands make of the chain.
LEMMA BootEdits ==
    ASSUME NEW b \in BootChains, NEW x \in BOOLEAN
    PROVE  /\ NoBoot \in BootChains /\ ~NoBoot.jump /\ ~NoBoot.full
           /\ [b EXCEPT !.exists = TRUE, !.full = FALSE] \in BootChains
           /\ [b EXCEPT !.exists = TRUE, !.full = FALSE].jump = b.jump
           /\ [b EXCEPT !.jump = TRUE, !.six = x] \in BootChains
           /\ [b EXCEPT !.jump = TRUE, !.six = x].full = b.full
           /\ [b EXCEPT !.jump = TRUE, !.six = x].jump
BY DEF BootChains, NoBoot

\* enable_boot_killswitch keeps the invariant, a failed command included.
LEMMA BootKeeps ==
    ASSUME HeadInv, CreateBootChain \/ AddBootRules \/ RemoveOldJumps \/ InsertBootJump
    PROVE  HeadInv'
<1> USE DEF HeadInv, NoSupYet, Built, FirstRun, Allowed, BootFails, Proceed, MainOnly
<1>1. CASE CreateBootChain
  <2>1. CASE BootFails /\ UNCHANGED <<boot, closed>>
    BY <1>1, <2>1 DEF CreateBootChain
  <2>2. CASE boot' = [boot EXCEPT !.exists = TRUE, !.full = FALSE] /\ pc' = "rules"
    <3>1. boot' \in BootChains /\ boot'.jump = boot.jump
      BY <2>2, BootEdits
    <3> QED BY <1>1, <2>2, <3>1 DEF CreateBootChain
  <2> QED BY <1>1, <2>1, <2>2 DEF CreateBootChain
<1>2. CASE AddBootRules
  BY <1>2 DEF AddBootRules, BootChains
<1>3. CASE RemoveOldJumps
  BY <1>3 DEF RemoveOldJumps, BootChains
<1>4. CASE InsertBootJump
  <2>1. boot \in BootChains /\ pc = "hook" /\ boot.full
    BY <1>4 DEF InsertBootJump
  <2>2. CASE BootFails /\ UNCHANGED <<boot, closed, rt>>
    BY <1>4, <2>1, <2>2 DEF InsertBootJump
  <2>3. ASSUME NEW six \in BOOLEAN, boot' = [boot EXCEPT !.jump = TRUE, !.six = six],
               pc' = "spawn"
        PROVE  HeadInv'
    <3>1. boot' \in BootChains /\ boot'.full /\ boot'.jump
      BY <2>1, <2>3, BootEdits
    <3> QED BY <1>4, <2>1, <2>3, <3>1 DEF InsertBootJump
  <2> QED BY <1>4, <2>2, <2>3 DEF InsertBootJump
<1> QED BY <1>1, <1>2, <1>3, <1>4

\* run_headless from the spawning of the tasks to their abortion keeps it.
LEMMA RunKeeps ==
    ASSUME HeadInv, Spawn \/ AutoConnect \/ CheckActive \/ HandOver \/ NotifyReady
                        \/ Shutdown \/ CleanupAll \/ AbortTasks
    PROVE  HeadInv'
<1> USE ConfigFields DEF HeadInv, NoSupYet, Built, FirstRun, Allowed, Proceed, MainOnly
<1>1. CASE Spawn
  BY <1>1 DEF Spawn
<1>2. CASE AutoConnect
  BY <1>2 DEF AutoConnect, RetryOrGiveUp
<1>3. CASE CheckActive
  BY <1>3 DEF CheckActive, RetryOrGiveUp
<1>4. CASE HandOver
  BY <1>4, BootEdits DEF HandOver
<1>5. CASE NotifyReady
  BY <1>5 DEF NotifyReady
<1>6. CASE Shutdown
  BY <1>6 DEF Shutdown
<1>7. CASE CleanupAll
  BY <1>7, BootEdits DEF CleanupAll
<1>8. CASE AbortTasks
  BY <1>8 DEF AbortTasks
<1> QED BY <1>1, <1>2, <1>3, <1>4, <1>5, <1>6, <1>7, <1>8

\* So do systemd, signals, crashes, the supervisor and NetworkManager.
LEMMA OthersKeep ==
    ASSUME HeadInv, Start \/ Signal \/ Die \/ SupStarts \/ SupSwitches \/ SupConnects
                        \/ SupEnds \/ VpnDrops
    PROVE  HeadInv'
<1> USE ConfigFields DEF HeadInv, NoSupYet, Built, FirstRun, Allowed, Proceed, SupOnly
<1>1. CASE Start
  BY <1>1 DEF Start, Working
<1>2. CASE Signal
  BY <1>2 DEF Signal, Working
<1>3. CASE Die
  BY <1>3 DEF Die, Working
<1>4. CASE SupStarts
  BY <1>4 DEF SupStarts
<1>5. CASE SupSwitches
  BY <1>5 DEF SupSwitches
<1>6. CASE SupConnects
  BY <1>6 DEF SupConnects
<1>7. CASE SupEnds
  <2>1. sup' = "ended" /\ UNCHANGED <<cfg, pc, tried, runs>> /\ sup # "off"
    BY <1>7 DEF SupEnds
  <2>2. CASE UNCHANGED <<rt, boot, closed>>
    BY <2>1, <2>2
  <2>3. CASE rt' = "none" /\ boot' = NoBoot /\ closed' = FALSE
    <3>1. boot' \in BootChains /\ ~boot'.jump
      BY <2>3, BootEdits
    <3> QED BY <2>1, <2>3, <3>1
  <2> QED BY <1>7, <2>2, <2>3 DEF SupEnds
<1>8. CASE VpnDrops
  BY <1>8 DEF VpnDrops
<1> QED BY <1>1, <1>2, <1>3, <1>4, <1>5, <1>6, <1>7, <1>8

\* HeadInv holds at every moment of a headless start (run_headless).
LEMMA HeadAlways == Spec => []HeadInv
<1>1. Init => HeadInv
  BY ConfigFields DEF Init, HeadInv, NoSupYet, Built, FirstRun, Allowed, NoBoot, BootChains
<1>2. HeadInv /\ [Next]_vars => HeadInv'
  <2> SUFFICES ASSUME HeadInv, [Next]_vars
               PROVE  HeadInv'
    OBVIOUS
  <2>1. CASE UNCHANGED vars
    BY <2>1 DEF vars, HeadInv, NoSupYet, Built, FirstRun, Allowed
  <2> QED BY <2>1, BootKeeps, RunKeeps, OthersKeep DEF Next, Main
<1> QED BY <1>1, <1>2, PTL DEF Spec

\* The daemon's values stay in their types; auto_connect_nmcli never counts past
\* max_reconnect_attempts, and no supervisor outlives its daemon.
THEOREM TypeCorrect == Spec => []TypeOK
<1>1. HeadInv => TypeOK
  BY ConfigFields DEF HeadInv, NoSupYet, Allowed, TypeOK, Working, BootChains
<1> QED BY <1>1, HeadAlways, PTL

\* "blocks ALL traffic until VPN connects": while the boot kill switch is up and not
\* given up, nothing leaves that is not for a VPN server or tunnel, whatever signals,
\* crashes, failed commands and toggles of the runtime kill switch come in between.
THEOREM ClosedUntilConnectedHolds == Spec => []ClosedUntilConnected
<1>1. HeadInv => ClosedUntilConnected
  BY DEF HeadInv, Built, ClosedUntilConnected, Leaves, BootDrops
<1> QED BY <1>1, HeadAlways, PTL

\* Public traffic leaves exactly where no chain drops it.
LEMMA PublicLeaves == Leaves("public") <=> rt = "none" /\ ~BootDrops
BY DEF Leaves

\* disable_boot_killswitch after a tunnel was seen, a shutdown that does not persist,
\* the supervisor's kill switch going off and a later start's rebuilding of the chain
\* are the only steps that open a closed host.
THEOREM OpensOnlyOnPurposeHolds == Spec => OpensOnlyOnPurpose
<1> DEFINE OnPurpose == \/ pc = "handover" /\ pc' = "notify"
                        \/ pc = "cleanup" /\ ~cfg.persist
                        \/ rt # "none" /\ rt' = "none"
                        \/ pc \in {"create", "unhook"} /\ runs > 1
<1>1. ASSUME HeadInv, Next, ~Leaves("public"), Leaves("public")'
      PROVE  OnPurpose
  <2>1. (rt # "none" \/ BootDrops) /\ rt' = "none" /\ ~BootDrops'
    BY <1>1, PublicLeaves DEF Leaves, BootDrops
  <2>2. CASE rt # "none"
    BY <2>1, <2>2
  <2>3. CASE rt = "none"
    <3>1. boot.jump /\ boot.full /\ ~(boot'.jump /\ boot'.full)
      BY <2>1, <2>3 DEF BootDrops
    <3>2. CASE Start \/ Signal \/ Die \/ SupStarts \/ SupSwitches \/ SupConnects \/ VpnDrops
      BY <3>1, <3>2 DEF Start, Signal, Die, SupStarts, SupSwitches, SupConnects, VpnDrops, SupOnly
    <3>3. CASE SupEnds
      BY <2>3, <3>1, <3>3 DEF SupEnds
    <3>4. CASE Spawn \/ AutoConnect \/ CheckActive \/ NotifyReady \/ Shutdown \/ AbortTasks
      BY <3>1, <3>4 DEF Spawn, AutoConnect, CheckActive, RetryOrGiveUp, NotifyReady, Shutdown,
                        AbortTasks
    <3>5. CASE HandOver
      BY <3>5 DEF HandOver, Proceed
    <3>6. CASE CleanupAll
      BY <1>1, <3>6 DEF CleanupAll, HeadInv
    <3>7. CASE CreateBootChain \/ RemoveOldJumps
      BY <1>1, <3>1, <3>7 DEF CreateBootChain, RemoveOldJumps, HeadInv, FirstRun
    <3>8. CASE AddBootRules \/ InsertBootJump
      BY <1>1, <3>1, <3>8 DEF AddBootRules, InsertBootJump, HeadInv, BootChains
    <3> QED BY <1>1, <3>2, <3>3, <3>4, <3>5, <3>6, <3>7, <3>8 DEF Next, Main
  <2> QED BY <2>2, <2>3
<1>2. HeadInv /\ [Next]_vars =>
         [~Leaves("public") /\ Leaves("public")' =>
             \/ pc = "handover" /\ pc' = "notify"
             \/ pc = "cleanup" /\ ~cfg.persist
             \/ rt # "none" /\ rt' = "none"
             \/ pc \in {"create", "unhook"} /\ runs > 1]_vars
  BY <1>1
<1> QED BY <1>2, HeadAlways, PTL DEF Spec, OpensOnlyOnPurpose
=============================================================================
