------------------------------ MODULE Install ------------------------------
(***************************************************************************)
(* Setup and uninstall (core/setup, core/config.py, tracing/*/install.py): *)
(* commands edit files that are not theirs alone, config.json with an      *)
(* entry per harness and the settings file of each harness with the hooks. *)
(* An edit reads the file, truncates it and writes it anew.  Claude Code   *)
(* and Cursor read settings that are no JSON as empty, Gemini gives up.    *)
(* Commands are typed one after the other.                                 *)
(***************************************************************************)
EXTENDS Naturals, Sequences

CONSTANTS
  Commands,         (* processes of the command line, each runs one command *)
  Lenient, Strict,  (* harnesses, by how they read settings that are no JSON *)
  MaxCrashes        (* bound on the commands that die                       *)

Harnesses == Lenient \cup Strict

InstallAssumption ==
  /\ Lenient \cap Strict = {} /\ MaxCrashes \in Nat
  /\ {"config", "logging", "own", "users"} \cap Harnesses = {}

VARIABLES
  store,  (* the files: what they are as text, and the keys they hold       *)
  hooks,  (* per command: its plan, how far an edit has come; all: whether  *)
          (* it goes on with the harnesses that are left                    *)
  world   (* broken: the files the user has broken; torn: those a command   *)
          (* died over; crashes; status: what the last command made of a    *)
          (* harness                                                        *)

vars == <<store, hooks, world>>

File(text, keys) == [text |-> text, keys |-> keys]
Blank(file) == file.text \in {"none", "empty"} \/ (file.text = "ok" /\ file.keys = {})

-----------------------------------------------------------------------------
(* The edits; one of config.json gives up if it is no JSON (load_config).  *)

Job(do, h) == [do |-> do, h |-> h]
FileOf(job) == IF job.do \in {"register", "unregister"} THEN job.h ELSE "config"

Fails(job) ==
  store[FileOf(job)].text = "broken" /\ job.do # "wipe" /\ FileOf(job) \notin Lenient

(* remove_harness_entry and the uninstallers leave alone what has nothing. *)
Skips(job) ==
  LET file == store[FileOf(job)] IN
  \/ job.do = "remove" /\ job.h \notin file.keys
  \/ job.do = "unregister" /\ file.text = "none"
  \/ job.do = "unregister" /\ job.h \in Lenient /\ (file.text = "broken" \/ Blank(file))

Edited(job) ==
  LET file == store[FileOf(job)]
      keys == IF file.text = "broken" THEN {} ELSE file.keys IN
  CASE job.do = "entry" -> keys \cup {job.h}
    [] job.do = "log" -> keys \cup {"logging"}
    [] job.do = "register" -> keys \cup {"own"}
    [] job.do = "unregister" -> keys \ {"own"}
    [] job.do = "remove" -> keys \ {job.h}
    [] job.do = "wipe" -> {}

(* _uninstall_hooks of Gemini deletes a file that would be empty; a full   *)
(* uninstall deletes the directory of config.json.                         *)
Deletes(job) ==
  job.do = "wipe" \/ (job.do = "unregister" /\ job.h \in Strict /\ Edited(job) = {})

SetupPlan(h) ==
  <<Job("entry", h)>>
    \o (IF "logging" \in store["config"].keys THEN <<>> ELSE <<Job("log", h)>>)
    \o <<Job("register", h)>>

(* A mutated form: the entry goes before the hooks.                        *)
EntryFirst(h) == <<Job("remove", h), Job("unregister", h)>>

UninstallPlan(h) == <<Job("unregister", h), Job("remove", h)>>

-----------------------------------------------------------------------------
Unborn == [at |-> "new", plan |-> <<>>, all |-> FALSE, left |-> {}, keys |-> {}]
Ended == [Unborn EXCEPT !.at = "done"]
Doing(plan) == [Unborn EXCEPT !.at = "read", !.plan = plan]

(* How cmd_uninstall --all goes on with the harnesses it has still to come *)
(* to, in the order of config.json, which is any.                          *)
Onward(left) ==
  IF left = {} THEN {Doing(<<Job("wipe", "config")>>)}
  ELSE {[Doing(UninstallPlan(h)) EXCEPT !.all = TRUE, !.left = left \ {h}] : h \in left}

Init ==
  /\ store = [f \in Harnesses \cup {"config"} |->
                IF f = "config" THEN File("none", {}) ELSE File("ok", {"users"})]
  /\ hooks = [c \in Commands |-> Unborn]
  /\ world = [broken |-> {}, torn |-> {}, crashes |-> 0,
              status |-> [h \in Harnesses |-> "unknown"]]

AtRest == \A c \in Commands : hooks[c].at \in {"new", "done"}

Begin(c, ways, changed) ==
  /\ AtRest /\ hooks[c].at = "new"
  /\ \E w \in ways : hooks' = [hooks EXCEPT ![c] = w]
  /\ world' = [world EXCEPT !.status =
                 [h \in Harnesses |-> IF h \in changed THEN "unknown" ELSE @[h]]]
  /\ UNCHANGED store

(* Setup and a full uninstall begin with load_config.                      *)
Setup(c) ==
  store["config"].text # "broken" /\ \E h \in Harnesses : Begin(c, {Doing(SetupPlan(h))}, {h})
Uninstall(c) == \E h \in Harnesses : Begin(c, {Doing(UninstallPlan(h))}, {h})
UninstallAll(c) ==
  store["config"].text # "broken" /\ Begin(c, Onward(store["config"].keys \cap Harnesses), Harnesses)

(* A job is done, or has failed: what was planned after it is left out.  A *)
(* full uninstall goes on with the next harness in either case.            *)
After(c, done) ==
  LET l == hooks[c]
      rest == IF done THEN Tail(l.plan) ELSE <<>> IN
  \E w \in IF rest # <<>> THEN {[l EXCEPT !.at = "read", !.plan = rest, !.keys = {}]}
           ELSE IF l.all THEN Onward(l.left) ELSE {Ended} :
    hooks' = [hooks EXCEPT ![c] = w]

Result(job) ==
  [world EXCEPT !.status =
     [h \in Harnesses |-> IF h # job.h THEN @[h]
        ELSE IF job.do = "register" THEN "in" ELSE IF job.do = "remove" THEN "out" ELSE @[h]]]

Read(c) ==
  /\ hooks[c].at = "read"
  /\ LET job == Head(hooks[c].plan) IN
     \/ Fails(job) /\ After(c, FALSE) /\ UNCHANGED <<store, world>>
     \/ ~Fails(job) /\ Skips(job) /\ After(c, TRUE) /\ world' = Result(job) /\ UNCHANGED store
     \/ /\ ~Fails(job) /\ ~Skips(job) /\ Deletes(job)
        /\ store' = [store EXCEPT ![FileOf(job)] = File("none", {})]
        /\ After(c, TRUE) /\ world' = Result(job)
     \/ /\ ~Fails(job) /\ ~Skips(job) /\ ~Deletes(job)
        /\ hooks' = [hooks EXCEPT ![c].at = "truncate", ![c].keys = Edited(job)]
        /\ UNCHANGED <<store, world>>

Truncate(c) ==
  /\ hooks[c].at = "truncate"
  /\ store' = [store EXCEPT ![FileOf(Head(hooks[c].plan))] = File("empty", {})]
  /\ hooks' = [hooks EXCEPT ![c].at = "write"]
  /\ UNCHANGED world

Write(c) ==
  /\ hooks[c].at = "write"
  /\ LET job == Head(hooks[c].plan) IN
     /\ store' = [store EXCEPT ![FileOf(job)] = File("ok", hooks[c].keys)]
     /\ After(c, TRUE)
     /\ world' = Result(job)

(* A command dies, or is given up by the user.                             *)
Crash(c) ==
  /\ hooks[c].at \in {"read", "truncate", "write"} /\ world.crashes < MaxCrashes
  /\ hooks' = [hooks EXCEPT ![c] = Ended]
  /\ world' = [world EXCEPT !.crashes = @ + 1,
       !.torn = @ \cup (IF hooks[c].at = "write" THEN {FileOf(Head(hooks[c].plan))} ELSE {})]
  /\ UNCHANGED store

(* The user edits a file so that it is no JSON any more.                   *)
Break(f) ==
  /\ AtRest /\ store[f].text = "ok" /\ world.broken = {}
  /\ store' = [store EXCEPT ![f].text = "broken"]
  /\ world' = [world EXCEPT !.broken = {f}]
  /\ UNCHANGED hooks

Next ==
  \/ \E c \in Commands :
       \/ Setup(c) \/ Uninstall(c) \/ UninstallAll(c)
       \/ Read(c) \/ Truncate(c) \/ Write(c) \/ Crash(c)
  \/ \E f \in DOMAIN store : Break(f)

Spec == Init /\ [][Next]_vars

-----------------------------------------------------------------------------
(* Properties *)

Written(f) == \E c \in Commands : hooks[c].at = "write" /\ FileOf(Head(hooks[c].plan)) = f

(* Hooks that are registered belong to a harness that is in config.json,   *)
(* where uninstall --all looks for them, also after a command has died or  *)
(* failed (install, uninstall); a command that came to its end leaves its  *)
(* harness with both or neither and later commands for others do not touch *)
(* it (write_config, merge_harness_entry, remove_harness_entry); what the  *)
(* user has in a settings file stays there, with Gemini even if it is no   *)
(* JSON (_read_settings).  Not so for a file over which a command died,    *)
(* nor for hooks in a file that was no JSON when they should have gone.    *)
NothingLeftBehind ==
  \A h \in Harnesses :
    LET own == "own" \in store[h].keys
        listed == h \in store["config"].keys IN
    /\ "users" \in store[h].keys \/ Written(h) \/ h \in world.torn
         \/ (h \in Lenient /\ h \in world.broken)
    /\ "config" \notin world.torn /\ h \notin world.broken =>
         /\ own => listed \/ Written("config")
         /\ AtRest /\ world.status[h] = "in" => own /\ listed
         /\ AtRest /\ world.status[h] = "out" => ~own /\ ~listed
=============================================================================
