------------------------------ MODULE Settings ------------------------------
(***************************************************************************)
(* The commands that change the configuration or the deploy key: init,     *)
(* config, auth and destroy.  None of them takes a lock: config and auth   *)
(* load the whole file and later save the whole file.                      *)
(*                                                                         *)
(* Simplifications.  Of the configuration only the layout and the key      *)
(* matter.  Save, and each RemoveAll of destroy, is one step; the public   *)
(* half of the key goes with the private one; a key of one's own, which    *)
(* --use-key names, is as good as none that is named.                      *)
(***************************************************************************)
EXTENDS Workspace

\* runInit: everything in config.json is new, the key of before included.
Initialize(p) ==
  \E l \in Layouts : Begin(p, "init", "save", [layout |-> l, key |-> "other"], 0)

\* runConfig loads, and changes what it has loaded.
Configure(p) ==
  /\ config # NoConfig
  /\ \E l \in Layouts : Begin(p, "config", "save", [config EXCEPT !.layout = l], 0)

\* runAuth loads.  --remove keeps the managed key unless --purge-key says
\* otherwise, and --use-key another one; --use-key may name the managed key.
Purges(c) == c.key = "managed"

\* A mutant: the file that --use-key names is not looked at.
AnyKey == TRUE

\* ValidatePrivateKeyPath of the managed key.
UsableKey == key

Authorize(p) ==
  /\ config # NoConfig
  /\ LET with(k) == [config EXCEPT !.key = k] IN
       \/ Begin(p, "auth", "save", with("other"), 0)
       \/ Begin(p, "auth", IF Purges(config) THEN "purge" ELSE "save", with("other"), 0)
       \/ UsableKey /\ Begin(p, "auth", "save", with("managed"), 0)
       \/ \E l \in {"import", "import --force", "generate", "renew"} :
            Begin(p, "auth", l, with("managed"), 0)

\* The key changes before the configuration that names it is saved.
PurgeKey(p) ==
  /\ Move(p, "purge", "save")
  /\ key' = FALSE
  /\ UNCHANGED <<dir, config, repo, worktrees, reports, lock, site, world>>

\* GenerateOrReuseKey with force removes the key first.
RenewKey(p) ==
  /\ Move(p, "renew", "keygen")
  /\ key' = FALSE
  /\ UNCHANGED <<dir, config, repo, worktrees, reports, lock, site, world>>

\* GenerateOrReuseKey without force uses the key that is there; ImportPrivateKey
\* refuses to replace it unless forced; ssh-keygen does not overwrite a file.
MakeKey(p) ==
  /\ \/ Move(p, "generate", "save")
     \/ Move(p, "import --force", "save")
     \/ ~ key /\ (Move(p, "import", "save") \/ Move(p, "keygen", "save"))
  /\ key' = TRUE
  /\ UNCHANGED <<dir, config, repo, worktrees, reports, lock, site, world>>

CannotMakeKey(p) ==
  /\ pc[p] \in {"import", "keygen"} /\ key
  /\ End(p)
  /\ UNCHANGED <<home, reports, site, world>>

\* config.Save: a temporary file is renamed to config.json.
Save(p) ==
  /\ pc[p] = "save"
  /\ dir' = TRUE
  /\ config' = job[p].conf
  /\ End(p)
  /\ UNCHANGED <<key, repo, worktrees, reports, site, world>>

\* runDestroy, in its order.
Destroy(p) == Begin(p, "destroy", "dir", NoConfig, 0)

RemoveDir(p) ==
  /\ Move(p, "dir", "cache")
  /\ dir' = FALSE
  /\ config' = NoConfig
  /\ runs' = <<>>
  /\ latest' = NoRun
  /\ UNCHANGED <<key, repo, worktrees, sidecars, lock, site, world>>

RemoveRepo(p) ==
  /\ Move(p, "cache", "tmp")
  /\ repo' = 0
  /\ UNCHANGED <<dir, config, key, worktrees, reports, lock, site, world>>

\* A mutant: the directory in tmp stays.
LeftWorktrees == worktrees

\* What is left of the worktrees of this name.
RemovedWorktrees == {}

RemoveTmp(p) ==
  /\ Move(p, "tmp", "key")
  /\ worktrees' = RemovedWorktrees
  /\ lost' = lost \cup worktrees
  /\ UNCHANGED <<dir, config, key, repo, reports, lock, site, tip, nextId, started, faults>>

RemoveKey(p) ==
  /\ pc[p] = "key"
  /\ key' = FALSE
  /\ End(p)
  /\ UNCHANGED <<dir, config, repo, worktrees, reports, site, world>>

StartSettings(p) == Initialize(p) \/ Configure(p) \/ Authorize(p) \/ Destroy(p)

SettingsStep(p) ==
  \/ PurgeKey(p) \/ RenewKey(p) \/ MakeKey(p) \/ CannotMakeKey(p) \/ Save(p)
  \/ RemoveDir(p) \/ RemoveRepo(p) \/ RemoveTmp(p) \/ RemoveKey(p)
=============================================================================
