--------------------------- MODULE InstanceCache ---------------------------
(***************************************************************************)
(* A cached instance on disk (swebench/cache.py): a checkout, a virtual    *)
(* environment and the lockfile that vouches for it.  In the isolated      *)
(* layout the environment is `venv_lower', under a mount point `venv'; in  *)
(* the legacy layout it is `venv' itself.                                  *)
(***************************************************************************)

\* How far a directory has come to be an environment, in what `pip freeze'
\* sees of it.  "hollow": the directory is there and no interpreter in it;
\* "torn": a package is missing, or cannot be listed; "spoiled": whole, with
\* an agent's packages in it.  Files that no listing reads are not tracked.
Contents == {"none", "hollow", "torn", "whole", "spoiled"}

\* home: the directory the scripts of the environment name in their shebangs.
Environments == [is : Contents, home : {"venv", "lower"}]
None == [is |-> "none", home |-> "venv"]
Hollow == [is |-> "hollow", home |-> "venv"]
Torn == [is |-> "torn", home |-> "venv"]
Built(where) == [is |-> "whole", home |-> where]

\* lock: what the environment was when the lockfile was written; cut: the
\* file is there and its lines are not.
Entries == [repo : BOOLEAN, lower : Environments, venv : Environments,
            lock : {"none", "cut", "whole", "spoiled"}]
Absent == [repo |-> FALSE, lower |-> None, venv |-> None, lock |-> "none"]
Legacy == [repo |-> TRUE, lower |-> None, venv |-> Built("venv"), lock |-> "whole"]
SpoiledLegacy == [Legacy EXCEPT !.venv.is = "spoiled"]

\* has_cached_instance: a checkout, a lockfile and a directory.
HasCached(e, iso) ==
  e.repo /\ e.lock # "none" /\ (IF iso THEN e.lower ELSE e.venv).is # "none"

\* migrate_to_isolated_layout, where it does not raise: an empty mount point
\* is renamed as well as an environment.
Migrate(e) ==
  IF e.lower.is = "none" /\ e.venv.is # "none"
    THEN [e EXCEPT !.lower = e.venv, !.venv = None] ELSE e

\* The environment an invocation of `run' takes for the instance's own.
Base(e, iso) == IF iso THEN e.lower ELSE e.venv
WithBase(e, iso, env) ==
  IF iso THEN [e EXCEPT !.lower = env] ELSE [e EXCEPT !.venv = env]

\* verify_lockfile: without an interpreter it raises, with half an environment
\* it finds a difference or raises.
VerifyLax(e, iso) ==   \* mutated form: what pip cannot list is no difference
  LET env == Base(e, iso).is IN
    CASE env = e.lock   -> {"match"}
      [] env = "torn"   -> {"match", "raises"}
      [] env = "hollow" -> {"raises"}
      [] OTHER          -> {"drift"}
VerifyBlind(e, iso) ==   \* mutated form: only what is missing is a difference
  LET env == Base(e, iso).is IN
    CASE env \in {"whole", "spoiled"} -> {"match"}
      [] env = "torn"   -> {"drift", "raises"}
      [] env = "hollow" -> {"raises"}
      [] OTHER          -> {"drift"}
Verify(e, iso) ==
  LET env == Base(e, iso).is IN
    CASE env = e.lock   -> {"match"}
      [] env = "torn"   -> {"drift", "raises"}
      [] env = "hollow" -> {"raises"}
      [] OTHER          -> {"drift"}

\* Where an agent's packages end up when it installs some during an arm over
\* base: a script names its home, and only the mount point is isolated.
WritesThrough(iso, base) == ~iso \/ base.home = "lower"

Spoil(env) == [env EXCEPT !.is = "spoiled"]

=============================================================================
