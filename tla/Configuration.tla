--------------------------- MODULE Configuration ---------------------------
(***************************************************************************)
(* Loading configuration (pepelats/configuration) and the host's bootstrap *)
(* from it (hosting/host_bootstrap.py), several times in one process.      *)
(*                                                                         *)
(* A load picks the base file, the environment and its overlay, and layers *)
(* their settings under os.environ.  Dynaconf, which does the layering, is *)
(* external: when it is set up it copies .env into os.environ, where that  *)
(* sets no variable yet, and there .env stays for the rest of the process. *)
(*                                                                         *)
(* A setting's value is the sequence of sources it was made of: a list     *)
(* setting is concatenated over the files, any other is replaced.  A text  *)
(* is a word, a way of writing it in upper and lower case, and whether     *)
(* blanks surround it.                                                     *)
(***************************************************************************)
EXTENDS Naturals, Sequences

CONSTANTS
  Keys,         \* settings, as section and field
  Lists,        \* those that are lists
  Required,     \* the sections load_host_bootstrap insists on: sets of keys
  Words,        \* words of environment names
  Empty,        \* the empty word
  Casings,      \* ways of writing a word
  BaseStem,     \* the text "appsettings"
  Local,        \* the text "Local"
  Directories,  \* what config_dir may hold: sets of files
  DotenvFiles,  \* what .env may hold
  Exports,      \* what the process may be started with
  Overrides,    \* values of load_configuration's `environment`
  Exported,     \* the value of a key's variable that a load did not set
  Dotenv,       \* the value of one that .env sets
  None,         \* no value
  MaxLoads,     \* bound on the loads
  MaxEdits      \* bound on the edits of .env and os.environ

Variables == Keys \cup {"ENVIRONMENT"}

Text == [word : Words \cup {Empty}, casing : Casings, padded : BOOLEAN]

(* of: the word after "appsettings.", or BaseStem's.  environment: what    *)
(* the file gives that key, or None.  broken: the file does not parse.     *)
File == [of : Words \cup {BaseStem.word}, casing : Casings,
         suffix : {".toml", ".json"}, sets : SUBSET Keys,
         environment : Text \cup {None}, broken : BOOLEAN]

ASSUME ConfigurationAssumption ==
  /\ Lists \subseteq Keys /\ Required \subseteq SUBSET Keys
  /\ "ENVIRONMENT" \notin Keys
  /\ Empty \notin Words /\ BaseStem.word \notin Words \cup {Empty}
  /\ Local \in Text /\ Local.word # Empty /\ ~Local.padded
  /\ \A d \in Directories :
       /\ d \subseteq File
       /\ \A f, g \in d :   \* files of one name are one file
            f.of = g.of /\ f.casing = g.casing /\ f.suffix = g.suffix => f = g
  /\ \A e \in Exports \cup DotenvFiles :
       /\ DOMAIN e \subseteq Variables
       /\ "ENVIRONMENT" \in DOMAIN e => e["ENVIRONMENT"] \in Text
  /\ \A e \in Exports : \A k \in DOMAIN e \cap Keys : e[k] = Exported
  /\ \A e \in DotenvFiles : \A k \in DOMAIN e \cap Keys : e[k] = Dotenv
  /\ Overrides \subseteq Text
  /\ MaxLoads \in Nat /\ MaxEdits \in Nat

VARIABLES
  directory,  \* the files of config_dir, which never change
  dotenv,     \* the file .env: the variables it sets, with their values
  environ,    \* os.environ, likewise
  exports,    \* the part of os.environ that no load has put there
  loaded,     \* what the last load gave
  host,       \* the builder that loaded last: "none", "failed" or "ready"
  touched,    \* .env or os.environ was edited since the last load
  loads, edits

vars == <<directory, dotenv, environ, exports, loaded, host, touched,
          loads, edits>>

Unset   == [k \in Keys |-> <<>>]
NotLoaded(r) == [result |-> r, override |-> None, name |-> None,
                 files |-> <<>>, settings |-> Unset]

Init ==
  /\ directory \in Directories
  /\ dotenv \in DotenvFiles
  /\ environ \in Exports
  /\ exports = environ
  /\ loaded = NotLoaded("none")
  /\ host = "none"
  /\ touched = TRUE
  /\ loads = 0 /\ edits = 0

----------------------------------------------------------------------------
(* appsettings_discovery.py *)

(* Mutant: stems are compared as they are written. *)
MatchesExactly(t) ==
  {f \in directory : f.of = t.word /\ f.casing = t.casing}

Matches(t) == {f \in directory : f.of = t.word}

Ambiguous(t) == \E f, g \in Matches(t) : f.casing # g.casing

(* _resolve_unique_settings_file, of what is not ambiguous. *)
Preferred(t) ==
  CHOOSE f \in Matches(t) :
    f.suffix = ".toml" \/ \A g \in Matches(t) : g.suffix # ".toml"

HasBase  == Matches(BaseStem) # {} /\ ~Ambiguous(BaseStem)
BaseFile == Preferred(BaseStem)

(* collect_appsettings_files: the base and, when there is one, the overlay. *)
Files(name) ==
  IF Matches(name) = {} THEN <<BaseFile>> ELSE <<BaseFile, Preferred(name)>>

----------------------------------------------------------------------------
(* appsettings_environment.py *)

(* Mutant: the name is checked, and returned as it was written. *)
TrimmedNot(t) == t

(* validate_environment_name's strip. *)
Trimmed(t) == [t EXCEPT !.padded = FALSE]

(* os.getenv gives a text that is true: present and not "". *)
VariableGiven ==
  /\ "ENVIRONMENT" \in DOMAIN environ
  /\ \/ environ["ENVIRONMENT"].word # Empty
     \/ environ["ENVIRONMENT"].padded

(* The text before validation: the parameter, the variable, the base file. *)
Chosen(override) ==
  IF override # None THEN override
  ELSE IF VariableGiven THEN environ["ENVIRONMENT"]
  ELSE IF BaseFile.environment # None THEN BaseFile.environment
  ELSE Local

(* _load_document has to parse the base file when nothing else decides. *)
EnvironmentKnown(override) ==
  /\ override = None /\ ~VariableGiven => ~BaseFile.broken
  /\ Chosen(override).word # Empty

----------------------------------------------------------------------------
(* dynaconf_loader.py *)

Over(f, g) ==
  [x \in DOMAIN f \cup DOMAIN g |-> IF x \in DOMAIN f THEN f[x] ELSE g[x]]

(* Mutant: .env overrides os.environ. *)
EnvironWithDotenvFirst == Over(dotenv, environ)

(* load_dotenv: what .env sets that os.environ does not. *)
EnvironWithDotenv == Over(environ, dotenv)

(* A file loader, with merge_enabled. *)
Merge(settings, f) ==
  [k \in Keys |->
     IF k \notin f.sets THEN settings[k]
     ELSE IF k \in Lists THEN Append(settings[k], f) ELSE <<f>>]

(* env_loader: a variable replaces, whatever the files hold. *)
LoadEnviron(settings, env) ==
  [k \in Keys |-> IF k \in DOMAIN env THEN <<env[k]>> ELSE settings[k]]

MergeAll(settings, files) ==
  IF Len(files) = 1 THEN Merge(settings, files[1])
                    ELSE Merge(Merge(settings, files[1]), files[2])

(* Mutant: os.environ is not loaded again after the files. *)
LayeredOnce(files) == MergeAll(LoadEnviron(Unset, EnvironWithDotenv), files)

(* Mutant: the last word is os.environ's as it was before .env. *)
LayeredStale(files) ==
  LoadEnviron(MergeAll(LoadEnviron(Unset, environ), files), environ)

(* get_dynaconf_settings: the constructor loads .env and os.environ, then  *)
(* come the files, then os.environ again.                                  *)
Layered(files) ==
  LoadEnviron(MergeAll(LoadEnviron(Unset, EnvironWithDotenv), files),
              EnvironWithDotenv)

----------------------------------------------------------------------------
(* configuration_loader.py *)

(* A load that does not give up before Dynaconf is set up. *)
Accepted(override) ==
  /\ HasBase
  /\ EnvironmentKnown(override)
  /\ ~Ambiguous(Trimmed(Chosen(override)))

RejectLoad(override) ==
  /\ ~Accepted(override)
  /\ loaded' = [NotLoaded("failed") EXCEPT !.override = override]
  /\ UNCHANGED environ

(* A file does not parse: by then .env is in os.environ. *)
BreakLoad(override) ==
  /\ Accepted(override)
  /\ LET files == Files(Trimmed(Chosen(override))) IN
       \E i \in 1..Len(files) : files[i].broken
  /\ loaded' = [NotLoaded("failed") EXCEPT !.override = override]
  /\ environ' = EnvironWithDotenv

CompleteLoad(override) ==
  /\ Accepted(override)
  /\ LET name  == Trimmed(Chosen(override))
         files == Files(name)
     IN /\ \A i \in 1..Len(files) : ~files[i].broken
        /\ loaded' = [result |-> "ok", override |-> override, name |-> name,
                      files |-> files, settings |-> Layered(files)]
  /\ environ' = EnvironWithDotenv

LoadConfiguration(override) ==
  /\ loads < MaxLoads
  /\ loads' = loads + 1
  /\ RejectLoad(override) \/ BreakLoad(override) \/ CompleteLoad(override)
  /\ touched' = FALSE
  /\ UNCHANGED <<directory, dotenv, exports, edits>>

----------------------------------------------------------------------------
(* host_bootstrap.py *)

(* Configuration.get_section_dict and get: a section is there if anything  *)
(* has set a key of it.                                                    *)
SectionRead(settings, section) == \E k \in section : settings[k] # <<>>

(* Mutant: one section is enough. *)
SectionsReadAny(l) ==
  \E section \in Required : SectionRead(l.settings, section)

SectionsRead(l) == \A section \in Required : SectionRead(l.settings, section)

----------------------------------------------------------------------------
(* A caller of load_configuration. *)
Load(override) == LoadConfiguration(override) /\ host' = "none"

(* WebHostBuilder: load, then bind.  A value may be invalid. *)
NewBuilder ==
  /\ LoadConfiguration(None)
  /\ host' \in IF loaded'.result = "ok" /\ SectionsRead(loaded')
               THEN {"ready", "failed"} ELSE {"failed"}

(* Somebody edits .env, or sets or deletes a variable of the process. *)
EditDotenv ==
  /\ edits < MaxEdits
  /\ edits' = edits + 1
  /\ dotenv' \in DotenvFiles \ {dotenv}
  /\ touched' = TRUE
  /\ UNCHANGED <<directory, environ, exports, loaded, host, loads>>

Without(f, v) == [x \in DOMAIN f \ {v} |-> f[x]]

SetVariable(v) ==
  /\ edits < MaxEdits
  /\ edits' = edits + 1
  /\ \E e \in Exports :
       /\ v \in DOMAIN e
       /\ environ' = Over([x \in {v} |-> e[v]], environ)
       /\ exports' = Over([x \in {v} |-> e[v]], exports)
  /\ touched' = TRUE
  /\ UNCHANGED <<directory, dotenv, loaded, host, loads>>

DeleteVariable(v) ==
  /\ edits < MaxEdits /\ v \in DOMAIN environ
  /\ edits' = edits + 1
  /\ environ' = Without(environ, v)
  /\ exports' = Without(exports, v)
  /\ touched' = TRUE
  /\ UNCHANGED <<directory, dotenv, loaded, host, loads>>

Next ==
  \/ \E o \in Overrides \cup {None} : Load(o)
  \/ NewBuilder
  \/ EditDotenv
  \/ \E v \in Variables : SetVariable(v) \/ DeleteVariable(v)

Spec == Init /\ [][Next]_vars

----------------------------------------------------------------------------
TypeOK ==
  /\ directory \in Directories
  /\ dotenv \in DotenvFiles
  /\ DOMAIN exports \subseteq DOMAIN environ
  /\ DOMAIN environ \subseteq Variables
  /\ loaded.result \in {"none", "failed", "ok"}
  /\ loaded.override \in Overrides \cup {None}
  /\ loaded.result = "ok" =>
       /\ loaded.name \in Text /\ loaded.name.word # Empty
       /\ ~loaded.name.padded
       /\ Len(loaded.files) \in {1, 2}
  /\ host \in {"none", "failed", "ready"}
  /\ touched \in BOOLEAN
  /\ loads \in 0..MaxLoads /\ edits \in 0..MaxEdits

JustLoaded == loaded.result = "ok" /\ ~touched

(* The last of the files to define a setting; a list is the concatenation  *)
(* of the two when both do.                                                *)
FromFiles(files, k) ==
  LET defining == {i \in 1..Len(files) : k \in files[i].sets}
  IN IF defining = {} THEN <<>>
     ELSE IF k \in Lists /\ defining = 1..Len(files) THEN files
     ELSE LET last == CHOOSE i \in defining : \A j \in defining : j <= i
          IN <<files[last]>>

(* The documented order of precedence (README.md:36-42), setting by        *)
(* setting: what the process exports, what .env has put there, then the    *)
(* overlay over the base; a list is the concatenation of the two files     *)
(* (test_config_complex_merge.py:82-91).  Holds after any history of loads *)
(* and edits, although the environment is loaded before the files as well. *)
Expected(k) ==
  IF k \in DOMAIN exports THEN <<exports[k]>>
  ELSE IF k \in DOMAIN dotenv \cup DOMAIN environ THEN <<Dotenv>>
  ELSE FromFiles(loaded.files, k)

Precedence == JustLoaded => \A k \in Keys : loaded.settings[k] = Expected(k)

(* A load that succeeds has missed no file of its environment and used     *)
(* none of another, however they are written, and there was no choice but  *)
(* that of the suffix (test_appsettings_discovery.py:14-18, 41-77).        *)
FilesFit ==
  loaded.result = "ok" =>
    \A f \in directory :
      LET chosen == {loaded.files[i] : i \in 1..Len(loaded.files)} IN
      /\ f \in chosen => f.of \in {BaseStem.word, loaded.name.word}
      /\ f.of \in {BaseStem.word, loaded.name.word} =>
           \E g \in chosen :
             /\ g.of = f.of /\ g.casing = f.casing
             /\ g # f => g.suffix = ".toml"

(* A load adds to os.environ what .env sets, and changes or removes        *)
(* nothing.  One that fails may have added it too, but not if it found no  *)
(* usable files or environment (configuration_loader.py:20-28).            *)
EnvironKept ==
  [][loads' # loads =>
       /\ \A v \in DOMAIN environ :
            v \in DOMAIN environ' /\ environ'[v] = environ[v]
       /\ \A v \in DOMAIN environ' \ DOMAIN environ :
            /\ v \in DOMAIN dotenv /\ environ'[v] = dotenv[v]
            /\ Accepted(loaded'.override)]_vars

(* Two loads in a row with nothing edited in between give the same, as     *)
(* long as .env does not set ENVIRONMENT: that the first load changes      *)
(* os.environ is not seen by the second.                                   *)
ReloadStable ==
  [][/\ loads' # loads /\ ~touched
     /\ loaded'.override = loaded.override
     /\ "ENVIRONMENT" \notin DOMAIN dotenv
     => loaded' = loaded]_vars

(* A builder that came to be has every section it needs from a file of its *)
(* environment or from a variable (host_bootstrap.py:36-92).               *)
ReadyIsBacked ==
  host = "ready" /\ ~touched =>
    \A section \in Required : \E k \in section :
      \/ k \in DOMAIN environ
      \/ \E i \in 1..Len(loaded.files) : k \in loaded.files[i].sets

(* README.md:36-42: .env and the process's variables come above the base   *)
(* file, and the environment's name comes from ENVIRONMENT before the base *)
(* file.  Does not hold of an ENVIRONMENT that .env sets: it is read too   *)
(* late for this load, but decides the next.                               *)
EnvironmentNamed ==
  JustLoaded /\ loaded.override = None /\ VariableGiven =>
    loaded.name = Trimmed(environ["ENVIRONMENT"])
=============================================================================
