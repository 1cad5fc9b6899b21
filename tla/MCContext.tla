------------------------------ MODULE MCContext ------------------------------
(* What the agent knows, for the model checker: the file of its memories, the  *)
(* prompt, the saved state, and the search for memories. setting says which    *)
(* specification a behaviour is of and with which bounds; the variables of the *)
(* others are None, and the file of the memories stays empty.                  *)
(*   "store"    the file of the memory store                                   *)
(*   "files"    prompts of files that are read, written and evicted            *)
(*   "talk"     prompts of a conversation that is cleared and compacted        *)
(*   "sources"  prompts from all sources, within tight budgets                 *)
(*   "layers"   the summary saved, damaged, migrated and restored              *)
(*   "session"  sessions and the workspace over restarts and releases          *)
(*   "paths"    migrations registered in every order                           *)
(*   "search"   a retrieval while a memory is moved or changed                 *)
(*   "ranks"    a retrieval by scores, undisturbed                             *)
(* A setting leaves out what it is not about: each of its steps is a step of   *)
(* the specification, of some of its operations and within tighter bounds.     *)

EXTENDS MemoryFiles, Sequences, TLC

CONSTANTS
    f1, f2, f3,
    \* of PromptBuild
    Files, Size, MaxLines, MaxFiles, MaxOpen, MaxRecent, MaxDirty, MaxCandidates, MaxRounds,
    KeepRecent, Reserved, MaxTokens, TotalBudget, MaxEntries, Clocks, Written, MaxVersion,
    MaxMessages, MaxPolicies, MaxMemories, MaxBuilds,
    \* of Recovery
    Schemas, Metadata, Contents, MaxTime, MaxUpdates, MaxRestored, MaxSteps, Failing,
    \* of Retrieval
    Sought, Kinds, Weight, Scale, MaxScore, MaxResults, Worth, MaxMoves, MaxQueries

VARIABLES
    setting,
    lines, committed, own, cache, open, recent, dirty, texts, convo, policies, summary,
    memories, last, log, counter,
    store, current, entries, version, task, steps, now, loaded, written, kept,
    place, kind, hits, near, worth, phase, asked, found, ranked, results, changed, moves, queries

promptVars == <<lines, committed, own, cache, open, recent, dirty, texts, convo, policies,
                summary, memories, last, log, counter>>
savedVars  == <<store, current, entries, version, task, steps, now, loaded, written, kept>>
searchVars == <<place, kind, hits, near, worth, phase, asked, found, ranked, results,
                changed, moves, queries>>

\* Lines of the files, and the budgets of the sources.
MCSize == (f1 :> 2) @@ (f2 :> 2) @@ (f3 :> 4)
MCMax == [instruction |-> 1, workspace |-> 1, memory |-> 1, summary |-> 1,
          file_cache |-> 3, conversation |-> 6]

MCWeight == [keyword |-> 3, vector |-> 5, recent |-> 2]

Prompt == INSTANCE PromptBuild WITH disk <- lines

ASSUME PromptConstants ==
    Prompt!BudgetsCover /\ Prompt!RoomForOne /\ Prompt!WrittenAreFiles /\ Prompt!BoundsAreNumbers

Saved == INSTANCE Recovery WITH
    since <- kept, MaxVersion <- MaxUpdates, MaxEntries <- MaxRestored

ASSUME SavedConstants == Saved!SchemasAreNumbers

Search == INSTANCE Retrieval WITH at <- phase, moved <- moves, Ids <- Sought

ASSUME SearchConstants == Search!ScoresAreNumbers

NoMemories == Init /\ disk = "none"

NoPrompt ==
    /\ lines = None /\ committed = None /\ own = None /\ cache = None /\ open = None
    /\ recent = None /\ dirty = None /\ texts = None /\ convo = None /\ policies = None
    /\ summary = None /\ memories = None /\ last = None /\ log = None /\ counter = None

NoSaved ==
    /\ store = None /\ current = None /\ entries = None /\ version = None /\ task = None
    /\ steps = None /\ now = None /\ loaded = None /\ written = None /\ kept = None

NoSearch ==
    /\ place = None /\ kind = None /\ hits = None /\ near = None /\ worth = None /\ phase = None
    /\ asked = None /\ found = None /\ ranked = None /\ results = None
    /\ changed = None /\ moves = None /\ queries = None

ofPrompt == setting \in {"files", "talk", "sources"}
ofSaved  == setting \in {"layers", "session", "paths"}
ofSearch == setting \in {"search", "ranks"}

MCVars == <<setting, vars, promptVars, savedVars, searchVars>>

Settings ==
    {"store", "files", "talk", "sources", "layers", "session", "paths", "search", "ranks"}

MCInit ==
    /\ setting \in Settings
    /\ IF setting = "store" THEN Init ELSE NoMemories
    /\ IF ofPrompt THEN Prompt!Init ELSE NoPrompt
    /\ IF ofSaved THEN Saved!Init ELSE NoSaved
    /\ IF ofSearch THEN Search!Init ELSE NoSearch
    /\ setting = "search" => \A i \in Sought :
          /\ hits[i] = 0 /\ near[i] = 0
          /\ \A j \in Sought \ {1} : kind[i] = kind[j] \/ i = 1
          /\ \A j \in Sought : place[i] = place[j]
    /\ setting = "ranks" => \A i \in Sought : kind[i] = CHOOSE k \in Kinds : TRUE

\* What the prompts of a setting are about.
PromptStep ==
    CASE setting = "files" -> <<texts, convo, policies, memories, counter>>' = <<texts, convo, policies, memories, counter>>
      [] setting = "talk"  -> UNCHANGED <<lines, committed, own, cache, open, recent, dirty,
                                          policies, memories>>
      [] OTHER -> /\ UNCHANGED <<lines, committed, own, dirty, counter>>
                  /\ \A n \in DOMAIN recent' : recent'[n] = f1
                  /\ Len(texts') < MaxMessages

\* And what is saved and loaded.
SavedStep ==
    CASE setting = "layers" ->
           /\ Saved!OfSummary \/ Saved!OfDamage \/ Saved!OfMigrations \/ Saved!OfProgram
           /\ now' = now /\ current' <= 2 /\ Len(steps') <= 1
           /\ \A n \in DOMAIN steps' : steps'[n].from <= 2 /\ steps'[n].to <= 2 /\ steps'[n].fails
      [] setting = "session" ->
           /\ Saved!OfWorkspace \/ Saved!OfSession \/ Saved!OfMigrations \/ Saved!OfProgram
           /\ current' <= 2 /\ Len(steps') <= 1
           /\ \A n \in DOMAIN steps' : steps'[n].from <= 2 /\ steps'[n].to <= 2
      [] OTHER ->
           /\ Saved!OfMigrations
           /\ \A n \in DOMAIN steps' : ~steps'[n].fails

MCNext ==
    /\ \/ setting = "store" /\ Next /\ UNCHANGED <<promptVars, savedVars, searchVars>>
       \/ ofPrompt /\ Prompt!Next /\ PromptStep /\ UNCHANGED <<vars, savedVars, searchVars>>
       \/ ofSaved /\ SavedStep /\ UNCHANGED <<vars, promptVars, searchVars>>
       \/ /\ ofSearch /\ Search!Next
          /\ setting = "ranks" => UNCHANGED <<place, kind>>
          /\ UNCHANGED <<vars, promptVars, savedVars>>
    /\ UNCHANGED setting

MCSpec == MCInit /\ [][MCNext]_MCVars

\* What the loop wrote is never hidden by an older content (OwnWritesSeen).
PromptShowsWrites == ofPrompt => Prompt!OwnWritesSeen

\* Budgets are kept and used, whatever the sources offer (RoomUsed).
PromptUsesRoom == ofPrompt => Prompt!RoomUsed

\* A replay is the prompt that was built, until results are cleared
\* (ReplayedAsBuilt).
PromptReplayed == ofPrompt => Prompt!ReplayedAsBuilt

\* A load gives what was saved last (RestoredIsSaved).
LoadedIsSaved == ofSaved => Saved!RestoredIsSaved

\* A migration takes a shortest chain of steps (PathsAreShortest).
ShortestPaths == setting = "paths" => Saved!PathsAreShortest

\* Results are of the kinds asked for (ResultsOfKind).
FoundOfKind == ofSearch => Search!ResultsOfKind

\* A better memory is never after a worse one (BetterIsBefore).
FoundInOrder == ofSearch => Search!BetterIsBefore

\* The prompt is of the files setting, for the run of its counterexample
\* (NewestShown).
NewestIsShown == setting = "files" => Prompt!NewestShown
==============================================================================
