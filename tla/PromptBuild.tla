----------------------------- MODULE PromptBuild -----------------------------
(* The context of the agent loop: the layers the orchestrator keeps, the      *)
(* events of the loop that change them, and the selection of a prompt from    *)
(* them, once per iteration: collect, rank, select, pack (src/context).       *)
(*                                                                            *)
(* A file's content is its version; a text of a message is whole or cleared.  *)
(* The loop is one thread, so each of its calls is one step; other writers    *)
(* (a shell command, a sub-agent, a teammate) change files between them.      *)

EXTENDS Naturals, FiniteSets, SequencesExt, Subsequences

CONSTANTS
    Files,
    Size,           \* lines of each file
    MaxLines,       \* FileCacheLayer.max_lines: longer files are cut
    MaxFiles,       \* FileCacheLayer.max_files
    MaxOpen,        \* WorkspaceLayer.max_open_files
    MaxRecent,      \* WorkspaceLayer.max_recent_files
    MaxDirty,       \* the 20 of WorkspaceLayer.file_modified
    MaxCandidates,  \* FileCacheCollector.max_candidates
    MaxRounds,      \* ConversationCollector.max_rounds
    KeepRecent,     \* results that microcompact keeps
    Reserved,       \* sources whose TokenConstraint is reserved
    MaxTokens,      \* TokenConstraint.max_tokens of each constrained source
    TotalBudget,    \* BudgetSelectionPolicy.total_budget
    MaxEntries,     \* AuditLog.max_entries
    Clocks,         \* "fine" if the clock tells two looks at files apart, or "coarse"
    Written,        \* files that are written (bound)
    MaxVersion,     \* versions of such a file (bound)
    MaxMessages,    \* messages (bound)
    MaxPolicies,    \* policies added (bound)
    MaxMemories,    \* active memories (bound)
    MaxBuilds       \* audited builds (bound)

\* Assumed of the constants.
BudgetsCover == Reserved \subseteq DOMAIN MaxTokens
RoomForOne == MaxFiles > 0 /\ MaxEntries > 0
WrittenAreFiles == Written \subseteq Files
BoundsAreNumbers ==
    /\ Size \in [Files -> Nat] /\ MaxTokens \in [DOMAIN MaxTokens -> Nat]
    /\ {MaxFiles, MaxCandidates, MaxRounds, MaxEntries, TotalBudget,
        MaxVersion, MaxMemories} \subseteq Nat

VARIABLES
    disk,      \* [Files -> version]
    committed, \* [Files -> version] of git's HEAD
    own,       \* [Files -> version] when the loop last wrote it (history)
    cache,     \* FileCacheLayer._cache: least recently used first
    open, recent, dirty,   \* WorkspaceLayer's lists
    texts,     \* messages made so far: [role, cleared]
    convo,     \* ConversationLayer._messages: numbers of messages
    policies,  \* InstructionLayer._dynamic_policies (their number)
    summary,   \* whether SummaryLayer has its one rolling entry
    memories,  \* active entries of the memory store (their number)
    last,      \* what the build just done did, or nothing
    log,       \* AuditLog._entries
    counter    \* AuditLog._counter

workspace == <<open, recent, dirty>>
talk == <<texts, convo, policies, summary, memories>>
audit == <<log, counter>>
files == <<disk, committed, own, cache, workspace>>
vars == <<files, talk, last, audit>>

Nothing == [built |-> FALSE]

Init ==
    /\ disk = [f \in Files |-> 0] /\ committed = disk /\ own = disk
    /\ cache = <<>>
    /\ open = <<>> /\ recent = <<>> /\ dirty = <<>>
    /\ texts = <<>> /\ convo = <<>>
    /\ policies = 0 /\ summary = FALSE /\ memories = 0
    /\ last = Nothing
    /\ log = <<>> /\ counter = 0

------------------------------------------------------------------------------
(* Layers *)

\* A sequence without its first elements, n left at most.
LastOf(s, n) == IF Len(s) > n THEN SubSeq(s, Len(s) - n + 1, Len(s)) ELSE s

Cached(f) == \E n \in DOMAIN cache : cache[n].file = f

Dropped(c, f) == AtPlaces(c, {n \in DOMAIN c : c[n].file # f})

\* What is stored of a file: signatures only when it is long.
Stored(f, v) == [file |-> f, version |-> v,
                 tokens |-> IF Size[f] > MaxLines THEN 1 ELSE Size[f]]

Put(entry) == LastOf(Append(Dropped(cache, entry.file), entry), MaxFiles)

\* Bug: a file that was written stays in the cache.
InvalidateNew(f) == IF own[f] = 0 THEN cache ELSE Dropped(cache, f)

Invalidate(f) == Dropped(cache, f)

\* _get_entry: a look at an entry makes it the most recently used.
Touch(c, f) == Dropped(c, f) \o AtPlaces(c, {n \in DOMAIN c : c[n].file = f})

FileOpened(f) ==
    /\ open' = IF Contains(open, f) THEN open
               ELSE LastOf(Append(open, f), MaxOpen)
    /\ recent' = LastOf(Append(SelectSeq(recent, LAMBDA g : g # f), f), MaxRecent)

\* A file the loop modified is listed by its full path, git's list has names
\* relative to the repository: the two never match.
FileModified(f) ==
    /\ FileOpened(f)
    /\ dirty' = LET it == [file |-> f, by |-> "loop"]
                IN IF Contains(dirty, it) THEN dirty
                   ELSE LastOf(Append(dirty, it), MaxDirty)

\* Outside a repository, and when git fails or takes five seconds, no file is
\* dirty.
RefreshGitState ==
    LET changed == {f \in Files : disk[f] # committed[f]}
        listed == SetToSeq(changed)
    IN dirty' \in {<<>>, [n \in DOMAIN listed |-> [file |-> listed[n], by |-> "git"]]}

------------------------------------------------------------------------------
(* Events of the loop *)

Call == last' = Nothing

\* read_file; its error text is cached like a content, and is of no version.
OnFileRead(f) ==
    /\ Call
    /\ \/ cache' = Put(Stored(f, disk[f]))
       \/ cache' = Put([file |-> f, version |-> MaxVersion + 1, tokens |-> 1])
    /\ FileOpened(f)
    /\ UNCHANGED <<disk, committed, own, dirty, talk, audit>>

\* edit_file and write_file; the event comes though the tool failed.
OnFileWrite(f) ==
    /\ Call
    /\ \/ disk[f] < MaxVersion /\ disk' = [disk EXCEPT ![f] = @ + 1]
       \/ UNCHANGED disk
    /\ own' = [own EXCEPT ![f] = disk'[f]]
    /\ FileModified(f)
    /\ cache' = Invalidate(f)
    /\ UNCHANGED <<committed, talk, audit>>

\* cd in the shell.
OnDirectoryChanged ==
    /\ Call
    /\ RefreshGitState
    /\ UNCHANGED <<disk, committed, own, cache, open, recent, talk, audit>>

\* A shell command, a sub-agent or a teammate writes, or commits: no event.
WrittenElsewhere(f) ==
    /\ disk[f] < MaxVersion
    /\ Call
    /\ disk' = [disk EXCEPT ![f] = @ + 1]
    /\ UNCHANGED <<committed, own, cache, workspace, talk, audit>>

Committed ==
    /\ committed # disk
    /\ Call
    /\ committed' = disk
    /\ UNCHANGED <<disk, own, cache, workspace, talk, audit>>

AddMessage(role) ==
    /\ Len(texts) < MaxMessages
    /\ Call
    /\ texts' = Append(texts, [role |-> role, cleared |-> FALSE])
    /\ convo' = Append(convo, Len(texts'))
    /\ UNCHANGED <<files, policies, summary, memories, audit>>

AddPolicy ==
    /\ policies < MaxPolicies
    /\ Call
    /\ policies' = policies + 1
    /\ UNCHANGED <<files, texts, convo, summary, memories, audit>>

\* The memory store's own threads and tools.
MemoriesChange ==
    /\ Call
    /\ memories' \in (0..MaxMemories) \ {memories}
    /\ UNCHANGED <<files, texts, convo, policies, summary, audit>>

\* Tier 1 clears old results where they are, in the messages themselves.
Microcompact ==
    LET results == SelectSeq(convo, LAMBDA m : texts[m].role = "user")
        old == Range(SubSeq(results, 1, Len(results) - KeepRecent))
    IN /\ Len(results) > KeepRecent
       /\ \E m \in old : ~texts[m].cleared
       /\ Call
       /\ texts' = [m \in DOMAIN texts |->
                      IF m \in old THEN [texts[m] EXCEPT !.cleared = TRUE] ELSE texts[m]]
       /\ log' = [n \in DOMAIN log |-> [log[n] EXCEPT !.clean = FALSE]]
       /\ UNCHANGED <<files, convo, policies, summary, memories, counter>>

\* Tier 3 leaves the last messages behind a new one, and fills the summary.
AutoCompact ==
    /\ Len(convo) > 2 /\ Len(texts) < MaxMessages
    /\ Call
    /\ texts' = Append(texts, [role |-> "user", cleared |-> FALSE])
    /\ convo' = <<Len(texts')>> \o LastOf(convo, 1)
    /\ summary' = TRUE
    /\ UNCHANGED <<files, policies, memories, audit>>

\* clear: the memory layer keeps what it has.
Clear ==
    /\ <<cache, open, recent, convo>> # <<<<>>, <<>>, <<>>, <<>>>>
    /\ Call
    /\ cache' = <<>> /\ open' = <<>> /\ recent' = <<>> /\ convo' = <<>>
    /\ policies' = 0 /\ summary' = FALSE
    /\ UNCHANGED <<disk, committed, own, dirty, texts, memories, audit>>

------------------------------------------------------------------------------
(* Collect: candidates, by source *)

Cand(layer, item, tokens, recency) ==
    [layer |-> layer, item |-> item, tokens |-> tokens, recency |-> recency]

InstructionCandidates == <<Cand("instruction", 1, 1 + policies, 1)>>

WorkspaceCandidates == <<Cand("workspace", 1, 1, 1)>>

\* One for the whole block, estimated from all active memories.
MemoryCandidates(r) ==
    IF memories = 0 THEN <<>> ELSE <<Cand("memory", memories, memories, r)>>

SummaryCandidates(r) == IF summary THEN <<Cand("summary", 1, 1, r)>> ELSE <<>>

\* The most recently used files, the latest first.
Looked == LET paths == Reverse(cache)
          IN SubSeq(paths, 1, IF Len(paths) < MaxCandidates THEN Len(paths)
                              ELSE MaxCandidates)

\* A candidate's recency is the time of this look at it; the clock may be too
\* coarse to tell the looks apart.
FileCandidates(clock) ==
    [n \in DOMAIN Looked |->
       Cand("file_cache", Looked[n].file, Looked[n].tokens,
            IF clock = "fine" THEN n ELSE 1)]

TouchAll(c, fs) == FoldLeft(Touch, c, fs)

Roundtrips(ms) ==
    FoldLeft(LAMBDA gs, m :
               IF gs = <<>> \/ texts[m].role = "assistant" THEN Append(gs, <<m>>)
               ELSE [gs EXCEPT ![Len(gs)] = Append(@, m)],
             <<>>, ms)

MessageTokens(m) == IF texts[m].cleared THEN 1 ELSE 2

GroupTokens(ms) == FoldLeft(LAMBDA n, m : n + MessageTokens(m), 0, ms)

RoundCandidates ==
    LET groups == Roundtrips(convo)
        all == [n \in DOMAIN groups |->
                  Cand("conversation", n, GroupTokens(groups[n]), n)]
    IN Reverse(LastOf(all, MaxRounds))

------------------------------------------------------------------------------
(* Rank, select and pack *)

Priority(layer) ==
    CASE layer = "instruction" -> 0
      [] layer = "workspace" -> 1
      [] layer \in {"memory", "summary"} -> 2
      [] layer = "file_cache" -> 3
      [] OTHER -> 4

NotAfter(c, d) ==
    \/ Priority(c.layer) < Priority(d.layer)
    \/ Priority(c.layer) = Priority(d.layer) /\ c.recency >= d.recency

\* A stable sort.
Rank(cs) ==
    FoldLeft(LAMBDA done, c :
               InsertAt(done, 1 + Cardinality({n \in DOMAIN done : NotAfter(done[n], c)}), c),
             <<>>, cs)

Used(cs) == FoldLeft(LAMBDA n, c : n + c.tokens, 0, cs)

\* Of one source.
UsedBy(cs, layer) ==
    FoldLeft(LAMBDA n, c : IF c.layer = layer THEN n + c.tokens ELSE n, 0, cs)

Fits(c, cs) ==
    /\ UsedBy(cs, c.layer) + c.tokens <= MaxTokens[c.layer]
    /\ Used(cs) + c.tokens <= TotalBudget

\* Bug: nothing is selected after the first candidate that did not fit.
ConsiderUntil(sel, c) ==
    IF sel.discarded = <<>> /\ Fits(c, sel.selected)
    THEN [sel EXCEPT !.selected = Append(@, c)]
    ELSE [sel EXCEPT !.discarded = Append(@, c)]

Consider(sel, c) ==
    IF Fits(c, sel.selected) THEN [sel EXCEPT !.selected = Append(@, c)]
    ELSE [sel EXCEPT !.discarded = Append(@, c)]

\* The reserved sources first; a source without a constraint is left out.
Select(cs) ==
    FoldLeft(Consider, [selected |-> <<>>, discarded |-> <<>>],
             AtPlaces(cs, {n \in DOMAIN cs : cs[n].layer \in Reserved})
             \o AtPlaces(cs, {n \in DOMAIN cs : cs[n].layer \in DOMAIN MaxTokens \ Reserved}))

Of(cs, layer) == AtPlaces(cs, {n \in DOMAIN cs : cs[n].layer = layer})
Items(cs) == [n \in DOMAIN cs |-> cs[n].item]

\* The lists of messages that go into the package, as they are in the
\* conversation, and what they say.
MessageParts(cs) ==
    LET groups == Roundtrips(convo)
    IN [n \in DOMAIN Of(cs, "conversation") |-> groups[Of(cs, "conversation")[n].item]]

Joined(parts) == FoldLeft(LAMBDA ms, part : ms \o part, <<>>, parts)
Flattened(parts) == [n \in DOMAIN Joined(parts) |-> texts[Joined(parts)[n]]]

FileParts(cs) ==
    AtPlaces(cache, {k \in DOMAIN cache : \E n \in DOMAIN cs :
                       cs[n].layer = "file_cache" /\ cs[n].item = cache[k].file})

\* SelectionPipeline.run: collect, rank and select.
Run(clock, m) ==
    Select(Rank(InstructionCandidates \o WorkspaceCandidates \o MemoryCandidates(m)
                \o SummaryCandidates(2) \o FileCandidates(clock) \o RoundCandidates))

\* The selection is packed and the prompt made of the package; looking at a
\* file, as a candidate and again for its content, makes it the most recently used.
BuildPrompt ==
    \E clock \in Clocks, m \in {1, 3} :
      LET chosen == Run(clock, m)
      IN /\ last' = [built |-> TRUE,
                     selected |-> chosen.selected, discarded |-> chosen.discarded,
                     files |-> FileParts(chosen.selected),
                     parts |-> MessageParts(chosen.selected),
                     messages |-> Flattened(MessageParts(chosen.selected))]
         /\ cache' = TouchAll(TouchAll(cache, Items(FileCandidates(clock))),
                              Items(Of(chosen.selected, "file_cache")))
         /\ UNCHANGED <<disk, committed, own, workspace, talk, audit>>

------------------------------------------------------------------------------
(* The audit log and replay *)

\* record: the package is kept as lists of the messages, not as copies of them;
\* clean says that no message was cleared since (history).
Record ==
    /\ last.built /\ counter < MaxBuilds
    /\ counter' = counter + 1
    /\ log' = LastOf(Append(log, [id |-> counter', clean |-> TRUE,
                                 parts |-> last.parts, said |-> last.messages]),
                    MaxEntries)
    /\ last' = Nothing
    /\ UNCHANGED <<files, talk>>

\* Bug: the rounds are looked up again in the conversation as it is now.
ReplayLive(entry) == Flattened(Reverse(LastOf(Roundtrips(convo), Len(entry.parts))))

\* from_audit_entry: the messages of the prompt, built again from the entry.
Replay(entry) == Flattened(entry.parts)

Next ==
    \/ \E f \in Files : OnFileRead(f)
    \/ \E f \in Written : OnFileWrite(f) \/ WrittenElsewhere(f)
    \/ OnDirectoryChanged \/ Committed
    \/ \E role \in {"user", "assistant"} : AddMessage(role)
    \/ AddPolicy \/ MemoriesChange \/ Microcompact \/ AutoCompact \/ Clear
    \/ BuildPrompt \/ Record

Spec == Init /\ [][Next]_vars

------------------------------------------------------------------------------
(* Properties *)

TypeOK ==
    /\ {disk, committed, own} \subseteq [Files -> 0..MaxVersion]
    /\ \A n \in DOMAIN cache : cache[n].file \in Files
    /\ Len(cache) <= MaxFiles /\ Len(open) <= MaxOpen
    /\ Len(recent) <= MaxRecent /\ Len(dirty) <= MaxDirty + Cardinality(Files)
    /\ Range(convo) \subseteq DOMAIN texts
    /\ Len(log) <= MaxEntries /\ counter \in 0..MaxBuilds

\* What the loop itself wrote is never hidden from the model by an older
\* content, in the cache or in the prompt just built, however files are read,
\* written by others and evicted in between (file_cache.py, on_file_write).
OwnWritesSeen ==
    /\ \A n \in DOMAIN cache : cache[n].version >= own[cache[n].file]
    /\ last.built => \A n \in DOMAIN last.files :
                        last.files[n].version >= own[last.files[n].file]

\* The prompt keeps to every budget, and no candidate was left out that there
\* is still room for (BudgetSelectionPolicy.select).
RoomUsed ==
    last.built =>
      /\ Used(last.selected) <= TotalBudget
      /\ \A layer \in DOMAIN MaxTokens : UsedBy(last.selected, layer) <= MaxTokens[layer]
      /\ \A n \in DOMAIN last.discarded : ~Fits(last.discarded[n], last.selected)

\* Until old results are cleared, a prompt replayed from the audit log is the
\* prompt that was built, whatever was said or compacted since.
ReplayedAsBuilt ==
    \A n \in DOMAIN log : log[n].clean => Replay(log[n]) = log[n].said

\* replay.py:61 "BuildResult identical to what was produced at pipeline time."
AlwaysReplayedAsBuilt == \A n \in DOMAIN log : Replay(log[n]) = log[n].said

Place(s, x) == CHOOSE n \in DOMAIN s : s[n] = x

\* Of two files of one size, the one used more recently is shown rather than
\* the other: collectors.py:114 "ordered by last_access (most recent first)".
NewestShown ==
    last.built =>
      \A d \in Range(Of(last.discarded, "file_cache")) :
        \A s \in Range(Of(last.selected, "file_cache")) :
          (s.tokens = d.tokens /\ {d.item, s.item} \subseteq Range(recent))
             => Place(recent, d.item) < Place(recent, s.item)

\* A file gone from the cache was not used after one that stayed.
LeastRecentEvicted ==
    \A n \in DOMAIN recent :
      (~Cached(recent[n]) /\ own[recent[n]] = 0)
         => \A m \in 1..(n-1) : ~Cached(recent[m])

\* The model has the instructions, and some memory when there is one.
InstructionKept == last.built => UsedBy(last.selected, "instruction") > 0
MemoryKept == last.built => (memories > 0 => UsedBy(last.selected, "memory") > 0)

\* A content in the cache is one the file had.
CachedIsContent == \A n \in DOMAIN cache : cache[n].version <= MaxVersion

==============================================================================
