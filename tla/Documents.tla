------------------------------ MODULE Documents -------------------------------
(***************************************************************************)
(* The hardware documents: Markdown files that the pages of                *)
(* web/hardware.py show and edit, and that the operator's own tools write  *)
(* as well.  An editor carries the digest of the text it started from, and *)
(* hardware.save refuses to replace any other; the page that says so       *)
(* carries on from a later text.                                           *)
(*                                                                         *)
(* A tab is an editor in a browser.  Its request reads the document        *)
(* first and then awaits the form, so other requests come between; from    *)
(* the comparison to the rename it keeps the event loop, and only a tool   *)
(* or a crash can.                                                         *)
(*                                                                         *)
(* Abstracted: a text is a value and its digest the same; names, titles    *)
(* and the rendering are left out, and what a tab writes is chosen when it *)
(* is written.  A definition named like the one below it, with a suffix,   *)
(* is that one with a mistake in it, to test the properties with.          *)
(***************************************************************************)
EXTENDS Naturals

CONSTANTS
    Slugs,      \* the documents' names
    Tabs,       \* the editors
    Texts,      \* what they may contain
    Absent,     \* in place of a text: no file; in place of a digest: a new document
    Nobody,     \* no tab
    MaxWrites   \* bound: how often the tools write or remove a document

ASSUME DocumentsAssumption ==
    /\ Absent \notin Texts /\ Nobody \notin Tabs
    /\ MaxWrites \in Nat

VARIABLES
    docs,       \* the files
    place,      \* where a tab's editor is: none, in the browser, sent, between check and rename
    slug,       \* the document it edits
    base,       \* the text whose digest it carries
    taken,      \* doc: what its request has read, before the form was there
    saving,     \* the tab that has the event loop to itself, past the comparison
    writes,     \* how often a tool wrote
    seen,       \* history: the texts that the editor was made from
    torn,       \* history: a tool wrote between the comparison and the rename
    refused     \* history: how often the editor was refused since its document changed

editors == <<place, slug, base, taken>>
docVars == <<docs, editors, saving, writes, seen, torn, refused>>

Contents == Texts \cup {Absent}

DocInit ==
    /\ docs \in [Slugs -> Contents]
    /\ place = [t \in Tabs |-> "none"]
    /\ slug \in [Tabs -> Slugs]
    /\ base = [t \in Tabs |-> Absent] /\ taken = [t \in Tabs |-> Absent]
    /\ saving = Nobody /\ writes = 0
    /\ seen = [t \in Tabs |-> {}] /\ torn = FALSE
    /\ refused = [t \in Tabs |-> 0]

\* The handlers have the event loop in turn.
Free == saving = Nobody

\* The document changes, and whoever is refused from now on is so for this.
Becomes(s, text) ==
    /\ docs' = [docs EXCEPT ![s] = text]
    /\ refused' = [t \in Tabs |-> IF slug[t] = s THEN 0 ELSE refused[t]]

-----------------------------------------------------------------------------
(* The pages.                                                              *)

\* edit: the editor comes with the text and its digest.
OpenEditor(t, s) ==
    /\ Free /\ place[t] \in {"none", "open"} /\ docs[s] \in Texts
    /\ place' = [place EXCEPT ![t] = "open"]
    /\ slug' = [slug EXCEPT ![t] = s]
    /\ base' = [base EXCEPT ![t] = docs[s]]
    /\ seen' = [seen EXCEPT ![t] = {docs[s]}]
    /\ refused' = [refused EXCEPT ![t] = 0]
    /\ UNCHANGED <<docs, taken, saving, writes, torn>>

\* save, up to its await: without the document, a 404 in place of the editor.
Submit(t) ==
    /\ Free /\ place[t] = "open"
    /\ place' = [place EXCEPT ![t] = IF docs[slug[t]] = Absent THEN "none" ELSE "sent"]
    /\ taken' = [taken EXCEPT ![t] = docs[slug[t]]]
    /\ UNCHANGED <<docs, slug, base, saving, writes, seen, torn, refused>>

\* hardware.save: it is the text that the editor started from.
SameAsBaseOrLater(t) == docs[slug[t]] \in {base[t], taken[t]}
SameAsBase(t) == docs[slug[t]] = base[t]

\* The form is there, and hardware.save compares.
Accept(t) ==
    /\ Free /\ place[t] = "sent" /\ SameAsBase(t)
    /\ place' = [place EXCEPT ![t] = "saves"]
    /\ saving' = t /\ torn' = FALSE
    /\ UNCHANGED <<docs, slug, base, taken, writes, seen, refused>>

\* Conflict: the editor comes back with the digest of what the request had read.
Refuse(t) ==
    /\ Free /\ place[t] = "sent" /\ ~SameAsBase(t)
    /\ place' = [place EXCEPT ![t] = "open"]
    /\ base' = [base EXCEPT ![t] = taken[t]]
    /\ seen' = [seen EXCEPT ![t] = @ \cup {taken[t]}]
    /\ refused' = [refused EXCEPT ![t] = @ + 1]
    /\ UNCHANGED <<docs, slug, taken, saving, writes, torn>>

\* Too large: the same editor again.
TooLarge(t) ==
    /\ Free /\ place[t] = "sent"
    /\ place' = [place EXCEPT ![t] = "open"]
    /\ UNCHANGED <<docs, slug, base, taken, saving, writes, seen, torn, refused>>

\* add: a new document, which must not exist; if it does, the list says so.
Add(t, s) ==
    /\ Free /\ place[t] = "none" /\ docs[s] = Absent
    /\ place' = [place EXCEPT ![t] = "saves"]
    /\ slug' = [slug EXCEPT ![t] = s]
    /\ base' = [base EXCEPT ![t] = Absent]
    /\ seen' = [seen EXCEPT ![t] = {}]
    /\ refused' = [refused EXCEPT ![t] = 0]
    /\ saving' = t /\ torn' = FALSE
    /\ UNCHANGED <<docs, taken, writes>>

\* The rest of hardware.save: the new text takes the old one's place at once.
Rename(t) ==
    /\ saving = t
    /\ \E text \in Texts : Becomes(slug[t], text)
    /\ place' = [place EXCEPT ![t] = "none"]
    /\ saving' = Nobody
    /\ UNCHANGED <<slug, base, taken, writes, seen, torn>>

\* It is not written, and the operator goes back to the editor, if there was one.
Fail(t) ==
    /\ saving = t
    /\ place' = [place EXCEPT ![t] = IF base[t] = Absent THEN "none" ELSE "open"]
    /\ saving' = Nobody
    /\ UNCHANGED <<docs, slug, base, taken, writes, seen, torn, refused>>

\* remove: without a digest.
Remove(s) ==
    /\ Free /\ docs[s] \in Texts
    /\ Becomes(s, Absent)
    /\ UNCHANGED <<editors, saving, writes, seen, torn>>

-----------------------------------------------------------------------------
(* Beside them.                                                            *)

\* A tool writes or removes a document, at any time.
ToolWrites(s) ==
    /\ writes < MaxWrites
    /\ \E text \in Contents \ {docs[s]} : Becomes(s, text)
    /\ torn' = (torn \/ \E t \in Tabs : saving = t /\ slug[t] = s)
    /\ writes' = writes + 1
    /\ UNCHANGED <<editors, saving, seen>>

\* The process is restarted; the browsers keep their editors.
Restarted ==
    /\ place' = [t \in Tabs |-> IF place[t] = "none" \/ base[t] = Absent THEN "none" ELSE "open"]
    /\ saving' = Nobody
    /\ UNCHANGED <<docs, slug, base, taken, writes, seen, torn, refused>>

DocNext ==
    \/ \E t \in Tabs :
          \/ \E s \in Slugs : OpenEditor(t, s) \/ Add(t, s)
          \/ Submit(t) \/ Accept(t) \/ Refuse(t) \/ TooLarge(t) \/ Rename(t) \/ Fail(t)
    \/ \E s \in Slugs : Remove(s) \/ ToolWrites(s)
    \/ Restarted

DocSpec == DocInit /\ [][DocNext]_docVars

-----------------------------------------------------------------------------
(* What holds of it.                                                       *)

DocTypeOK ==
    /\ docs \in [Slugs -> Contents]
    /\ place \in [Tabs -> {"none", "open", "sent", "saves"}]
    /\ slug \in [Tabs -> Slugs]
    /\ base \in [Tabs -> Contents] /\ taken \in [Tabs -> Contents]
    /\ saving \in Tabs \cup {Nobody} /\ writes \in 0 .. MaxWrites
    /\ seen \in [Tabs -> SUBSET Texts] /\ torn \in BOOLEAN
    /\ refused \in [Tabs -> Nat]

\* What a save takes away is a text that this editor was made from, shown or in reply to a
\* refusal, or nothing: never what another tab or a tool has put there meanwhile, unless a tool
\* did so in the instant between the comparison and the rename (hardware.save).
NoneErasedUnseen ==
    /\ DocTypeOK
    /\ \A t \in Tabs : saving = t /\ ~torn =>
          IF base[t] = Absent THEN docs[slug[t]] = Absent ELSE docs[slug[t]] \in seen[t]

\* An operator who saves again and again a document that nobody else changes any more is
\* refused twice at most: a refusal goes on from what the request had read (save in
\* web/hardware.py).
RefusedTwiceAtMost == \A t \in Tabs : refused[t] <= 2

\* Who edits a document takes nothing away unseen and is not turned away for ever.
EditorsAreHeard == NoneErasedUnseen /\ RefusedTwiceAtMost

=============================================================================
