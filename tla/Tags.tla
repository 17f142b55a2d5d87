-------------------------------- MODULE Tags --------------------------------
(***************************************************************************)
(* The tags of a dataset (Tree of packages/fs; the commands tag and import *)
(* of packages/secrez change them).  They are kept in memory and, all of   *)
(* them, in one file.  The first save of a session adds a file to the one  *)
(* that was loaded; each later one deletes its own and writes another.     *)
(***************************************************************************)
EXTENDS Integers

CONSTANT TagNames

VARIABLES
    tags,       \* Tree.tags.content: the secrets under each tag there is
    changed,    \* Tree.tagsChanged
    previous,   \* Tree.previousTags, as the set of the file, or none
    tagFiles,   \* the files of tags in the dataset, numbered by their ts
    due,        \* the tags when they were last saved
    cut         \* a save failed, or the session ended between its two writes

tagVars == <<tags, changed, previous, tagFiles, due, cut>>

NoTags == [t \in {} |-> {}]

TagsInit ==
    /\ tags = NoTags /\ changed = FALSE /\ previous = {}
    /\ tagFiles = {} /\ due = NoTags /\ cut = FALSE

Newest == CHOOSE f \in tagFiles : \A g \in tagFiles : g.ts <= f.ts

OnDisk == IF tagFiles = {} THEN NoTags ELSE Newest.holds

\* As LoadTags, with the file the folder lists first.
LoadTagsMutantAny ==
    /\ IF tagFiles = {} THEN tags' = NoTags ELSE \E f \in tagFiles : tags' = f.holds
    /\ changed' = FALSE /\ previous' = {}
    /\ UNCHANGED <<tagFiles, due, cut>>

\* loadTags: the newest file, which is not the one the first save deletes.
LoadTags ==
    /\ tags' = OnDisk
    /\ changed' = FALSE /\ previous' = {}
    /\ UNCHANGED <<tagFiles, due, cut>>

AddTag(t, nodes) ==
    /\ tags' = [u \in DOMAIN tags \cup {t} |->
                  (IF u \in DOMAIN tags THEN tags[u] ELSE {}) \cup (IF u = t THEN nodes ELSE {})]
    /\ changed' = TRUE
    /\ UNCHANGED <<previous, tagFiles, due, cut>>

\* Of a tag there is; it stays when it has no secrets left.
RemoveTag(t, nodes) ==
    /\ t \in DOMAIN tags
    /\ tags' = [tags EXCEPT ![t] = @ \ nodes]
    /\ changed' = (changed \/ tags[t] \cap nodes # {})
    /\ UNCHANGED <<previous, tagFiles, due, cut>>

\* saveTags, up to where the file before is deleted: from here on there is
\* nothing left to save.
UnsaveTags ==
    /\ changed
    /\ changed' = FALSE
    /\ tagFiles' = tagFiles \ previous
    /\ UNCHANGED <<tags, previous, due, cut>>

WriteTags ==
    LET f == [ts |-> IF tagFiles = {} THEN 1 ELSE Newest.ts + 1, holds |-> tags] IN
    /\ tagFiles' = tagFiles \cup {f}
    /\ previous' = {f}
    /\ due' = tags
    /\ UNCHANGED <<tags, changed, cut>>

\* It throws, and nothing tries again until a tag changes.
WriteTagsFails ==
    /\ cut' = TRUE
    /\ UNCHANGED <<tags, changed, previous, tagFiles, due>>

\* The session ends, perhaps between the two writes.
ForgetTags(between) ==
    /\ cut' = (cut \/ (between /\ previous # {}))
    /\ tags' = NoTags /\ changed' = FALSE /\ previous' = {}
    /\ UNCHANGED <<tagFiles, due>>

-----------------------------------------------------------------------------
TagsTypeOK ==
    /\ {DOMAIN tags, DOMAIN due} \subseteq SUBSET TagNames
    /\ changed \in BOOLEAN /\ cut \in BOOLEAN
    /\ changed /\ ~cut => previous \subseteq tagFiles
    /\ \A f \in tagFiles : f.ts \in Nat \ {0} /\ DOMAIN f.holds \subseteq TagNames
=============================================================================
