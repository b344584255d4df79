-------------------------------- MODULE Sources --------------------------------
(***************************************************************************)
(* The list of sources: a file the crawler reads when it starts and         *)
(* administrators change through the API.  A line is a comment or a source; *)
(* the same address may be written in more than one way.  A change reads    *)
(* the whole file, writes the whole of it to a temporary one and renames    *)
(* that.  Nothing keeps two administrators apart, and the temporary file is *)
(* one for all of them; the API may be stopped at any step.                 *)
(***************************************************************************)
EXTENDS Integers, FiniteSets

CONSTANTS Admins,    \* administrators who may ask for a change at once
          Comments,  \* lines that are not sources
          Sites,     \* addresses
          Traps      \* those of them an administrator may not add

VARIABLES
  file,    \* the lines of the file
  tmp,     \* and of the temporary one: none, or one set of lines
  request, \* of each administrator, the change under way
  known,   \* addresses the frontier knows
  last,    \* of each line, what its last change was answered
  torn     \* two changes have met, or one was made to a file that could not be read

vars == <<file, tmp, request, known, last, torn>>

(* An address as it is written by hand, and as SafeUrl writes it. *)
Spellings == {"typed", "normal"}
Seeds     == Sites \X Spellings
Lines     == Comments \cup Seeds
Normal(seed) == <<seed[1], "normal">>

(* A request is for one line, its seed.  The file it has open is the one   *)
(* called tmp, or one that has been renamed since.  A void request met     *)
(* another on its way: what it is answered says nothing of the file.       *)
Changes  == [op : {"none", "add", "remove"}, seed : SUBSET Seeds, raw : SUBSET Lines,
              at : {"none", "read", "open", "fill", "rename", "queue", "answer"},
              into : {"none", "tmp", "file", "gone"}, void : BOOLEAN]
NoRequest == [op |-> "none", seed |-> {}, raw |-> {}, at |-> "none", into |-> "none", void |-> FALSE]
Unknown   == [s \in Seeds |-> "unknown"]

(* Comments are no sources: what the file keeps of them is its own affair. *)
SourcesAssumption == Comments \cap Seeds = {}

TypeOK ==
  /\ file \subseteq Lines /\ tmp \subseteq SUBSET Lines /\ Cardinality(tmp) <= 1
  /\ request \in [Admins -> Changes]
  /\ known \subseteq Sites
  /\ last \in [Seeds -> {"unknown", "added", "removed"}] /\ torn \in BOOLEAN

Init ==
  /\ \E byHand \in SUBSET (Sites \X {"typed"}) : file = Comments \cup byHand
  /\ tmp = {} /\ request = [a \in Admins |-> NoRequest] /\ known = {}
  /\ last = Unknown /\ torn = FALSE

-----------------------------------------------------------------------------
(* read_seeds *)
Parsed(lines) == lines \cap Seeds

(* A request is changing the file from when it has read it until it has    *)
(* renamed the new one.                                                    *)
Changing(a) == request[a].at \in {"open", "fill", "rename"}
HasRead(a)  == Changing(a) \/ request[a].at \in {"queue", "answer"}
Others(a)   == {b \in Admins \ {a} : Changing(b)}

(* Of two requests for one line it is not known which comes last. *)
Ask(a, op, seed) ==
  /\ request[a] = NoRequest
  /\ request' = [b \in Admins |->
       IF b = a THEN [NoRequest EXCEPT !.op = op, !.seed = {seed}, !.at = "read",
                                       !.void = \E c \in Admins : request[c].seed = {seed}]
       ELSE [request[b] EXCEPT !.void = @ \/ request[b].seed = {seed}]]
  /\ last' = [last EXCEPT ![seed] = "unknown"]
  /\ UNCHANGED <<file, tmp, known, torn>>

(* The address is made normal and refused if it is a trap. *)
AskAdd(a, seed)    == seed[1] \notin Traps /\ Ask(a, "add", Normal(seed))
AskRemove(a, seed) == Ask(a, "remove", seed)

(* What comes after a request has read these lines: no change is made if   *)
(* the line to add is there or the one to remove is not.                   *)
NextStep(a, raw) ==
  LET here == request[a].seed \subseteq Parsed(raw)
  IN  CASE request[a].op = "add" /\ here     -> "queue"
        [] request[a].op = "remove" /\ ~here -> "answer"
        [] OTHER                             -> "open"

(* The file is read, as empty where it cannot be.  If another request is   *)
(* changing it, or what is to be changed has not been read, nothing that   *)
(* was answered is sure any more.                                          *)
Read(a) ==
  /\ request[a].at = "read"
  /\ \E readable \in BOOLEAN :
       LET raw   == IF readable THEN file ELSE {}
           step  == NextStep(a, raw)
           meets == step = "open" /\ (Others(a) # {} \/ ~readable)
           void  == request[a].void \/ ~readable \/ meets \/ \E c \in Others(a) : request[c].void
       IN  /\ request' = [b \in Admins |->
                IF b = a THEN [request[a] EXCEPT !.raw = IF step = "open" THEN raw ELSE {}, !.at = step, !.void = void]
                         ELSE [request[b] EXCEPT !.void = @ \/ (meets /\ HasRead(b))]]
           /\ last' = IF meets THEN Unknown ELSE last
           /\ torn' = (torn \/ meets)
  /\ UNCHANGED <<file, tmp, known>>

(* Faulty: only the sources are written again. *)
UpdatedSeeds(a) == IF request[a].op = "add" THEN Parsed(request[a].raw) \cup request[a].seed
                                            ELSE Parsed(request[a].raw) \ request[a].seed
Updated(a) == IF request[a].op = "add" THEN request[a].raw \cup request[a].seed
                                       ELSE request[a].raw \ request[a].seed

Goes(a, step) == request' = [request EXCEPT ![a].at = step]

(* The temporary file is created, or emptied for whoever has it open. *)
Open(a) ==
  /\ request[a].at = "open"
  /\ tmp' = {{}}
  /\ request' = [request EXCEPT ![a].at = "fill", ![a].into = "tmp"]
  /\ UNCHANGED <<file, known, last, torn>>

(* Lines go where the open file is by now, over those others have written;  *)
(* of these the end may be left.                                           *)
Put(a, lines) ==
  LET Over(old) == {lines \cup rest : rest \in SUBSET old}
  IN  /\ IF request[a].into = "tmp" THEN \E old \in tmp : \E new \in Over(old) : tmp' = {new} ELSE tmp' = tmp
      /\ IF request[a].into = "file" THEN file' \in Over(file) ELSE file' = file

Fill(a) ==
  /\ request[a].at = "fill"
  /\ Put(a, Updated(a))
  /\ request' = [request EXCEPT ![a].at = "rename", ![a].into = "none", ![a].raw = {}]
  /\ UNCHANGED <<known, last, torn>>

(* Whoever has the temporary file open has the list open from now on. *)
Moved(into) == CASE into = "tmp" -> "file" [] into = "file" -> "gone" [] OTHER -> into

Rename(a) ==
  /\ request[a].at = "rename"
  /\ file' \in tmp /\ tmp' = {}
  /\ request' = [b \in Admins |->
       IF b = a THEN [request[a] EXCEPT !.at = IF request[a].op = "add" THEN "queue" ELSE "answer"]
       ELSE [request[b] EXCEPT !.into = Moved(@)]]
  /\ UNCHANGED <<known, last, torn>>

(* Writing or renaming fails, and that is the answer.  Of what was to be   *)
(* written a part is there.  There is nothing to rename if another request *)
(* has done it.                                                            *)
Fail(a) ==
  /\ Changing(a)
  /\ \E part \in SUBSET Updated(a) : Put(a, part)
  /\ request' = [request EXCEPT ![a] = NoRequest]
  /\ UNCHANGED <<known, last, torn>>

(* add and promote, whatever comes of them. *)
Queue(a) ==
  /\ request[a].at = "queue"
  /\ known' \in {known, known \cup {s[1] : s \in request[a].seed}}
  /\ Goes(a, "answer")
  /\ UNCHANGED <<file, tmp, last, torn>>

(* What a removal that finds nothing answers is that nothing is listed.    *)
Answer(a) ==
  /\ request[a].at = "answer"
  /\ last' = [s \in Seeds |->
       IF request[a].void \/ s \notin request[a].seed THEN last[s]
       ELSE IF request[a].op = "add" THEN "added" ELSE "removed"]
  /\ request' = [request EXCEPT ![a] = NoRequest]
  /\ UNCHANGED <<file, tmp, known, torn>>

(* The API is stopped.  What it was writing is there in part: as after a   *)
(* Fail just before.                                                       *)
Stop ==
  /\ \E a \in Admins : request[a] # NoRequest
  /\ request' = [a \in Admins |-> NoRequest]
  /\ UNCHANGED <<file, tmp, known, last, torn>>

(* A crawler starts: it reads the list and adds what is in it, traps too,   *)
(* as far as the frontier can be written.                                  *)
CrawlerStarts ==
  /\ \E added \in SUBSET {s[1] : s \in Parsed(file)} : known' = known \cup added
  /\ UNCHANGED <<file, tmp, request, last, torn>>

Next ==
  \/ \E a \in Admins :
       \/ \E s \in Seeds : AskAdd(a, s) \/ AskRemove(a, s)
       \/ Read(a) \/ Open(a) \/ Fill(a) \/ Rename(a) \/ Fail(a) \/ Queue(a) \/ Answer(a)
  \/ Stop \/ CrawlerStarts
Spec == Init /\ [][Next]_vars

-----------------------------------------------------------------------------
(* Until two changes meet, or one is made to a file that could not be read, *)
(* no comment is ever lost from it, at whatever step the API stops.  And at *)
(* any time, what has been answered to be added since two changes last met *)
(* is in it and what has been answered to be removed is not, until the      *)
(* next change of that line, however the requests of the administrators    *)
(* lie beside each other (add_source, remove_source).                      *)
ListIsKept ==
  /\ ~torn => Comments \subseteq file
  /\ \A s \in Seeds : /\ last[s] = "added" => s \in file
                      /\ last[s] = "removed" => s \notin file
=============================================================================
