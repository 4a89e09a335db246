------------------------------- MODULE Intake -------------------------------
(***************************************************************************)
(* What an upload has to pass before it is a contract: the first part of   *)
(* upload_contract (api/routes_upload.py), with services/upload_validation *)
(* and services/pdf_extractor, the filter, and the telephone numbers of    *)
(* services/whatsapp.  Sizes are in units of which Chunk are read at once. *)
(***************************************************************************)
EXTENDS ContractFilter

CONSTANTS
  Limit,      \* MAX_UPLOAD_BYTES
  Chunk,      \* READ_CHUNK
  Overhead,   \* what the multipart form adds to the file
  MaxSize,    \* bound on the size of a file
  MaxPages,   \* max_pdf_pages
  Words, MaxWords,    \* the texts that are extracted
  Symbols, MaxPhone,  \* the numbers that are entered
  MinDigits, MaxDigits,  \* 8 and 15
  None        \* no number

ASSUME IntakeAssumption ==
  /\ Limit \in Nat /\ Overhead \in Nat /\ MaxSize \in Nat /\ MaxPages \in Int
  /\ Chunk \in Nat \ {0}
  /\ MaxWords \in Nat /\ MaxPhone \in Nat

VARIABLES
  file,     \* the upload: name, type, size, declared length, magic bytes, pages
  pc,       \* the statement at which the handler stands
  buf,      \* size of the buffer of read_limited
  enabled,  \* contract_filter_enabled
  lexicon,  \* whether the lexicon could be loaded
  text,     \* raw_text, until the filter has judged it
  phone,    \* whatsapp_phone of the contract
  answer    \* the HTTP status; 200 is given over to the pipeline

vars == <<file, pc, buf, enabled, lexicon, text, phone, answer>>

Files ==
  [name : {"blank", ".pdf", "other"}, type : {"allowed", "other"}, size : 0 .. MaxSize,
   declared : BOOLEAN, magic : BOOLEAN, pages : -1 .. MaxPages + 1]

Init ==
  /\ file \in Files
  /\ pc = "header" /\ buf = 0 /\ answer = 0
  /\ enabled \in BOOLEAN /\ lexicon \in BOOLEAN /\ text = <<>> /\ phone = None

-----------------------------------------------------------------------------
Goto(label) == pc' = label /\ UNCHANGED answer

Answer(code) == pc' = "end" /\ answer' = code

\* _enforce_upload_limit, before anything is looked at; see RateLimit.
TooMany ==
  /\ pc = "header"
  /\ Answer(429)
  /\ UNCHANGED <<file, buf, enabled, lexicon, text, phone>>

\* The name, the type, and the length of the whole form where one is declared.
ValidateHeader ==
  LET named == file.name = ".pdf" /\ file.type = "allowed"
      tooLong == file.declared /\ file.size + Overhead > Limit
  IN /\ pc = "header"
     /\ \/ ~named /\ Answer(400)
        \/ named /\ tooLong /\ Answer(413)
        \/ named /\ ~tooLong /\ Goto("read")
     /\ UNCHANGED <<file, buf, enabled, lexicon, text, phone>>

\* Faulty variant: the size is looked at when all has been read.
ReadAll ==
  /\ pc = "read"
  /\ buf' = Least(file.size, buf + Chunk)
  /\ \/ buf < file.size /\ Goto("read")
     \/ buf = file.size /\ buf > Limit /\ Answer(413)
     \/ buf = file.size /\ buf <= Limit /\ Goto("payload")
  /\ UNCHANGED <<file, enabled, lexicon, text, phone>>

\* A turn of the loop of read_limited; the last one finds nothing more.
ReadChunk ==
  /\ pc = "read"
  /\ buf' = Least(file.size, buf + Chunk)
  /\ \/ buf = file.size /\ Goto("payload")
     \/ buf < file.size /\ buf' > Limit /\ Answer(413)
     \/ buf < file.size /\ buf' <= Limit /\ Goto("read")
  /\ UNCHANGED <<file, enabled, lexicon, text, phone>>

\* validate_payload
ValidatePayload ==
  /\ pc = "payload"
  /\ \/ buf > 0 /\ buf > Limit /\ Answer(413)
     \/ buf = 0 /\ Answer(422)
     \/ buf \in 1 .. Limit /\ ~file.magic /\ Answer(422)
     \/ buf \in 1 .. Limit /\ file.magic /\ Goto("pages")
  /\ UNCHANGED <<file, buf, enabled, lexicon, text, phone>>

\* validate_pdf_page_count: -1 is a file that pypdf cannot read.
CountPages ==
  LET tooMany == MaxPages > 0 /\ file.pages > MaxPages
  IN /\ pc = "pages"
     /\ \/ (file.pages = -1 \/ tooMany) /\ Answer(422)
        \/ file.pages # -1 /\ ~tooMany /\ Goto("extract")
     /\ UNCHANGED <<file, buf, enabled, lexicon, text, phone>>

\* extract_text_from_pdf: any text, none at all, or an exception.
Extract ==
  /\ pc = "extract"
  /\ \/ Answer(422) /\ UNCHANGED text
     \/ /\ text' \in UNION {[1 .. n -> Words] : n \in 1 .. MaxWords}
        /\ Goto("filter")
  /\ UNCHANGED <<file, buf, enabled, lexicon, phone>>

\* The text is stored as it is, and not looked at again.  Where the filter is
\* switched off the document is assessed all the same, and accepted.
Assess ==
  LET accepted == enabled => IsContract(AssessContract(text, lexicon))
  IN /\ pc = "filter"
     /\ \/ ~accepted /\ Answer(422)
        \/ accepted /\ Goto("phone")
     /\ text' = <<>>
     /\ UNCHANGED <<file, buf, enabled, lexicon, phone>>

-----------------------------------------------------------------------------
(***************************************************************************)
(* Telephone numbers: "9" is any ASCII digit but 0, "u" another digit of   *)
(* Unicode, " " what is removed, "line" a line break.                      *)
(***************************************************************************)
Digits == {"0", "2", "6", "9"}

\* _PHONE_STRIP_RE, and the plus sign.
Stripped(raw) ==
  LET s == Without(raw, {" ", "line"})
  IN IF s # <<>> /\ Head(s) = "+" THEN Tail(s) ELSE s

\* A leading 0 stands for Indonesia.
International(s) == IF s # <<>> /\ Head(s) = "0" THEN <<"6", "2">> \o Tail(s) ELSE s

NormalizePhone(raw) == International(Stripped(raw))

\* Faulty variant: the length is taken as the number was entered.
ValidAsEntered(raw) ==
  LET s == Stripped(raw)
  IN /\ "line" \notin Range(raw)
     /\ s # <<>> /\ Range(s) \subseteq Digits
     /\ Len(s) \in MinDigits .. MaxDigits

ValidPhone(raw) ==
  LET s == Stripped(raw)
  IN /\ "line" \notin Range(raw)
     /\ s # <<>> /\ Range(s) \subseteq Digits \cup {"u"}
     /\ Len(International(s)) \in MinDigits .. MaxDigits
     /\ Range(s) \subseteq Digits /\ Len(s) \in MinDigits .. MaxDigits

\* notify_whatsapp is off, or there is a number, which is stored in its
\* international form.  From here on it is the Upload of ContractLifecycle.
CheckPhone ==
  /\ pc = "phone"
  /\ \/ phone' = None /\ Answer(200)
     \/ phone' = None /\ Answer(422)
     \/ \E n \in 1 .. MaxPhone : \E raw \in [1 .. n -> Symbols] :
          /\ ValidPhone(raw)
          /\ phone' = NormalizePhone(raw)
          /\ Answer(200)
  /\ UNCHANGED <<file, buf, enabled, lexicon, text>>

Next ==
  \/ TooMany \/ ValidateHeader \/ ReadChunk \/ ValidatePayload \/ CountPages
  \/ Extract \/ Assess \/ CheckPhone

Spec == Init /\ [][Next]_vars

-----------------------------------------------------------------------------
(***************************************************************************)
(* Properties.                                                             *)
(***************************************************************************)

\* Whatever the client sends, and whether or not it declares a length, the
\* handler's own buffer never grows beyond the limit and one chunk.  What the
\* framework spooled before the handler began, and the copy that read_limited
\* returns, are not counted.
BufferBounded == buf <= Limit + Chunk

\* The stored number passes the check and the normalisation that stand before
\* the notification, much later, once more and unchanged: a number accepted here
\* is not silently refused there.
PhoneRevalidates == phone # None => ValidPhone(phone) /\ NormalizePhone(phone) = phone

\* A word beyond the cap of three, or one that means nothing to the filter, makes
\* no document more of a contract: it lifts the score by no more than it dilutes
\* the penalty, so all that stuffing can ever gain is the penalty, and a document
\* without negative words gains nothing.
StuffingBuysOnlyRelief ==
  LET words == NormalizeText(text)
      before == Front(words)
  IN  Stuffed(text) => Score(words) - Score(before) <= Penalty(before) - Penalty(words)
=============================================================================
