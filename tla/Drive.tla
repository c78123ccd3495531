--------------------------------- MODULE Drive ---------------------------------
(***************************************************************************)
(* app/drive_executor.py: the Drive verbs, call by call, against the files *)
(* this service has made, which the owner edits meanwhile.                 *)
(*                                                                         *)
(* A file is a record of its name, its folder, whether it is plain text,   *)
(* and its content: the sequence of the texts written to it, by identity,  *)
(* and of NewLine.  Google shows the service no file it did not make.      *)
(***************************************************************************)
EXTENDS Executor

CONSTANTS FileId,           \* the ids files may have
          OwnersText        \* what the owner writes into a file

NewLine == "newline"
Elsewhere == "elsewhere"    \* any folder that is not the gatekeeper's

VARIABLES files,            \* from FileId to a file, or None
          folders           \* how many folders the service has made

driveVars == <<executorVars, files, folders>>

EditVerbs == {"drive.update_file", "drive.append_file"}

IsSequence(s) == Len(s) \in Nat /\ s = [i \in 1..Len(s) |-> s[i]]

IsFile(file) ==
    /\ DOMAIN file = {"name", "folder", "plain", "content"}
    /\ IsSequence(file.content)

File(id) == IF id \in FileId THEN files[id] ELSE None

-----------------------------------------------------------------------------
(* drive.create_file.  With no folder configured the client makes one, and *)
(* the client lives as long as the request.                                *)

ResolveFolder ==
    /\ Calling("drive.create_file", "start")
    /\ call' = [call EXCEPT !.at = "write", !.target = IF setup.folder = None THEN Elsewhere ELSE setup.folder]
    /\ folders' = IF setup.folder = None THEN folders + 1 ELSE folders
    /\ UNCHANGED <<ownerSteps, setup, files>>

Pieces(text) == IF text.size = 0 THEN <<>> ELSE <<text.what>>

CreateFile ==
    /\ Calling("drive.create_file", "write")
    /\ \E id \in {x \in FileId : files[x] = None} :
           files' = [files EXCEPT ![id] = [name |-> call.p.name, folder |-> call.target,
                                           plain |-> TRUE, content |-> Pieces(call.p.content)]]
    /\ Complete(OneItem(<<call.p.name>>))
    /\ UNCHANGED <<ownerSteps, setup, folders>>

-----------------------------------------------------------------------------
(* drive.update_file and drive.append_file.                                *)

\* A name must belong to exactly one file of the folder.
ResolveFileId ==
    /\ call.at = "start"
    /\ call.verb \in EditVerbs
    /\ LET found == {id \in FileId : /\ files[id] # None
                                     /\ files[id].folder = setup.folder
                                     /\ files[id].name.what = call.p.name.what}
       IN IF Has(call.p, "file_id") /\ call.p.file_id # None
          THEN call' = [call EXCEPT !.at = "read", !.target = call.p.file_id.what]
          ELSE IF setup.folder = None \/ found = {} THEN Deny("not_found")
          ELSE IF Cardinality(found) > 1 THEN Deny("ambiguous_file")
          ELSE call' = [call EXCEPT !.at = "read", !.target = CHOOSE id \in found : TRUE]
    /\ UNCHANGED <<ownerSteps, setup, files, folders>>

\* Mutant: any text file that the service can reach may be edited.
ReadAnyFile ==
    /\ call.at = "read"
    /\ LET file == File(call.target)
       IN IF file = None THEN Fail(HttpError(404))
          ELSE IF ~file.plain THEN Deny("invalid_params")
          ELSE call' = [call EXCEPT !.at = "edit_guard", !.seen = file, !.since = ownerSteps]
    /\ UNCHANGED <<ownerSteps, setup, files, folders>>

\* _gatekeeper_text_file and _current_text, two calls read as one.
ReadFile ==
    /\ call.at = "read"
    /\ LET file == File(call.target)
       IN IF setup.folder = None THEN Deny("not_gatekeeper_file")
          ELSE IF file = None THEN Fail(HttpError(404))
          ELSE IF file.folder # setup.folder THEN Deny("not_gatekeeper_file")
          ELSE IF ~file.plain THEN Deny("invalid_params")
          ELSE call' = [call EXCEPT !.at = "edit_guard", !.seen = file, !.since = ownerSteps]
    /\ UNCHANGED <<ownerSteps, setup, files, folders>>

GuardEdit ==
    /\ call.at = "edit_guard"
    /\ \E lost \in LostCalls({<<"edit", i>> : i \in 1..ChunkCount(call.p.content.size)}
                                 \cup {<<"edit", 1>>}) :
           LET refusal == IF setup.screening THEN EditGuard(call.p.content, lost) ELSE None
           IN IF refusal # None THEN Deny(refusal)
              ELSE call' = [call EXCEPT !.at = "write"]
    /\ UNCHANGED <<ownerSteps, setup, files, folders>>

\* Mutant: the line break replaces what was there when there was none.
AppendedAfresh(content, new) ==
    IF content # <<>> /\ Last(content) # NewLine THEN <<NewLine>> \o Pieces(new)
    ELSE content \o Pieces(new)

Appended(content, new) ==
    (IF content # <<>> /\ Last(content) # NewLine THEN Append(content, NewLine) ELSE content)
        \o Pieces(new)

\* The whole content is uploaded, an appended text after what was read.
WriteFile ==
    /\ call.at = "write"
    /\ call.verb \in EditVerbs
    /\ LET new == IF call.verb = "drive.append_file"
                  THEN Appended(call.seen.content, call.p.content)
                  ELSE Pieces(call.p.content)
       IN IF File(call.target) = None THEN Fail(HttpError(404)) /\ UNCHANGED files
          ELSE /\ files' = [files EXCEPT ![call.target].content = new]
               /\ Complete(OneItem(<<files[call.target].name>>))
    /\ UNCHANGED <<ownerSteps, setup, folders>>

-----------------------------------------------------------------------------

OwnerEditsFile(file) ==
    {[file EXCEPT !.content = Append(@, OwnersText)],
     [file EXCEPT !.content = <<>>],
     [file EXCEPT !.folder = Elsewhere],
     None}

OwnerChangesFile ==
    /\ OwnerActs
    /\ \E id \in {x \in FileId : files[x] # None} :
           \E edited \in OwnerEditsFile(files[id]) \ {files[id]} :
               files' = [files EXCEPT ![id] = edited]
    /\ UNCHANGED folders

DriveStep ==
    \/ ResolveFolder
    \/ CreateFile
    \/ ResolveFileId
    \/ ReadFile
    \/ GuardEdit
    \/ WriteFile
=============================================================================
