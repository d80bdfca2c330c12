------------------------------ MODULE StateFile -------------------------------
(***************************************************************************)
(* The state file (state_file.c): the client list as it was when the       *)
(* daemon stopped, read back when it starts.  The file is a set of entries *)
(* whose `ord' is their place in it.  json_object_to_file truncates the    *)
(* file and then writes it; an incomplete file is refused by the parser.   *)
(***************************************************************************)
EXTENDS Auth

VARIABLE saved   \* Null: no file

StateFile == [complete : BOOLEAN, clients : SUBSET t_client]

state_file_export ==
    /\ saved' = [complete |-> FALSE, clients |-> {heap[n] : n \in clients}]
    /\ UNCHANGED authVars

(* The write finishes, or fails and leaves what it wrote. *)
json_object_to_file ==
    /\ saved' \in {saved, [saved EXCEPT !.complete = TRUE]}
    /\ UNCHANGED authVars

(* The entry of a non-empty set E of the file that is read first. *)
FirstEntry(E) == CHOOSE e \in E : \A f \in E : e.ord <= f.ord

Importable(e) ==
    /\ client_list_find(e.peer) = Null
    /\ client_list_find_by_id(e.id) = Null
    /\ ~ListFull

ImportedState(e) ==
    IF CanChange(InitialMark(MacOfPeer(e.peer)), e.fw_connection_state)
    THEN e.fw_connection_state ELSE InitialMark(MacOfPeer(e.peer))

state_file_import_client_StateOnly(e, n) ==
    /\ Importable(e)
    /\ heap' = [heap EXCEPT ![n] = [e EXCEPT !.ord = NextPlace,
                                             !.fw_connection_state = ImportedState(e)]]
    /\ clients' = clients \cup {n}
    /\ client_id' = client_id + 1
    /\ client_count' = client_count + 1
    /\ UNCHANGED <<rules, macVars>>

state_file_import_client_NotCounted(e, n) ==
    /\ Importable(e)
    /\ heap' = [heap EXCEPT ![n] = [e EXCEPT !.ord = NextPlace,
                                             !.fw_connection_state = ImportedState(e)]]
    /\ clients' = clients \cup {n}
    /\ client_id' = client_id + 1
    /\ UNCHANGED client_count
    /\ IF CanChange(InitialMark(MacOfPeer(e.peer)), e.fw_connection_state)
       THEN iptables_fw_authenticate(e.peer) ELSE UNCHANGED rules
    /\ UNCHANGED macVars

state_file_import_client_RulesForAll(e, n) ==
    /\ Importable(e)
    /\ heap' = [heap EXCEPT ![n] = [e EXCEPT !.ord = NextPlace,
                                             !.fw_connection_state = ImportedState(e)]]
    /\ clients' = clients \cup {n}
    /\ client_id' = client_id + 1
    /\ client_count' = client_count + 1
    /\ iptables_fw_authenticate(e.peer)
    /\ UNCHANGED macVars

(* state_file_import_client returns 0, with the new entry at address n: all  *)
(* fields but the place in the list are those of the file, the id too, and   *)
(* auth_change_state replays an authentication.                              *)
state_file_import_client(e, n) ==
    /\ Importable(e)
    /\ heap' = [heap EXCEPT ![n] = [e EXCEPT !.ord = NextPlace,
                                             !.fw_connection_state = ImportedState(e)]]
    /\ clients' = clients \cup {n}
    /\ client_id' = client_id + 1
    /\ client_count' = client_count + 1
    /\ IF CanChange(InitialMark(MacOfPeer(e.peer)), e.fw_connection_state)
       THEN iptables_fw_authenticate(e.peer) ELSE UNCHANGED rules
    /\ UNCHANGED macVars
===============================================================================
