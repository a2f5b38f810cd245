------------------------------ MODULE MCNotion ------------------------------
(* Two overlapping requests and two authorizations, each with one refresh; the    *)
(* database has more rows than are imported, and every kind of row among them.    *)
EXTENDS NotionImport

MCTables ==
  LET Task(title, due) == [title |-> title, due |-> due, duration |-> "absent"] IN
  {<<Task("text", "date"), Task("blank", "bad"), Task("empty", "date")>>,
   <<Task("absent", "date")>>,
   <<Task("text", "absent"), Task("empty", "absent")>>}

MCMappings == {{"due"}}
=============================================================================
