----------------------------- MODULE MCDatabase -----------------------------
(***************************************************************************)
(* TDatabaseManager for TLC: a behaviour is one of the synchronous client, *)
(* of the mailboxes or of the process around them, the part; the others    *)
(* keep their first state.                                                 *)
(***************************************************************************)
EXTENDS MCRedisSyncClient, MCMailbox, Startup

VARIABLE part

databaseVars == <<part, vars, mailboxVars, startupVars>>

SyncPart(A) == part = "sync" /\ A /\ UNCHANGED <<part, mailboxVars, startupVars>>
MailboxPart(A) == part = "mailbox" /\ A /\ UNCHANGED <<part, vars, startupVars>>
StartupPart(A) == part = "startup" /\ A /\ UNCHANGED <<part, vars, mailboxVars>>

DatabaseInit ==
  part \in {"sync", "mailbox", "startup"} /\ Init /\ MailboxInit /\ StartupInit
DatabaseNext ==
  SyncPart(Next) \/ MailboxPart(MailboxNext) \/ StartupPart(StartupNext)

\* The fairness of each module, for its own part.  Conditions of different
\* parts are stated as one where no behaviour has both.
DatabaseSpec ==
  /\ DatabaseInit /\ [][DatabaseNext]_databaseVars
  /\ \A c \in Calls : WF_databaseVars(SyncPart(alive /\ (read(c) \/ readFails(c))))
  /\ WF_databaseVars(SyncPart(alive /\ Serve) \/ MailboxPart(Respond)
                       \/ StartupPart(MainThread))
  /\ WF_databaseVars(MailboxPart(Execute) \/ StartupPart(IoServiceThread))
  /\ WF_databaseVars(MailboxPart(onReply))
  /\ \A w \in HttpThreads : WF_databaseVars(StartupPart(Trim(w)))
=============================================================================
