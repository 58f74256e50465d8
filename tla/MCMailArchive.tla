---------------------------- MODULE MCMailArchive ----------------------------
\* Small instances of MailArchive.  Every way of distributing the messages over
\* mailboxes and file names is an initial state; messages, mailboxes and names
\* are interchangeable.
EXTENDS MailArchive, TLC

MCSymmetry == Permutations(Msgs) \cup Permutations(Boxes) \cup Permutations(Names)
=============================================================================
