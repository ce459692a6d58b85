-------------------------- MODULE MCAttachmentFiles --------------------------
(***************************************************************************)
(* A small instance of AttachmentFiles for TLC: a received mail with the   *)
(* copy it is forwarded as, and two drafts of one mailbox.                 *)
(***************************************************************************)
EXTENDS AttachmentFiles, TLC

CONSTANTS original, copy, d1, d2, mailbox

MCCopyOf == copy :> original

MCMailboxOf == (d1 :> mailbox) @@ (d2 :> mailbox)
=============================================================================
