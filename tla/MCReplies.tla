----------------------------- MODULE MCReplies -----------------------------
EXTENDS Replies
=============================================================================
