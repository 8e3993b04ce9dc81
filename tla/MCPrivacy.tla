----------------------------- MODULE MCPrivacy -----------------------------
EXTENDS ThreadPrivacy
=============================================================================
