---------------------------- MODULE MCSplitRelay ----------------------------
EXTENDS SplitRelay

CONSTANTS Laptop, IPhone
=============================================================================
