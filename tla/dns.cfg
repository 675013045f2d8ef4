CONSTANT Domains <- MCDomains
CONSTANT NameBuf = 9
CONSTANT Messages <- MCMessages
CONSTANT Cuts <- MCCuts
CONSTANT Junk <- MCJunk
SPECIFICATION Spec
INVARIANT Sound
