SPECIFICATION Spec
CONSTANT MaxID = 12
PROPERTY StoredNeverGoesBack
