SPECIFICATION Spec
CONSTANT MaxAppends = 1
INVARIANT ManagerOutlivesItsUsers
